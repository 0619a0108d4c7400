--------------------------- MODULE MCWorkerMemory ---------------------------
(* WorkerMemory on small sets of model values. *)
EXTENDS WorkerMemory, TLC

\* Keys, origins and workers are interchangeable.
Symmetric ==
  Permutations(Key) \cup Permutations(Origin) \cup Permutations(Worker)
=============================================================================
