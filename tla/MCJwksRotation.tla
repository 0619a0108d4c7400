--------------------------- MODULE MCJwksRotation ---------------------------
(* JwksRotation on small sets of model values. *)
EXTENDS JwksRotation, TLC

\* Key ids and processes are interchangeable.
Symmetric == Permutations(Kid) \cup Permutations(Process)
=============================================================================
