------------------------------ MODULE MCPasskey ------------------------------
(* Passkey on small sets of model values. *)
EXTENDS Passkey, TLC

\* Users, clients, row ids, challenges and workers are interchangeable.
Symmetric ==
  Permutations(User) \cup Permutations(Client) \cup Permutations(RowId)
    \cup Permutations(Challenge) \cup Permutations(Worker)
=============================================================================
