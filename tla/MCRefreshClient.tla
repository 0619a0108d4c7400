--------------------------- MODULE MCRefreshClient ---------------------------
(* RefreshClient on small sets of model values. *)
EXTENDS RefreshClient, FiniteSets, TLC

\* Devices, tokens, users, clients and workers are interchangeable.
Symmetric ==
  Permutations(Token) \cup Permutations(User) \cup Permutations(Client)
    \cup Permutations(Worker) \cup Permutations(Device)

\* Once time has passed only states with few tokens are explored further.
LateTokens == 2
FewTokensLate == now = 0 \/ Cardinality(Stored) <= LateTokens
=============================================================================
