--------------------------- MODULE MCRefreshTokens ---------------------------
(* RefreshTokens and RefreshLedger on small sets of model values. *)
EXTENDS RefreshLedger, TLC

\* Tokens, users, clients and workers are interchangeable.
Symmetric ==
  Permutations(Token) \cup Permutations(User) \cup Permutations(Client)
    \cup Permutations(Worker)
=============================================================================
