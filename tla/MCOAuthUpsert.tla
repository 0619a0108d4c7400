---------------------------- MODULE MCOAuthUpsert ----------------------------
(* OAuthUpsert on small sets of model values. *)
EXTENDS OAuthUpsert, TLC

\* Identities, addresses, users, links and workers are interchangeable.
Symmetric ==
  Permutations(Identity) \cup Permutations(Email) \cup Permutations(User)
    \cup Permutations(LinkId) \cup Permutations(Worker)
=============================================================================
