---------------------------- MODULE RefreshLedger ----------------------------
(***************************************************************************)
(* The refresh_tokens table read as a SessionLedger: a row is a grant, and *)
(* a row whose used_at is NULL is an active one.                           *)
(***************************************************************************)
EXTENDS RefreshTokens

GrantOf(t) == [user_id |-> refresh_tokens[t].user_id,
               app_client_id |-> refresh_tokens[t].app_client_id]

Ledger == INSTANCE SessionLedger
            WITH grant  <- [t \in Stored |-> GrantOf(t)],
                 active <- {t \in Stored : ~refresh_tokens[t].used_at}

\* A single worker implements the ledger: each request takes effect at its
\* COMMIT, as one of the ledger's steps, or not at all.
ImplementsLedger == Ledger!Spec
=============================================================================
