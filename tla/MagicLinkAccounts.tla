-------------------------- MODULE MagicLinkAccounts --------------------------
(***************************************************************************)
(* MagicLink over accounts that the operator deactivates.  MagicLink has   *)
(* no is_active, because neither start_magic_link nor verify_magic_link    *)
(* reads it; the OAuth and passkey sign-ins do.                            *)
(***************************************************************************)
EXTENDS MagicLink

VARIABLES
  inactive,   \* users whose is_active is false
  barred      \* history: who was inactive when each worker's request arrived

account_vars == <<vars, inactive, barred>>

AccountInit == Init /\ inactive = {} /\ barred = [w \in Worker |-> {}]

\* A request of MagicLink, which leaves is_active alone.
AccountRequest ==
  /\ Next
  /\ barred' = [w \in Worker |->
                  IF txn[w].pc = "idle" /\ txn'[w].pc # "idle" THEN inactive
                                                              ELSE barred[w]]
  /\ UNCHANGED inactive

\* UPDATE users SET is_active = false, by hand: no code of Knuckles does it.
Deactivate ==
  \E u \in DOMAIN users \ inactive :
    /\ inactive' = inactive \cup {u}
    /\ UNCHANGED <<vars, barred>>

AccountSpec == AccountInit /\ [][AccountRequest \/ Deactivate]_account_vars

\* "Inactive users cannot sign in": a redemption that arrives after the account
\* was deactivated gets no session.
DeactivatedStaysOut ==
  \A w \in Worker : txn[w].session => txn[w].user \notin barred[w]
=============================================================================
