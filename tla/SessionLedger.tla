---------------------------- MODULE SessionLedger ----------------------------
(***************************************************************************)
(* What the refresh-token service promises a consuming app, with every     *)
(* request taking effect in one step: a ledger of granted tokens of which  *)
(* some are active.  A token is rotated at most once, only while it is     *)
(* active, and its successor is granted to the same user and client.       *)
(***************************************************************************)
CONSTANTS User, Client, Token

VARIABLES
  grant,    \* the user and client each issued token was granted to
  active    \* the issued tokens that can still be rotated

ledger == <<grant, active>>

Issued == DOMAIN grant

Grant(t, g) == grant' = [s \in Issued \cup {t} |-> IF s = t THEN g ELSE grant[s]]

Init == grant = [t \in {} |-> {}] /\ active = {}

SignIn(t, u, c) ==
  /\ t \notin Issued
  /\ Grant(t, [user_id |-> u, app_client_id |-> c])
  /\ active' = active \cup {t}

Rotate(p, t) ==
  /\ p \in active
  /\ t \notin Issued
  /\ Grant(t, grant[p])
  /\ active' = (active \ {p}) \cup {t}

Logout(p) ==
  /\ p \in active
  /\ active' = active \ {p}
  /\ UNCHANGED grant

\* "Sign out everywhere", and the answer to a reuse alarm.
EndEverySession(u) ==
  /\ active' = {t \in active : grant[t].user_id # u}
  /\ UNCHANGED grant

Next ==
  \/ \E t \in Token, u \in User, c \in Client : SignIn(t, u, c)
  \/ \E p, t \in Token : Rotate(p, t)
  \/ \E p \in Token : Logout(p)
  \/ \E u \in User : EndEverySession(u)

Spec == Init /\ [][Next]_ledger
=============================================================================
