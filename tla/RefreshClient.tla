---------------------------- MODULE RefreshClient ----------------------------
(***************************************************************************)
(* Consuming apps on top of RefreshTokens.  A device is one signed-in      *)
(* session of an app: what the app stores for a browser.  The app calls    *)
(* the SDK as the recipes show: it stores the pair of every answer, clears *)
(* the session on REFRESH_TOKEN_REUSED and REFRESH_TOKEN_EXPIRED and after *)
(* signing out, here or everywhere, and lets any other exception through,  *)
(* so that the stored token is tried again.                                *)
(*                                                                         *)
(* The SDK waits for the answer until its timeout; Knuckles works on.  A   *)
(* request that never arrives is the app waiting and then trying again,    *)
(* and no step here.                                                       *)
(***************************************************************************)
EXTENDS RefreshTokens

CONSTANT Device    \* sessions of consuming apps

ASSUME DeviceAssumption == None \notin Device

VARIABLES
  session,    \* what the app stores for each device
  awaiting,   \* the device whose call waits for the answer of each worker
  doubted     \* history: users of whom some app could not know whether a
              \* token was consumed, sent one twice at once, or had the
              \* tokens of other sessions revoked

client_vars == <<session, awaiting, doubted>>
all_vars == <<vars, client_vars>>

-----------------------------------------------------------------------------
Session == [client : Client, user : User, token : Token]

ClientInit ==
  /\ Init
  /\ session = [d \in Device |-> None]
  /\ awaiting = [w \in Worker |-> None]
  /\ doubted = {}

InFlight(d) == \E w \in Worker : awaiting[w] = d

\* A request of d arrives at an idle worker.
Call(w, d, request) ==
  /\ Begin(w, request)
  /\ awaiting' = [awaiting EXCEPT ![w] = d]
  /\ UNCHANGED session

SignIn(w, d) ==
  /\ session[d] = None /\ ~InFlight(d)
  /\ \E u \in User, c \in Client :
       Call(w, d, [Idle EXCEPT !.pc = "issuing", !.op = "sign_in",
                               !.user = u, !.client = c])
  /\ UNCHANGED doubted

\* client.refresh and client.logout with the stored token.  Two tabs of one
\* session may call at the same time.
Present(w, d, op) ==
  LET s == session[d]
  IN /\ s # None
     /\ Call(w, d, [Idle EXCEPT !.pc = "lookup", !.op = op,
                                !.client = s.client, !.presented = s.token,
                                !.cached = CachedAtAuth(s.token, s.client),
                                !.replay = IsUsed(s.token)])
     /\ doubted' = doubted \cup {u \in {s.user} : InFlight(d)}

\* client.logout_all with the stored access token.  It sets used_at of the
\* tokens that other sessions of the user hold, and of pairs on their way; what
\* a refresh with one of them looks like is a replay.
SignOutEverywhere(w, d) ==
  LET s == session[d]
  IN /\ s # None
     /\ Call(w, d, [Idle EXCEPT !.pc = "revoking", !.op = "logout_all",
                                !.user = s.user, !.client = s.client,
                                !.targets = ActiveOf(s.user),
                                !.verdict = "ok"])
     /\ doubted' = doubted \cup
          {u \in {s.user} : InFlight(d) \/ ActiveOf(u) \ {s.token} # {}}

-----------------------------------------------------------------------------
(* How a call ends *)

\* The answer is a pair: the app stores it.  (As in RefreshTokens, the
\* definition right before one whose name it extends is a faulty version.)
StoresPair(w) == txn[w].child # None

\* The codes that make the app clear the session, and the 204 of a logout or
\* the count of /logout/all.
ClearsSession(w) ==
  txn[w].verdict \in {"reused", "expired"}
    \/ (txn[w].op \in {"logout", "logout_all"} /\ txn[w].verdict = "ok")

SessionAfterKeepsToken(w, d) ==
  IF session[d] = None /\ StoresPair(w)
    THEN [client |-> txn[w].client, user |-> txn[w].user,
          token |-> txn[w].child]
  ELSE IF ClearsSession(w) THEN None ELSE session[d]
SessionAfter(w, d) ==
  IF StoresPair(w)
    THEN [client |-> txn[w].client, user |-> txn[w].user,
          token |-> txn[w].child]
  ELSE IF ClearsSession(w) THEN None ELSE session[d]

UserOf(d) == {s.user : s \in {session[d]} \ {None}}

\* The answer arrives in time.  A 500 leaves the app in doubt.
Answered(w) ==
  /\ awaiting[w] # None
  /\ Deliver(w)
  /\ session' = [session EXCEPT ![awaiting[w]] = SessionAfter(w, awaiting[w])]
  /\ awaiting' = [awaiting EXCEPT ![w] = None]
  /\ doubted' = doubted \cup {u \in UserOf(awaiting[w]) : txn[w].verdict = "error"}

\* KnucklesNetworkError
CallFails(w) ==
  LET d == awaiting[w]
  IN /\ awaiting' = [awaiting EXCEPT ![w] = None]
     /\ doubted' = IF d = None THEN doubted ELSE doubted \cup UserOf(d)
     /\ UNCHANGED session

\* The connection breaks after COMMIT, or nobody waits any more.
AnswerLostKeepsPair(w) ==
  /\ LoseResponse(w)
  /\ awaiting' = [awaiting EXCEPT ![w] = None]
  /\ session' = IF awaiting[w] # None /\ StoresPair(w)
                  THEN [session EXCEPT ![awaiting[w]] =
                          SessionAfter(w, awaiting[w])]
                  ELSE session
  /\ UNCHANGED doubted
AnswerLost(w) == LoseResponse(w) /\ CallFails(w)

WorkerDies(w) == Crash(w) /\ CallFails(w)

\* The SDK gives up; the worker does not notice.
TimesOut(w) ==
  /\ awaiting[w] # None
  /\ CallFails(w)
  /\ UNCHANGED vars

\* The worker's own steps, up to the answer.
Works(w) ==
  /\ LookUp(w) \/ Write(w) \/ Commit(w)
  /\ UNCHANGED client_vars

Passes == Tick /\ UNCHANGED client_vars

-----------------------------------------------------------------------------
Calls(w, d) ==
  \/ SignIn(w, d) \/ SignOutEverywhere(w, d)
  \/ Present(w, d, "refresh") \/ Present(w, d, "logout")

ClientNext ==
  \/ Passes
  \/ \E w \in Worker :
       \/ \E d \in Device : Calls(w, d)
       \/ Works(w) \/ Answered(w) \/ AnswerLost(w) \/ WorkerDies(w) \/ TimesOut(w)

ClientSpec == ClientInit /\ [][ClientNext]_all_vars

-----------------------------------------------------------------------------
(* Properties *)

\* The client variables keep their shape; a call waits for a busy worker, and
\* a stored token is one that was delivered.
ClientTypeOK ==
  /\ session \in [Device -> Session \cup {None}]
  /\ awaiting \in [Worker -> Device \cup {None}]
  /\ doubted \subseteq User
  /\ \A w \in Worker : awaiting[w] # None => txn[w].pc # "idle"
  /\ \A d \in Device : session[d] # None => session[d].token \in delivered

\* An app that stores every pair it is given is never told that its token is
\* unknown or belongs to another client, whatever is lost or crashes.
OnlyDocumentedAnswers ==
  \A w \in Worker : txn[w].verdict \notin {"invalid", "invalid_client"}

\* The reuse alarm ends the sessions of a user only when one of the user's apps
\* lost an answer, was answered 500, presented a token twice at once, or signed
\* the user out everywhere while other sessions existed (used_at records a
\* revocation and a rotation alike, so the next refresh of one of those sessions
\* is taken for a replay).  Signing in, refreshing and logging out on many
\* devices, and signing out everywhere from the only one, never raise it.
NoFalseAlarm ==
  \A w \in Worker : txn[w].verdict = "reused" => txn[w].user \in doubted

\* The server part is RefreshTokens: its invariants hold here as well.
ServerSpec == Spec
=============================================================================
