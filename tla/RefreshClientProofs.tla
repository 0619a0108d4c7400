------------------------- MODULE RefreshClientProofs -------------------------
(***************************************************************************)
(* RefreshClient for any number of users, clients, tokens, workers and     *)
(* devices: its server part is RefreshTokens, and the reuse alarm is never *)
(* false.                                                                  *)
(*                                                                         *)
(* The second is about who may hold, present and consume a token at one    *)
(* moment.  A user is quiet as long as no app was in doubt about one of    *)
(* the user's tokens, and none of the user's sessions was ended by another.*)
(* A token of a quiet user is held by one device, presented or revoked by  *)
(* one call of that device at most, and consumed by that call alone; so no *)
(* call presents it when it is consumed.                                   *)
(***************************************************************************)
EXTENDS RefreshClient, RefreshTokensProofs

\* The devices hold tokens that were delivered, each one of its own.
HeldInv ==
  /\ \A d \in Device : session[d] # None =>
       /\ session[d] \in Session
       /\ session[d].token \in delivered
       /\ refresh_tokens[session[d].token].user_id = session[d].user
       /\ refresh_tokens[session[d].token].app_client_id = session[d].client
  /\ \A d, e \in Device :
       d # e /\ session[d] # None /\ session[e] # None =>
         session[d].token # session[e].token

\* A request of an app.  It presents a token that was delivered to the same
\* client; what it consumes is that token, or belongs to a user in doubt, or to
\* the user who signs out everywhere.
Presents(x) == x.op \in {"refresh", "logout"}
SignsOutAll(x) == x.op = "logout_all"
OwnerInDoubt(t) == refresh_tokens[t].user_id \in doubted
CallerInDoubt(x) ==
  \/ Presents(x) /\ OwnerInDoubt(x.presented)
  \/ SignsOutAll(x) /\ x.user \in doubted

RequestOrigin(x) ==
  /\ SignsOutAll(x) => x.pc \in {"revoking", "closing", "replying"}
  /\ x.pc = "idle" => x.op = "none"
  /\ x.op = "none" => x = Idle
  /\ x.op = "sign_in" => x.pc \in {"issuing", "closing", "replying"}
  /\ Presents(x) =>
       /\ x.presented \in delivered
       /\ refresh_tokens[x.presented].app_client_id = x.client
RequestConsumes(x) ==
  /\ x.marks \subseteq x.targets
  /\ \A t \in x.targets :
       \/ OwnerInDoubt(t)
       \/ Presents(x) /\ t = x.presented
       \/ SignsOutAll(x) /\ refresh_tokens[t].user_id = x.user
RequestAnswer(x) ==
  /\ x.verdict \notin {"invalid", "invalid_client"}
  /\ x.verdict = "reused" => x.user \in doubted /\ x.child = None
  /\ x.pc = "lookup" => x.verdict = "none"
  /\ x.pc = "revoking" =>
       x.verdict = "reused" \/ (SignsOutAll(x) /\ x.verdict = "ok")
  /\ x.pc = "marking" /\ x.op = "logout" => x.verdict = "ok"
  /\ x.pc \in {"closing", "replying"} =>
       /\ x.verdict # "none"
       /\ x.verdict = "ok" /\ x.op \notin {"logout", "logout_all"} =>
            x.child # None
  /\ x.child # None =>
       /\ x.op \notin {"logout", "logout_all"}
       /\ x.child \notin delivered
       /\ x.user \in User /\ x.client \in Client
       /\ x.pc = "replying" =>
            /\ refresh_tokens[x.child].user_id = x.user
            /\ refresh_tokens[x.child].app_client_id = x.client
            /\ x.user \notin doubted => ~IsUsed(x.child)
RequestInv(x) == RequestOrigin(x) /\ RequestConsumes(x) /\ RequestAnswer(x)

\* The call of a device: the only one, unless its user is in doubt; and while
\* the user is quiet, it presents what the device holds, not consumed yet, or
\* revokes nothing else.
CallInv(w) ==
  /\ awaiting[w] \in Device \cup {None}
  /\ awaiting[w] # None => txn[w].pc # "idle"
  /\ awaiting[w] # None /\ txn[w].op = "sign_in" => session[awaiting[w]] = None
  /\ Presents(txn[w]) /\ ~OwnerInDoubt(txn[w].presented) =>
       /\ awaiting[w] # None
       /\ session[awaiting[w]] # None
       /\ session[awaiting[w]].token = txn[w].presented
       /\ txn[w].cached # "used"
       /\ txn[w].pc \in {"lookup", "marking"} => ~IsUsed(txn[w].presented)
  /\ SignsOutAll(txn[w]) /\ txn[w].user \notin doubted =>
       /\ awaiting[w] # None
       /\ session[awaiting[w]] # None
       /\ session[awaiting[w]].user = txn[w].user
       /\ txn[w].targets \subseteq {session[awaiting[w]].token}
CallsDistinct ==
  \A v, w \in Worker :
    v # w /\ awaiting[v] # None /\ awaiting[v] = awaiting[w] =>
      CallerInDoubt(txn[w])

\* A quiet device with no call under way can refresh.
QuietSessions ==
  \A d \in Device :
    session[d] # None /\ session[d].user \notin doubted /\ ~InFlight(d) =>
      ~IsUsed(session[d].token)

ClientInv ==
  /\ Inv
  /\ session \in [Device -> Session \cup {None}]
  /\ awaiting \in [Worker -> Device \cup {None}]
  /\ doubted \subseteq User
  /\ HeldInv
  /\ \A w \in Worker : RequestInv(txn[w]) /\ CallInv(w)
  /\ CallsDistinct
  /\ QuietSessions
-----------------------------------------------------------------------------
\* Every step of the apps and the server is a step of RefreshTokens, or none.
LEMMA ServerStep ==
  ASSUME ClientInv, [ClientNext]_all_vars
  PROVE  [Next]_vars
<1>1. CASE UNCHANGED all_vars
  BY <1>1 DEF all_vars
<1>2. CASE Passes
  BY <1>2 DEF Passes, Next
<1>3. ASSUME NEW w \in Worker, NEW d \in Device, Calls(w, d)
      PROVE  Start(w)
  <2>1. CASE SignIn(w, d)
    BY <2>1 DEF SignIn, Call, Start, StartSignIn
  <2>2. ASSUME NEW op \in {"refresh", "logout"}, Present(w, d, op)
        PROVE  StartWithToken(w, op)
    <3>1. session[d] # None
      BY <2>2 DEF Present
    <3>2. session[d].client \in Client /\ session[d].token \in delivered
      BY <3>1 DEF ClientInv, HeldInv, Session
    <3>3. QED
      BY <2>2, <3>2 DEF Present, Call, StartWithToken
  <2>3. CASE SignOutEverywhere(w, d)
    <3>1. session[d] # None
      BY <2>3 DEF SignOutEverywhere
    <3>2. /\ session[d].client \in Client /\ session[d].token \in delivered
          /\ refresh_tokens[session[d].token].user_id = session[d].user
      BY <3>1 DEF ClientInv, HeldInv, Session
    <3>3. StartLogoutAll(w)
      BY <2>3, <3>2 DEF SignOutEverywhere, Call, StartLogoutAll
    <3>4. QED
      BY <3>3 DEF Start
  <2>4. QED
    BY <1>3, <2>1, <2>2, <2>3 DEF Calls, Start, StartRefresh, StartLogout
<1>4. ASSUME NEW w \in Worker,
             Works(w) \/ Answered(w) \/ AnswerLost(w) \/ WorkerDies(w) \/ TimesOut(w)
      PROVE  Serve(w) \/ Crash(w) \/ UNCHANGED vars
  BY <1>4 DEF Works, Answered, AnswerLost, WorkerDies, TimesOut, Serve, Finish
<1>5. QED
  BY <1>1, <1>2, <1>3, <1>4 DEF ClientNext, Next

\* The table and the doubts only grow as far as a request notices.
TableGrows ==
  /\ Stored \subseteq Stored'
  /\ \A t \in Stored :
       /\ refresh_tokens'[t].user_id = refresh_tokens[t].user_id
       /\ refresh_tokens'[t].app_client_id = refresh_tokens[t].app_client_id
  /\ delivered \subseteq delivered'
  /\ doubted \subseteq doubted'

\* A request that does nothing stays in order while others act.
LEMMA RequestStays ==
  ASSUME ClientInv, NEW v \in Worker, txn'[v] = txn[v], TableGrows,
         txn[v].child # None =>
           /\ txn[v].child \notin delivered'
           /\ txn[v].pc = "replying" /\ txn[v].user \notin doubted' =>
                (IsUsed(txn[v].child)' => IsUsed(txn[v].child))
  PROVE  RequestInv(txn[v])'
<1>1. PICK x : x = txn[v]
  OBVIOUS
<1>2. /\ RequestInv(x) /\ SessionInv(x) /\ delivered \subseteq Stored
      /\ txn'[v] = x
  BY <1>1 DEF ClientInv, Inv, TableInv
<1>3. RequestOrigin(x)'
  BY <1>2 DEF RequestInv, RequestOrigin, TableGrows, Presents, SignsOutAll
<1>4. RequestConsumes(x)'
  BY <1>2 DEF RequestInv, RequestConsumes, TableGrows, Presents, SignsOutAll,
     OwnerInDoubt,
     SessionInv, TargetsUsed
<1>5. RequestAnswer(x)'
  BY <1>1, <1>2 DEF RequestInv, RequestAnswer, TableGrows, SessionInv,
     ChildFresh
<1>6. RequestInv(x)'
  BY <1>3, <1>4, <1>5 DEF RequestInv
<1>7. QED
  BY <1>2, <1>6 DEF RequestInv, RequestOrigin, RequestConsumes, RequestAnswer,
     Presents, SignsOutAll, OwnerInDoubt, IsUsed, Stored

\* A step of a request that touches neither the table nor the apps.
LEMMA QuietLocalStep ==
  ASSUME ClientInv, Inv', NEW w \in Worker, NEW y,
         txn' = [txn EXCEPT ![w] = y],
         UNCHANGED <<refresh_tokens, delivered, client_vars>>,
         RequestInv(y),
         y.pc # "idle", y.op = txn[w].op, y.presented = txn[w].presented,
         y.cached = txn[w].cached,
         Presents(y) /\ y.pc \in {"lookup", "marking"} =>
           txn[w].pc \in {"lookup", "marking"},
         SignsOutAll(y) =>
           y.user = txn[w].user /\ y.targets \subseteq txn[w].targets
  PROVE  ClientInv'
<1>1. /\ txn'[w] = y
      /\ \A v \in Worker \ {w} : txn'[v] = txn[v]
  BY DEF ClientInv, Inv
<1>2. UNCHANGED <<session, awaiting, doubted>> /\ Stored' = Stored
  BY DEF client_vars, Stored
<1>3. TableGrows
  BY <1>2 DEF TableGrows
<1>4. ASSUME NEW v \in Worker PROVE RequestInv(txn[v])'
  <2>1. CASE v = w
    BY <1>1, <1>2, <2>1 DEF RequestInv, RequestOrigin, RequestConsumes,
       RequestAnswer, Presents, SignsOutAll, OwnerInDoubt, IsUsed
  <2>2. CASE v # w
    <3>1. txn'[v] = txn[v] /\ (IsUsed(txn[v].child)' => IsUsed(txn[v].child))
      BY <1>1, <1>2, <2>2 DEF IsUsed
    <3>2. txn[v].child # None => txn[v].child \notin delivered'
      BY DEF ClientInv, RequestInv, RequestAnswer
    <3>3. QED
      BY <1>3, <3>1, <3>2, RequestStays
  <2>3. QED
    BY <2>1, <2>2
<1>5. ASSUME NEW v \in Worker PROVE CallInv(v)'
  <2>1. CASE v = w
    BY <1>1, <1>2, <2>1 DEF ClientInv, CallInv, Presents, SignsOutAll,
       OwnerInDoubt, IsUsed
  <2>2. CASE v # w
    BY <1>1, <1>2, <2>2 DEF ClientInv, CallInv, Presents, SignsOutAll,
       OwnerInDoubt, IsUsed
  <2>3. QED
    BY <2>1, <2>2
<1>6. CallsDistinct'
  BY <1>1, <1>2 DEF ClientInv, CallsDistinct, CallerInDoubt, Presents,
     SignsOutAll, OwnerInDoubt
<1>7. HeldInv' /\ QuietSessions'
  BY <1>2 DEF ClientInv, HeldInv, QuietSessions, InFlight, IsUsed
<1>8. QED
  BY <1>2, <1>4, <1>5, <1>6, <1>7 DEF ClientInv
-----------------------------------------------------------------------------
\* What a look-up or a write of a request makes of its session x.
LEMMA WorksLocally ==
  ASSUME ClientInv, Inv', NEW w \in Worker, LookUp(w) \/ Write(w),
         UNCHANGED client_vars
  PROVE  ClientInv'
<1>1. PICK x : x = txn[w]
  OBVIOUS
<1>2. /\ x \in Txn /\ SessionInv(x) /\ RequestInv(x) /\ delivered \subseteq Stored
      /\ x.pc # "idle" /\ x.op # "none"
  <2>1. x \in Txn /\ SessionInv(x) /\ RequestInv(x) /\ delivered \subseteq Stored
    BY <1>1 DEF ClientInv, Inv, TableInv
  <2>2. x.pc # "idle"
    BY <1>1, OnCircle DEF LookUp, RotateUnknown, RotateReused, RotateExpired,
       RotateForeign, RotateAccept, LogoutNothing, LogoutAccept, Looking,
       Write, MarkUsed, RevokeAll, RevokeRow, RevokeDone, DeadlockAborts,
       IssueSession, IssueFails
  <2>3. x.op # "none"
    BY <2>1, <2>2 DEF RequestInv, RequestOrigin, Idle
  <2>4. QED
    BY <2>1, <2>2, <2>3
<1>3. x.pc \in {"lookup", "marking", "revoking", "issuing"} => x.child = None
  BY <1>2 DEF SessionInv, ChildFresh
<1>4. x.pc = "lookup" => x.targets = {} /\ x.marks = {}
  BY <1>2 DEF SessionInv, TargetsUsed, RequestInv, RequestConsumes
\* It is enough to say what the session becomes.
<1>5. ASSUME NEW y, Advance(w, y), RequestInv(y), y.pc # "idle", y.op = x.op,
             y.presented = x.presented, y.cached = x.cached,
             Presents(y) /\ y.pc \in {"lookup", "marking"} =>
               x.pc \in {"lookup", "marking"},
             SignsOutAll(y) => y.user = x.user /\ y.targets \subseteq x.targets
      PROVE  ClientInv'
  BY <1>1, <1>5, QuietLocalStep DEF Advance
<1>6. ASSUME NEW verdict \in {"expired", "ok", "error"}, Refuse(w, verdict),
             verdict = "ok" => x.op = "logout",
             x.pc \in {"lookup", "issuing"}
      PROVE  ClientInv'
  <2> DEFINE y == [x EXCEPT !.pc = "closing", !.verdict = verdict]
  <2>1. /\ y.pc = "closing" /\ y.verdict = verdict /\ y.op = x.op
        /\ y.presented = x.presented /\ y.cached = x.cached /\ y.child = x.child
        /\ y.marks = x.marks /\ y.targets = x.targets /\ y.client = x.client
        /\ y.user = x.user
    BY <1>2 DEF Txn
  <2>2. Advance(w, y)
    BY <1>1, <1>6 DEF Refuse
  <2> HIDE DEF y
  <2>3. RequestInv(y)
    BY <1>2, <1>3, <1>6, <2>1 DEF RequestInv, RequestOrigin, RequestConsumes,
       RequestAnswer, Presents, SignsOutAll
  <2>4. QED
    BY <1>5, <2>1, <2>2, <2>3
\* A token that was delivered to the caller is stored, and the caller's.
<1>7. CASE RotateUnknown(w) \/ RotateForeign(w)
  BY <1>1, <1>2, <1>7 DEF RotateUnknown, RotateForeign, Looking, RequestInv,
     RequestOrigin, Presents, SignsOutAll, OwnedByCaller
\* The token of a quiet user is not used when it is looked up.
<1>8. CASE RotateReused(w)
  <2> DEFINE u == refresh_tokens[x.presented].user_id
             y == [x EXCEPT !.pc = "revoking", !.verdict = "reused", !.user = u,
                            !.targets = ActiveOf(u)]
  <2>1. /\ Advance(w, y) /\ x.pc = "lookup" /\ x.op = "refresh"
        /\ SeesUsed(x) /\ x.presented \in Stored
    BY <1>1, <1>8 DEF RotateReused, Looking
  <2>2. OwnerInDoubt(x.presented)
    BY <1>1, <2>1 DEF ClientInv, CallInv, Presents, SignsOutAll, SeesUsed
  <2>3. /\ y.pc = "revoking" /\ y.verdict = "reused" /\ y.user = u
        /\ y.targets = ActiveOf(u) /\ y.op = x.op /\ y.presented = x.presented
        /\ y.cached = x.cached /\ y.child = x.child /\ y.marks = x.marks
        /\ y.client = x.client
    BY <1>2 DEF Txn
  <2>4. u \in doubted /\ \A t \in ActiveOf(u) : OwnerInDoubt(t)
    BY <2>2 DEF OwnerInDoubt, ActiveOf
  <2> HIDE DEF y, u
  <2>5. RequestInv(y)
    BY <1>2, <1>3, <1>4, <2>1, <2>3, <2>4 DEF RequestInv, RequestOrigin,
       RequestConsumes, RequestAnswer, Presents, SignsOutAll
  <2>6. QED
    BY <1>5, <2>1, <2>3, <2>5 DEF SignsOutAll
<1>9. CASE RotateExpired(w)
  BY <1>1, <1>6, <1>9 DEF RotateExpired, Looking
<1>10. CASE RotateAccept(w)
  <2> DEFINE u == refresh_tokens[x.presented].user_id
             y == [x EXCEPT !.pc = "marking", !.targets = {x.presented},
                            !.user = u]
  <2>1. Advance(w, y) /\ x.pc = "lookup" /\ x.op = "refresh"
    BY <1>1, <1>10 DEF RotateAccept, Looking
  <2>2. /\ y.pc = "marking" /\ y.verdict = x.verdict /\ y.user = u
        /\ y.targets = {x.presented} /\ y.op = x.op /\ y.presented = x.presented
        /\ y.cached = x.cached /\ y.child = x.child /\ y.marks = x.marks
        /\ y.client = x.client
    BY <1>2 DEF Txn
  <2> HIDE DEF y, u
  <2>3. x.verdict = "none"
    BY <1>2, <2>1 DEF RequestInv, RequestAnswer
  <2>4. RequestInv(y)
    BY <1>2, <1>3, <1>4, <2>1, <2>2, <2>3 DEF RequestInv, RequestOrigin,
       RequestConsumes, RequestAnswer, Presents, SignsOutAll
  <2>5. QED
    BY <1>5, <2>1, <2>2, <2>4 DEF SignsOutAll
<1>11. CASE LogoutNothing(w)
  BY <1>1, <1>6, <1>11 DEF LogoutNothing, Looking
<1>12. CASE LogoutAccept(w)
  <2> DEFINE y == [x EXCEPT !.pc = "marking", !.verdict = "ok",
                            !.targets = {x.presented}]
  <2>1. Advance(w, y) /\ x.pc = "lookup" /\ x.op = "logout"
    BY <1>1, <1>12 DEF LogoutAccept, Looking
  <2>2. /\ y.pc = "marking" /\ y.verdict = "ok"
        /\ y.targets = {x.presented} /\ y.op = x.op /\ y.presented = x.presented
        /\ y.cached = x.cached /\ y.child = x.child /\ y.marks = x.marks
        /\ y.client = x.client /\ y.user = x.user
    BY <1>2 DEF Txn
  <2> HIDE DEF y
  <2>3. RequestInv(y)
    BY <1>2, <1>3, <1>4, <2>1, <2>2 DEF RequestInv, RequestOrigin,
       RequestConsumes, RequestAnswer, Presents, SignsOutAll
  <2>4. QED
    BY <1>5, <2>1, <2>2, <2>3 DEF SignsOutAll
<1>13. CASE MarkUsed(w)
  <2> DEFINE y == [x EXCEPT !.marks = x.targets,
                            !.pc = IF x.op = "refresh" THEN "issuing"
                                                       ELSE "closing"]
  <2>1. Advance(w, y) /\ x.pc = "marking"
    BY <1>1, <1>13 DEF MarkUsed
  <2>2. /\ y.pc = IF x.op = "refresh" THEN "issuing" ELSE "closing"
        /\ y.marks = x.targets /\ y.verdict = x.verdict
        /\ y.targets = x.targets /\ y.op = x.op /\ y.presented = x.presented
        /\ y.cached = x.cached /\ y.child = x.child
        /\ y.client = x.client /\ y.user = x.user
    BY <1>2 DEF Txn
  <2>3. x.op \in {"refresh", "logout"}
    BY <1>2, <2>1 DEF Txn, Op, RequestInv, RequestOrigin, SignsOutAll
  <2> HIDE DEF y
  <2>4. RequestInv(y)
    BY <1>2, <1>3, <2>1, <2>2, <2>3 DEF RequestInv, RequestOrigin,
       RequestConsumes, RequestAnswer, Presents, SignsOutAll
  <2>5. QED
    BY <1>5, <2>1, <2>2, <2>4
<1>14. CASE RevokeAll(w)
  <2>1. x.pc = "revoking"
    BY <1>1, <1>14, OnCircle DEF RevokeAll, RevokeRow, RevokeDone,
       DeadlockAborts
  <2>2. CASE RevokeRow(w)
    <3>1. PICK t \in x.targets : Advance(w, [x EXCEPT !.marks = @ \cup {t}])
      BY <1>1, <2>2 DEF RevokeRow
    <3>2. PICK y : y = [x EXCEPT !.marks = @ \cup {t}]
      OBVIOUS
    <3>3. /\ y.pc = x.pc /\ y.marks = x.marks \cup {t}
          /\ y.verdict = x.verdict
          /\ y.targets = x.targets /\ y.op = x.op /\ y.presented = x.presented
          /\ y.cached = x.cached /\ y.child = x.child
          /\ y.client = x.client /\ y.user = x.user
      BY <1>2, <3>2 DEF Txn
    <3>4. RequestInv(y)
      BY <1>2, <1>3, <2>1, <3>3 DEF RequestInv, RequestOrigin,
         RequestConsumes, RequestAnswer, Presents, SignsOutAll
    <3>5. QED
      BY <1>5, <2>1, <3>1, <3>2, <3>3, <3>4
  <2>3. CASE RevokeDone(w)
    <3>1. PICK y : y = [x EXCEPT !.pc = "closing"]
      OBVIOUS
    <3>2. Advance(w, y)
      BY <1>1, <2>3, <3>1 DEF RevokeDone
    <3>3. /\ y.pc = "closing" /\ y.marks = x.marks
          /\ y.verdict = x.verdict
          /\ y.targets = x.targets /\ y.op = x.op /\ y.presented = x.presented
          /\ y.cached = x.cached /\ y.child = x.child
          /\ y.client = x.client /\ y.user = x.user
      BY <1>2, <3>1 DEF Txn
    <3>4. RequestInv(y)
      BY <1>2, <1>3, <2>1, <3>3 DEF RequestInv, RequestOrigin,
         RequestConsumes, RequestAnswer, Presents, SignsOutAll
    <3>5. QED
      BY <1>5, <3>2, <3>3, <3>4
  <2>4. CASE DeadlockAborts(w)
    <3>1. PICK y : y = [x EXCEPT !.pc = "closing", !.verdict = "error",
                                 !.targets = {}, !.marks = {}]
      OBVIOUS
    <3>2. Advance(w, y)
      BY <1>1, <2>4, <3>1 DEF DeadlockAborts
    <3>3. /\ y.pc = "closing" /\ y.marks = {} /\ y.targets = {}
          /\ y.verdict = "error" /\ y.op = x.op /\ y.presented = x.presented
          /\ y.cached = x.cached /\ y.child = x.child
          /\ y.client = x.client /\ y.user = x.user
      BY <1>2, <3>1 DEF Txn
    <3>4. RequestInv(y)
      BY <1>2, <1>3, <2>1, <3>3 DEF RequestInv, RequestOrigin,
         RequestConsumes, RequestAnswer, Presents, SignsOutAll
    <3>5. QED
      BY <1>5, <3>2, <3>3, <3>4
  <2>5. QED
    BY <1>14, <2>2, <2>3, <2>4 DEF RevokeAll
<1>15. CASE IssueSession(w)
  <2>1. PICK t \in Token \ Stored :
          Advance(w, [x EXCEPT !.pc = "closing", !.verdict = "ok", !.child = t,
                               !.expires = now + TTL])
    BY <1>1, <1>15 DEF IssueSession
  <2> DEFINE y == [x EXCEPT !.pc = "closing", !.verdict = "ok", !.child = t,
                            !.expires = now + TTL]
  <2>2. /\ y.pc = "closing" /\ y.verdict = "ok" /\ y.child = t
        /\ y.marks = x.marks /\ y.targets = x.targets /\ y.op = x.op
        /\ y.presented = x.presented /\ y.cached = x.cached
        /\ y.client = x.client /\ y.user = x.user
    BY <1>2 DEF Txn
  <2>3. /\ x.pc = "issuing" /\ t # None /\ t \notin delivered
        /\ Advance(w, y)
    BY <1>1, <1>2, <1>15, <2>1, NoneAssumption DEF IssueSession
  <2>4. x.op \in {"sign_in", "refresh"} /\ x.user \in User /\ x.client \in Client
    BY <1>2, <2>3 DEF SessionInv, RotationBound, Inserting
  <2> HIDE DEF y
  <2>5. RequestInv(y)
    BY <1>2, <2>2, <2>3, <2>4 DEF RequestInv, RequestOrigin, RequestConsumes,
       RequestAnswer, Presents, SignsOutAll
  <2>6. QED
    BY <1>5, <2>2, <2>3, <2>5
<1>16. CASE IssueFails(w)
  BY <1>1, <1>6, <1>16 DEF IssueFails
<1>17. QED
  BY <1>7, <1>8, <1>9, <1>10, <1>11, <1>12, <1>13, <1>14, <1>15, <1>16
     DEF LookUp, Write
-----------------------------------------------------------------------------
\* COMMIT consumes a token of a quiet user only for the device that holds it.
LEMMA ConsumedByItsHolder ==
  ASSUME ClientInv, NEW w \in Worker, Commit(w), NEW t \in Stored,
         IsUsed(t)', ~IsUsed(t), ~OwnerInDoubt(t)
  PROVE  /\ t \in delivered
         /\ awaiting[w] \in Device
         /\ session[awaiting[w]] # None
         /\ session[awaiting[w]].token = t
<1>1. t \in txn[w].marks
  BY CommitTable DEF ClientInv, IsUsed
<1>2. RequestInv(txn[w]) /\ CallInv(w)
  BY DEF ClientInv
<1>3. \/ Presents(txn[w]) /\ t = txn[w].presented
      \/ SignsOutAll(txn[w]) /\ txn[w].user \notin doubted /\ t \in txn[w].targets
  BY <1>1, <1>2 DEF RequestInv, RequestConsumes, OwnerInDoubt
<1>4. /\ awaiting[w] \in Device
      /\ session[awaiting[w]] # None
      /\ session[awaiting[w]].token = t
  BY <1>2, <1>3 DEF CallInv
<1>5. QED
  BY <1>4 DEF ClientInv, HeldInv

LEMMA ClientCommitStep ==
  ASSUME ClientInv, Inv', NEW w \in Worker, Commit(w), UNCHANGED client_vars
  PROVE  ClientInv'
<1>1. PICK x : x = txn[w]
  OBVIOUS
<1>2. PICK y : y = [x EXCEPT !.pc = "replying", !.marks = {}]
  OBVIOUS
<1>3. /\ x \in Txn /\ SessionInv(x) /\ RequestInv(x) /\ x.pc = "closing"
      /\ delivered \subseteq Stored /\ delivered' = delivered
      /\ txn'[w] = y
      /\ \A v \in Worker \ {w} : txn'[v] = txn[v]
  BY <1>1, <1>2 DEF ClientInv, Inv, TableInv, Commit
<1>4. /\ y.pc = "replying" /\ y.marks = {} /\ y.targets = x.targets
      /\ y.op = x.op /\ y.client = x.client /\ y.user = x.user
      /\ y.presented = x.presented /\ y.cached = x.cached /\ y.child = x.child
      /\ y.verdict = x.verdict
  BY <1>2, <1>3 DEF Txn
<1>5. UNCHANGED <<session, awaiting, doubted>>
  BY DEF client_vars
<1>6. /\ x.child \notin Stored
      /\ Stored' = Stored \cup ({x.child} \ {None})
      /\ x.child # None => refresh_tokens'[x.child] = ChildRow(x)
      /\ \A t \in Stored :
           /\ refresh_tokens'[t].user_id = refresh_tokens[t].user_id
           /\ refresh_tokens'[t].app_client_id = refresh_tokens[t].app_client_id
  BY <1>1, CommitTable DEF ClientInv
<1>7. TableGrows
  BY <1>3, <1>5, <1>6 DEF TableGrows
<1>8. RequestInv(y)'
  <2>1. RequestOrigin(y)'
    <3>1. x.op # "none"
      BY <1>3 DEF RequestInv, RequestOrigin, Idle
    <3>2. QED
      BY <1>3, <1>4, <1>6, <3>1 DEF RequestInv, RequestOrigin, Presents,
         SignsOutAll
  <2>2. RequestConsumes(y)'
    BY <1>3, <1>4, <1>5, <1>6 DEF RequestInv, RequestConsumes, Presents,
       SignsOutAll,
       OwnerInDoubt, SessionInv, TargetsUsed
  <2>3. x.child # None =>
          /\ refresh_tokens'[x.child].user_id = x.user
          /\ refresh_tokens'[x.child].app_client_id = x.client
          /\ ~IsUsed(x.child)'
    BY <1>6 DEF ChildRow, IsUsed
  <2>4. RequestAnswer(y)'
    BY <1>3, <1>4, <1>5, <2>3 DEF RequestInv, RequestAnswer
  <2>5. QED
    BY <2>1, <2>2, <2>4 DEF RequestInv
<1>9. ASSUME NEW v \in Worker PROVE RequestInv(txn[v])'
  <2>1. CASE v = w
    BY <1>3, <1>8, <2>1 DEF RequestInv, RequestOrigin, RequestConsumes,
       RequestAnswer, Presents, SignsOutAll, OwnerInDoubt, IsUsed, Stored
  <2>2. CASE v # w
    <3>1. PICK c : c = txn[v].child
      OBVIOUS
    <3>2. RequestAnswer(txn[v]) /\ ChildFresh(txn[v])
      BY DEF ClientInv, Inv, RequestInv, SessionInv
    <3>3. ASSUME c # None, txn[v].pc = "replying", txn[v].user \notin doubted
          PROVE  ~IsUsed(c)'
      <4>1. /\ c \in Stored /\ c \notin delivered /\ ~IsUsed(c)
            /\ refresh_tokens[c].user_id = txn[v].user
        BY <3>1, <3>2, <3>3 DEF RequestAnswer, ChildFresh
      <4>2. ~OwnerInDoubt(c)
        BY <3>3, <4>1 DEF OwnerInDoubt
      <4>3. QED
        BY <4>1, <4>2, ConsumedByItsHolder
    <3>4. c # None => c \notin delivered'
      BY <1>3, <3>1, <3>2 DEF RequestAnswer
    <3>5. QED
      BY <1>3, <1>5, <1>7, <2>2, <3>1, <3>3, <3>4, RequestStays
  <2>3. QED
    BY <2>1, <2>2
<1>10. ASSUME NEW v \in Worker PROVE CallInv(v)'
  <2>1. CallInv(v) /\ RequestInv(txn[v])
    BY DEF ClientInv
  <2>2. Presents(txn[v]) => txn[v].presented \in delivered
    BY <2>1 DEF RequestInv, RequestOrigin
  <2>3. CASE v = w
    BY <1>1, <1>3, <1>4, <1>5, <1>6, <2>1, <2>2, <2>3 DEF CallInv, Presents,
       SignsOutAll,
       OwnerInDoubt
  <2>4. CASE v # w
    <3>1. PICK p : p = txn[v].presented
      OBVIOUS
    <3>2. ASSUME Presents(txn[v]), ~OwnerInDoubt(p),
                 txn[v].pc \in {"lookup", "marking"}
          PROVE  ~IsUsed(p)'
      <4>1. /\ p \in Stored /\ ~IsUsed(p)
            /\ awaiting[v] \in Device /\ session[awaiting[v]] # None
            /\ session[awaiting[v]].token = p
        BY <1>3, <2>1, <2>2, <3>1, <3>2 DEF CallInv
      <4>2. SUFFICES ASSUME IsUsed(p)' PROVE FALSE
        OBVIOUS
      <4>3. /\ awaiting[w] \in Device /\ session[awaiting[w]] # None
            /\ session[awaiting[w]].token = p
        BY <3>2, <4>1, <4>2, ConsumedByItsHolder
      <4>4. awaiting[w] = awaiting[v]
        BY <4>1, <4>3 DEF ClientInv, HeldInv
      <4>5. OwnerInDoubt(p)
        BY <2>4, <3>1, <3>2, <4>1, <4>4, DeviceAssumption DEF ClientInv,
           CallsDistinct, CallerInDoubt, Presents, SignsOutAll
      <4>6. QED
        BY <3>2, <4>5
    <3>3. txn'[v] = txn[v]
      BY <1>3, <2>4
    <3>4. Presents(txn[v]) => (OwnerInDoubt(p)' <=> OwnerInDoubt(p))
      BY <1>3, <1>5, <1>6, <2>2, <3>1 DEF OwnerInDoubt
    <3>5. Presents(txn[v]) /\ ~OwnerInDoubt(p)' =>
            /\ awaiting[v] # None /\ session[awaiting[v]] # None
            /\ session[awaiting[v]].token = p /\ txn[v].cached # "used"
            /\ txn[v].pc \in {"lookup", "marking"} => ~IsUsed(p)'
      BY <2>1, <3>1, <3>2, <3>4 DEF CallInv
    <3>6. QED
      BY <1>5, <2>1, <3>1, <3>3, <3>5 DEF CallInv, Presents, SignsOutAll,
         OwnerInDoubt, IsUsed, Stored
  <2>5. QED
    BY <2>3, <2>4
<1>11. CallsDistinct'
  BY <1>1, <1>3, <1>4, <1>5, <1>6 DEF ClientInv, CallsDistinct, CallerInDoubt,
     Presents, SignsOutAll,
     OwnerInDoubt, RequestInv, RequestOrigin
<1>12. HeldInv'
  BY <1>3, <1>5, <1>6 DEF ClientInv, HeldInv
<1>13. QuietSessions'
  <2>1. SUFFICES ASSUME NEW d \in Device, session[d] # None,
                        session[d].user \notin doubted, ~InFlight(d),
                        IsUsed(session[d].token)'
                 PROVE  FALSE
    BY <1>5 DEF QuietSessions, InFlight, IsUsed, Stored
  <2>2. PICK t : t = session[d].token
    OBVIOUS
  <2>3. t \in Stored /\ ~OwnerInDoubt(t) /\ ~IsUsed(t) /\ IsUsed(t)'
    BY <1>3, <1>5, <2>1, <2>2 DEF ClientInv, HeldInv, QuietSessions,
       OwnerInDoubt, IsUsed, Stored
  <2>4. /\ awaiting[w] \in Device /\ session[awaiting[w]] # None
        /\ session[awaiting[w]].token = t
    BY <2>3, ConsumedByItsHolder
  <2>5. awaiting[w] = d
    BY <2>1, <2>2, <2>4 DEF ClientInv, HeldInv
  <2>6. QED
    BY <2>1, <2>5 DEF InFlight
<1>14. QED
  BY <1>5, <1>9, <1>10, <1>11, <1>12, <1>13 DEF ClientInv
-----------------------------------------------------------------------------
\* A call begins: y is the request, and more users may be in doubt.
LEMMA CallStep ==
  ASSUME ClientInv, Inv', NEW w \in Worker, NEW d \in Device, NEW y, Call(w, d, y),
         doubted \subseteq doubted', doubted' \subseteq User,
         RequestInv(y)', y.pc # "idle", y.child = None,
         y.op = "sign_in" => session[d] = None,
         y.op \in {"sign_in", "refresh", "logout", "logout_all"},
         y.op = "sign_in" => ~InFlight(d),
         Presents(y) =>
           /\ session[d] # None
           /\ session[d].token = y.presented
           /\ y.presented \in delivered
           /\ session[d].user = refresh_tokens[y.presented].user_id
           /\ InFlight(d) => session[d].user \in doubted'
           /\ session[d].user \notin doubted' =>
                y.cached # "used" /\ ~IsUsed(y.presented),
         SignsOutAll(y) =>
           /\ session[d] # None
           /\ session[d].user = y.user
           /\ InFlight(d) => y.user \in doubted'
           /\ y.user \notin doubted' => y.targets \subseteq {session[d].token}
  PROVE  ClientInv'
<1>1. /\ txn[w].pc = "idle" /\ txn'[w] = y
      /\ \A v \in Worker \ {w} : txn'[v] = txn[v]
      /\ UNCHANGED <<refresh_tokens, delivered, session>>
  BY DEF Call, Begin, ClientInv, Inv
<1>2. /\ awaiting[w] = None /\ awaiting'[w] = d
      /\ \A v \in Worker \ {w} : awaiting'[v] = awaiting[v]
      /\ awaiting' \in [Worker -> Device \cup {None}]
  BY <1>1, DeviceAssumption DEF Call, ClientInv, CallInv
<1>3. TableGrows
  BY <1>1 DEF TableGrows, Stored
<1>4. ASSUME NEW v \in Worker PROVE RequestInv(txn[v])'
  <2>1. CASE v = w
    BY <1>1, <2>1 DEF RequestInv, RequestOrigin, RequestConsumes,
       RequestAnswer, Presents, SignsOutAll, OwnerInDoubt, IsUsed, Stored
  <2>2. CASE v # w
    <3>1. txn'[v] = txn[v] /\ (IsUsed(txn[v].child)' => IsUsed(txn[v].child))
      BY <1>1, <2>2 DEF IsUsed, Stored
    <3>2. txn[v].child # None => txn[v].child \notin delivered'
      BY <1>1 DEF ClientInv, RequestInv, RequestAnswer
    <3>3. QED
      BY <1>3, <3>1, <3>2, RequestStays
  <2>3. QED
    BY <2>1, <2>2
\* Another call of the same device is for the same user.
<1>5. ASSUME NEW v \in Worker \ {w}, awaiting[v] = d
      PROVE  CallerInDoubt(txn[v])' /\ CallerInDoubt(y)'
  <2>1. InFlight(d)
    BY <1>5 DEF InFlight
  <2>2. /\ Presents(y) \/ SignsOutAll(y)
        /\ session[d] # None /\ session[d].user \in doubted'
    BY <2>1 DEF Presents, SignsOutAll
  <2>3. CallInv(v) /\ RequestOrigin(txn[v]) /\ txn[v] \in Txn
    BY DEF ClientInv, Inv, RequestInv
  <2>4. txn[v].pc # "idle" /\ txn[v].op # "sign_in"
    BY <1>5, <2>2, <2>3, DeviceAssumption DEF CallInv
  <2>5. Presents(txn[v]) \/ SignsOutAll(txn[v])
    BY <2>3, <2>4 DEF RequestOrigin, Txn, Op, Idle, Presents, SignsOutAll
  <2>6. txn'[v] = txn[v]
    BY <1>1
  <2>7. CallerInDoubt(txn[v])'
    <3>1. CASE CallerInDoubt(txn[v])
      BY <1>1, <2>6, <3>1 DEF CallerInDoubt, Presents, SignsOutAll, OwnerInDoubt
    <3>2. CASE Presents(txn[v]) /\ ~OwnerInDoubt(txn[v].presented)
      <4>1. session[d].token = txn[v].presented
        BY <1>5, <2>3, <3>2 DEF CallInv
      <4>2. refresh_tokens[session[d].token].user_id = session[d].user
        BY <2>2 DEF ClientInv, HeldInv
      <4>3. QED
        BY <1>1, <2>2, <2>6, <3>2, <4>1, <4>2 DEF CallerInDoubt, Presents,
           OwnerInDoubt
    <3>3. CASE SignsOutAll(txn[v]) /\ txn[v].user \notin doubted
      <4>1. session[d].user = txn[v].user
        BY <1>5, <2>3, <3>3 DEF CallInv
      <4>2. QED
        BY <2>2, <2>6, <3>3, <4>1 DEF CallerInDoubt, SignsOutAll
    <3>4. QED
      BY <2>5, <3>1, <3>2, <3>3 DEF CallerInDoubt
  <2>8. CallerInDoubt(y)'
    BY <1>1, <2>1, <2>2 DEF CallerInDoubt, Presents, SignsOutAll, OwnerInDoubt
  <2>9. QED
    BY <2>7, <2>8
<1>6. ASSUME NEW v \in Worker PROVE CallInv(v)'
  <2>1. CASE v = w
    BY <1>1, <1>2, <2>1, DeviceAssumption DEF CallInv, Presents, SignsOutAll,
       OwnerInDoubt,
       IsUsed, Stored
  <2>2. CASE v # w
    BY <1>1, <1>2, <2>2 DEF ClientInv, CallInv, Presents, SignsOutAll,
       OwnerInDoubt, IsUsed,
       Stored
  <2>3. QED
    BY <2>1, <2>2
<1>7. CallsDistinct'
  <2>1. SUFFICES ASSUME NEW u \in Worker, NEW v \in Worker, u # v,
                        awaiting'[u] # None, awaiting'[u] = awaiting'[v]
                 PROVE  CallerInDoubt(txn[v])'
    BY DEF CallsDistinct
  <2>2. CASE u = w \/ v = w
    BY <1>1, <1>2, <1>5, <2>1, <2>2 DEF CallerInDoubt, Presents, SignsOutAll,
       OwnerInDoubt
  <2>3. CASE u # w /\ v # w
    BY <1>1, <1>2, <2>1, <2>3 DEF ClientInv, CallsDistinct, CallerInDoubt,
       Presents, SignsOutAll, OwnerInDoubt
  <2>4. QED
    BY <2>2, <2>3
<1>8. \A e \in Device : InFlight(e) => InFlight(e)'
  BY <1>2, DeviceAssumption DEF InFlight
<1>9. HeldInv' /\ QuietSessions'
  BY <1>1, <1>8 DEF ClientInv, HeldInv, QuietSessions, IsUsed, Stored
<1>10. QED
  BY <1>1, <1>2, <1>4, <1>6, <1>7, <1>9 DEF ClientInv

LEMMA CallsStep ==
  ASSUME ClientInv, Inv', NEW w \in Worker, NEW d \in Device, Calls(w, d)
  PROVE  ClientInv'
<1>1. CASE SignIn(w, d)
  <2>1. PICK u \in User, c \in Client :
          Call(w, d, [Idle EXCEPT !.pc = "issuing", !.op = "sign_in",
                                  !.user = u, !.client = c])
    BY <1>1 DEF SignIn
  <2> DEFINE y == [Idle EXCEPT !.pc = "issuing", !.op = "sign_in",
                               !.user = u, !.client = c]
  <2>2. /\ y.pc = "issuing" /\ y.op = "sign_in" /\ y.child = None
        /\ y.marks = {} /\ y.targets = {} /\ y.verdict = "none"
    BY DEF Idle
  <2>3. Call(w, d, y)
    BY <2>1
  <2> HIDE DEF y
  <2>4. RequestInv(y)'
    BY <2>2 DEF RequestInv, RequestOrigin, RequestConsumes, RequestAnswer,
       Presents, SignsOutAll
  <2>5. doubted \subseteq doubted' /\ doubted' \subseteq User
    BY <1>1 DEF SignIn, ClientInv
  <2>6. session[d] = None /\ ~InFlight(d)
    BY <1>1 DEF SignIn
  <2>7. QED
    BY <2>2, <2>3, <2>4, <2>5, <2>6, CallStep DEF Presents, SignsOutAll
<1>2. ASSUME NEW op \in {"refresh", "logout"}, Present(w, d, op)
      PROVE  ClientInv'
  <2>1. PICK s : s = session[d]
    OBVIOUS
  <2>0. PICK y : y = [Idle EXCEPT !.pc = "lookup", !.op = op,
                        !.client = s.client, !.presented = s.token,
                        !.cached = CachedAtAuth(s.token, s.client),
                        !.replay = IsUsed(s.token)]
    OBVIOUS
  <2>2. /\ s # None /\ Call(w, d, y)
        /\ doubted' = doubted \cup {u \in {s.user} : InFlight(d)}
    BY <1>2, <2>0, <2>1 DEF Present
  <2>3. /\ s \in Session /\ s.token \in delivered
        /\ refresh_tokens[s.token].user_id = s.user
        /\ refresh_tokens[s.token].app_client_id = s.client
        /\ delivered \subseteq Stored
    BY <2>1, <2>2 DEF ClientInv, HeldInv, Inv, TableInv
  <2>4. /\ y.pc = "lookup" /\ y.op = op /\ y.child = None
        /\ y.marks = {} /\ y.targets = {} /\ y.verdict = "none"
        /\ y.presented = s.token /\ y.client = s.client
        /\ y.cached = CachedAtAuth(s.token, s.client)
    BY <2>0 DEF Idle
  <2>5. UNCHANGED <<refresh_tokens, delivered>>
    BY <2>2 DEF Call, Begin
  <2>6. RequestInv(y)'
    BY <2>3, <2>4, <2>5 DEF RequestInv, RequestOrigin, RequestConsumes,
       RequestAnswer, Presents, SignsOutAll
  <2>7. doubted \subseteq doubted' /\ doubted' \subseteq User
    BY <2>2, <2>3 DEF ClientInv, Session
  <2>8. s.user \notin doubted' =>
          y.cached # "used" /\ ~IsUsed(y.presented) /\ ~InFlight(d)
    <3>1. s.user \notin doubted' => ~InFlight(d) /\ s.user \notin doubted
      BY <2>2
    <3>2. s.user \notin doubted' => ~IsUsed(s.token)
      BY <2>1, <2>2, <3>1 DEF ClientInv, QuietSessions
    <3>3. QED
      BY <2>4, <3>1, <3>2 DEF CachedAtAuth, IsUsed
  <2>9. QED
    BY <1>2, <2>1, <2>2, <2>3, <2>4, <2>6, <2>7, <2>8, CallStep DEF Presents,
       SignsOutAll
<1>3. CASE SignOutEverywhere(w, d)
  <2>1. PICK s : s = session[d]
    OBVIOUS
  <2>2. PICK y : y = [Idle EXCEPT !.pc = "revoking", !.op = "logout_all",
                        !.user = s.user, !.client = s.client,
                        !.targets = ActiveOf(s.user), !.verdict = "ok"]
    OBVIOUS
  <2>3. /\ s # None /\ Call(w, d, y)
        /\ doubted' = doubted \cup
             {u \in {s.user} : InFlight(d) \/ ActiveOf(u) \ {s.token} # {}}
    BY <1>3, <2>1, <2>2 DEF SignOutEverywhere
  <2>4. s \in Session
    BY <2>1, <2>3 DEF ClientInv, HeldInv
  <2>5. /\ y.pc = "revoking" /\ y.op = "logout_all" /\ y.child = None
        /\ y.marks = {} /\ y.targets = ActiveOf(s.user) /\ y.verdict = "ok"
        /\ y.user = s.user
    BY <2>2 DEF Idle
  <2>6. refresh_tokens' = refresh_tokens
    BY <2>3 DEF Call, Begin
  <2>7. \A t \in y.targets : refresh_tokens'[t].user_id = y.user
    BY <2>5, <2>6 DEF ActiveOf
  <2>8. RequestInv(y)'
    BY <2>5, <2>7 DEF RequestInv, RequestOrigin, RequestConsumes, RequestAnswer,
       Presents, SignsOutAll
  <2>9. doubted \subseteq doubted' /\ doubted' \subseteq User
    BY <2>3, <2>4 DEF ClientInv, Session
  <2>10. /\ InFlight(d) => s.user \in doubted'
         /\ s.user \notin doubted' => ActiveOf(s.user) \subseteq {s.token}
    BY <2>3
  <2>11. QED
    BY <2>1, <2>3, <2>5, <2>8, <2>9, <2>10, CallStep DEF Presents, SignsOutAll
<1>4. QED
  BY <1>1, <1>2, <1>3 DEF Calls
-----------------------------------------------------------------------------
LEMMA CallFailsStep ==
  ASSUME ClientInv, Inv', NEW w \in Worker,
         AnswerLost(w) \/ WorkerDies(w) \/ TimesOut(w)
  PROVE  ClientInv'
<1> DEFINE d == awaiting[w]
<1>1. /\ txn'[w] \in {Idle, txn[w]}
      /\ \A v \in Worker \ {w} : txn'[v] = txn[v]
      /\ UNCHANGED <<refresh_tokens, delivered, session>>
      /\ txn'[w] = txn[w] => d # None
  <2>1. CASE TimesOut(w)
    BY <2>1 DEF TimesOut, CallFails, vars
  <2>2. CASE AnswerLost(w) \/ WorkerDies(w)
    BY <2>2 DEF AnswerLost, WorkerDies, LoseResponse, Crash, CallFails,
       ClientInv, Inv, Idle
  <2>3. QED
    BY <2>1, <2>2
<1>2. /\ awaiting'[w] = None
      /\ \A v \in Worker \ {w} : awaiting'[v] = awaiting[v]
      /\ awaiting' \in [Worker -> Device \cup {None}]
      /\ doubted' = IF d = None THEN doubted ELSE doubted \cup UserOf(d)
  BY DEF AnswerLost, WorkerDies, TimesOut, CallFails, ClientInv
<1>3. d # None => d \in Device
  BY DEF ClientInv
<1>4. d # None /\ session[d] # None => session[d].user \in doubted'
  BY <1>2 DEF UserOf
<1>5. doubted \subseteq doubted' /\ doubted' \subseteq User
  BY <1>2, <1>3 DEF UserOf, ClientInv, HeldInv, Session
<1>6. TableGrows
  BY <1>1, <1>5 DEF TableGrows, Stored
<1>7. ASSUME NEW v \in Worker PROVE RequestInv(txn[v])'
  <2>1. CASE txn'[v] = txn[v]
    <3>1. IsUsed(txn[v].child)' => IsUsed(txn[v].child)
      BY <1>1, <2>1 DEF IsUsed, Stored
    <3>2. txn[v].child # None => txn[v].child \notin delivered'
      BY <1>1 DEF ClientInv, RequestInv, RequestAnswer
    <3>3. QED
      BY <1>6, <2>1, <3>1, <3>2, RequestStays
  <2>2. CASE txn'[v] = Idle
    BY <2>2 DEF Idle, RequestInv, RequestOrigin, RequestConsumes,
       RequestAnswer, Presents, SignsOutAll
  <2>3. QED
    BY <1>1, <2>1, <2>2
<1> HIDE DEF d
<1>8. ASSUME NEW v \in Worker PROVE CallInv(v)'
  <2>1. CallInv(v)
    BY DEF ClientInv
  <2>2. CASE v # w
    BY <1>1, <1>2, <1>5, <2>1, <2>2 DEF CallInv, Presents, SignsOutAll,
       OwnerInDoubt,
       IsUsed, Stored
  <2>3. CASE v = w /\ txn'[w] = Idle
    BY <1>2, <2>3 DEF Idle, CallInv, Presents, SignsOutAll
  <2>4. CASE v = w /\ txn'[w] = txn[w]
    <3>0. SignsOutAll(txn[w]) => txn[w].user \in doubted'
      <4>1. CASE SignsOutAll(txn[w]) /\ txn[w].user \notin doubted
        <5>1. d # None /\ session[d] # None /\ session[d].user = txn[w].user
          BY <2>1, <2>4, <4>1 DEF CallInv, d
        <5>2. QED
          BY <1>4, <5>1
      <4>2. QED
        BY <1>5, <4>1
    <3>1. Presents(txn[w]) => OwnerInDoubt(txn[w].presented)'
      <4>1. d # None
        BY <1>1, <2>4
      <4>2. CASE OwnerInDoubt(txn[w].presented)
        BY <1>1, <1>5, <2>4, <4>2 DEF OwnerInDoubt
      <4>3. CASE Presents(txn[w]) /\ ~OwnerInDoubt(txn[w].presented)
        <5>1. session[d] # None /\ session[d].token = txn[w].presented
          BY <2>1, <2>4, <4>3 DEF CallInv, d
        <5>2. session[d].user = refresh_tokens[txn[w].presented].user_id
          BY <1>3, <4>1, <5>1 DEF ClientInv, HeldInv
        <5>3. QED
          BY <1>1, <1>4, <2>4, <4>1, <5>1, <5>2 DEF OwnerInDoubt
      <4>4. QED
        BY <4>2, <4>3
    <3>2. QED
      BY <1>2, <2>4, <3>0, <3>1 DEF CallInv, Presents, SignsOutAll, OwnerInDoubt
  <2>5. QED
    BY <1>1, <2>2, <2>3, <2>4
<1>9. CallsDistinct'
  BY <1>1, <1>2, <1>5 DEF ClientInv, CallsDistinct, CallerInDoubt, Presents,
     SignsOutAll, OwnerInDoubt
<1>10. ASSUME NEW e \in Device, session[e] # None,
              session[e].user \notin doubted', ~InFlight(e)'
       PROVE  ~InFlight(e)
  BY <1>2, <1>4, <1>10, DeviceAssumption DEF InFlight, d
<1>11. QuietSessions'
  BY <1>1, <1>5, <1>10 DEF ClientInv, QuietSessions, IsUsed, Stored
<1>12. HeldInv'
  BY <1>1 DEF ClientInv, HeldInv
<1>13. QED
  BY <1>1, <1>2, <1>5, <1>7, <1>8, <1>9, <1>11, <1>12 DEF ClientInv

LEMMA AnsweredStep ==
  ASSUME ClientInv, Inv', NEW w \in Worker, Answered(w)
  PROVE  ClientInv'
<1>1. PICK x, d : x = txn[w] /\ d = awaiting[w]
  OBVIOUS
<1>2. /\ d \in Device /\ x.pc = "replying" /\ RequestAnswer(x)
      /\ x \in Txn /\ delivered \subseteq Stored /\ ChildFresh(x)
      /\ txn'[w] = Idle /\ \A v \in Worker \ {w} : txn'[v] = txn[v]
      /\ refresh_tokens' = refresh_tokens
      /\ delivered' = delivered \cup ({x.child} \ {None})
  BY <1>1 DEF Answered, Deliver, ClientInv, Inv, TableInv, SessionInv,
     RequestInv
<1>3. /\ awaiting'[w] = None
      /\ \A v \in Worker \ {w} : awaiting'[v] = awaiting[v]
      /\ awaiting' \in [Worker -> Device \cup {None}]
  BY DEF Answered, ClientInv
<1>4. /\ \A e \in Device \ {d} : session'[e] = session[e]
      /\ session'[d] = SessionAfter(w, d)
      /\ doubted' = doubted \cup {u \in UserOf(d) : x.verdict = "error"}
      /\ session' \in [Device -> Session \cup {None}]
  <2>1. SessionAfter(w, d) \in Session \cup {None}
    BY <1>1, <1>2 DEF SessionAfter, StoresPair, Session, RequestAnswer, Txn,
       ClientInv
  <2>2. session' = [session EXCEPT ![d] = SessionAfter(w, d)]
    BY <1>1 DEF Answered
  <2>3. QED
    BY <1>1, <1>2, <2>1, <2>2 DEF Answered, ClientInv
<1>5. doubted \subseteq doubted' /\ doubted' \subseteq User
  BY <1>2, <1>4 DEF UserOf, ClientInv, HeldInv, Session
<1>6. TableGrows
  BY <1>2, <1>5 DEF TableGrows, Stored
<1>7. ASSUME NEW v \in Worker PROVE RequestInv(txn[v])'
  <2>1. CASE v = w
    BY <1>2, <2>1 DEF Idle, RequestInv, RequestOrigin, RequestConsumes,
       RequestAnswer, Presents, SignsOutAll
  <2>2. CASE v # w
    <3>1. txn'[v] = txn[v] /\ (IsUsed(txn[v].child)' => IsUsed(txn[v].child))
      BY <1>2, <2>2 DEF IsUsed, Stored
    <3>2. txn[v].child # None => txn[v].child \notin delivered'
      BY <1>1, <1>2, <2>2 DEF ClientInv, Inv, ChildrenDistinct, RequestInv,
         RequestAnswer
    <3>3. QED
      BY <1>6, <3>1, <3>2, RequestStays
  <2>3. QED
    BY <2>1, <2>2
\* Any other call of d is for a user in doubt.
<1>8. ASSUME NEW v \in Worker PROVE CallInv(v)'
  <2>1. CallInv(v)
    BY DEF ClientInv
  <2>2. CASE v = w
    BY <1>2, <1>3, <2>2 DEF Idle, CallInv, Presents, SignsOutAll
  <2>3. CASE v # w /\ awaiting[v] = d
    <3>1. CallerInDoubt(txn[v])
      BY <1>1, <1>2, <2>3, DeviceAssumption DEF ClientInv, CallsDistinct
    <3>2. QED
      BY <1>2, <1>3, <1>5, <2>1, <2>3, <3>1 DEF CallInv, CallerInDoubt,
         Presents,
         SignsOutAll, OwnerInDoubt
  <2>4. CASE v # w /\ awaiting[v] # d
    <3>1. awaiting[v] # None => session'[awaiting[v]] = session[awaiting[v]]
      BY <1>4, <2>1, <2>4 DEF CallInv
    <3>2. txn'[v] = txn[v] /\ awaiting'[v] = awaiting[v]
      BY <1>2, <1>3, <2>4
    <3>3. QED
      BY <1>2, <1>5, <2>1, <3>1, <3>2 DEF CallInv, Presents, SignsOutAll,
         OwnerInDoubt,
         IsUsed, Stored
  <2>5. QED
    BY <2>2, <2>3, <2>4
<1>9. CallsDistinct'
  BY <1>2, <1>3, <1>5 DEF ClientInv, CallsDistinct, CallerInDoubt, Presents,
     SignsOutAll, OwnerInDoubt
\* What d holds afterwards.
<1>10. session'[d] # None =>
         \/ /\ x.child # None /\ x.user \in User /\ x.client \in Client
            /\ session'[d] = [client |-> x.client, user |-> x.user,
                              token |-> x.child]
         \/ /\ session'[d] = session[d]
            /\ x.verdict \notin {"reused", "expired"}
            /\ ~(x.op \in {"logout", "logout_all"} /\ x.verdict = "ok")
            /\ x.child = None
  BY <1>1, <1>2, <1>4 DEF SessionAfter, StoresPair, ClearsSession, RequestAnswer
<1>11. HeldInv'
  <2>1. ASSUME NEW e \in Device, session'[e] # None
        PROVE  /\ session'[e] \in Session
               /\ session'[e].token \in delivered'
               /\ refresh_tokens[session'[e].token].user_id = session'[e].user
               /\ refresh_tokens[session'[e].token].app_client_id
                    = session'[e].client
    BY <1>2, <1>4, <1>10, <2>1 DEF ClientInv, HeldInv, RequestAnswer
  <2>2. ASSUME NEW e \in Device \ {d}, session'[e] # None, session'[d] # None
        PROVE  session'[e].token # session'[d].token
    BY <1>2, <1>4, <1>10, <2>2 DEF ClientInv, HeldInv, RequestAnswer
  <2>3. ASSUME NEW e \in Device, NEW f \in Device, e # f, session'[e] # None,
               session'[f] # None
        PROVE  session'[e].token # session'[f].token
    <3>1. CASE e = d \/ f = d
      BY <2>2, <2>3, <3>1
    <3>2. CASE e # d /\ f # d
      BY <1>4, <2>3, <3>2 DEF ClientInv, HeldInv
    <3>3. QED
      BY <3>1, <3>2
  <2>4. QED
    BY <1>2, <2>1, <2>3 DEF HeldInv
<1>12. QuietSessions'
  <2>1. ASSUME NEW e \in Device, session'[e] # None,
               session'[e].user \notin doubted', ~InFlight(e)'
        PROVE  ~IsUsed(session'[e].token)
    <3>1. CASE e # d
      <4>1. ~InFlight(e)
        BY <1>1, <1>3, <2>1, <3>1 DEF InFlight
      <4>2. QED
        BY <1>4, <1>5, <2>1, <3>1, <4>1 DEF ClientInv, QuietSessions
    <3>2. CASE e = d /\ x.child # None
      BY <1>2, <1>5, <1>10, <2>1, <3>2 DEF RequestAnswer
    <3>3. CASE e = d /\ x.child = None
      <4>1. session'[d] = session[d] /\ session[d] # None
        BY <1>10, <2>1, <3>3
      <4>2. x.verdict = "error"
        BY <1>2, <1>10, <2>1, <3>3 DEF RequestAnswer, Txn, Verdict
      <4>3. session[d].user \in doubted'
        BY <1>4, <4>1, <4>2 DEF UserOf
      <4>4. QED
        BY <2>1, <3>3, <4>1, <4>3
    <3>4. QED
      BY <3>1, <3>2, <3>3
  <2>2. QED
    BY <1>2, <2>1 DEF QuietSessions, IsUsed, Stored
<1>13. QED
  BY <1>3, <1>4, <1>5, <1>7, <1>8, <1>9, <1>11, <1>12 DEF ClientInv
-----------------------------------------------------------------------------
LEMMA ClientInitially == ClientInit => ClientInv
<1> SUFFICES ASSUME ClientInit PROVE ClientInv
  OBVIOUS
<1>1. Inv
  BY Initially DEF ClientInit
<1>2. RequestInv(Idle)
  BY DEF Idle, RequestInv, RequestOrigin, RequestConsumes, RequestAnswer,
     Presents, SignsOutAll
<1>3. \A w \in Worker : txn[w] = Idle /\ CallInv(w)
  BY DEF ClientInit, Init, Idle, CallInv, Presents, SignsOutAll
<1> HIDE DEF Idle
<1>4. QED
  BY <1>1, <1>2, <1>3 DEF ClientInit, ClientInv, HeldInv, CallsDistinct,
     QuietSessions

\* Nothing ClientInv is about changes when only the clock does.
LEMMA ClientStutters ==
  ASSUME ClientInv, Inv', UNCHANGED <<refresh_tokens, txn, delivered, client_vars>>
  PROVE  ClientInv'
<1>1. TableGrows
  BY DEF TableGrows, Stored, client_vars
<1>2. ASSUME NEW v \in Worker PROVE RequestInv(txn[v])'
  <2>1. txn'[v] = txn[v] /\ (IsUsed(txn[v].child)' => IsUsed(txn[v].child))
    BY DEF IsUsed, Stored
  <2>2. txn[v].child # None => txn[v].child \notin delivered'
    BY DEF ClientInv, RequestInv, RequestAnswer
  <2>3. QED
    BY <1>1, <2>1, <2>2, RequestStays
<1>3. QED
  BY <1>2 DEF ClientInv, HeldInv, CallInv, CallsDistinct, CallerInDoubt,
     QuietSessions,
     InFlight, Presents, SignsOutAll, OwnerInDoubt, IsUsed, Stored, client_vars

LEMMA ClientInductive == ClientInv /\ [ClientNext]_all_vars => ClientInv'
<1> SUFFICES ASSUME ClientInv, [ClientNext]_all_vars PROVE ClientInv'
  OBVIOUS
<1>1. Inv'
  BY ServerStep, Inductive DEF ClientInv
<1>2. CASE UNCHANGED all_vars \/ Passes
  BY <1>1, <1>2, ClientStutters DEF all_vars, vars, Passes, Tick
<1>3. ASSUME NEW w \in Worker, NEW d \in Device, Calls(w, d)
      PROVE  ClientInv'
  BY <1>1, <1>3, CallsStep
<1>4. ASSUME NEW w \in Worker, Works(w)
      PROVE  ClientInv'
  BY <1>1, <1>4, WorksLocally, ClientCommitStep DEF Works
<1>5. ASSUME NEW w \in Worker,
             Answered(w) \/ AnswerLost(w) \/ WorkerDies(w) \/ TimesOut(w)
      PROVE  ClientInv'
  BY <1>1, <1>5, AnsweredStep, CallFailsStep
<1>6. QED
  BY <1>2, <1>3, <1>4, <1>5 DEF ClientNext

\* Every reachable state of the apps and the server satisfies ClientInv.
THEOREM ClientInvariance == ClientSpec => []ClientInv
  BY ClientInitially, ClientInductive, PTL DEF ClientSpec

\* The server under the apps is RefreshTokens: apps only send requests that
\* module allows, so whatever is proved of it holds for them.
THEOREM ImplementsServer == ClientSpec => ServerSpec
<1>1. ClientInit => Init
  BY DEF ClientInit
<1>2. ClientInv /\ [ClientNext]_all_vars => [Next]_vars
  BY ServerStep
<1>3. QED
  BY <1>1, <1>2, ClientInvariance, PTL DEF ClientSpec, ServerSpec, Spec

\* What the apps store stays well formed, and is what they were given.
THEOREM ClientTypeCorrect == ClientSpec => []ClientTypeOK
<1>1. ClientInv => ClientTypeOK
  BY DEF ClientInv, ClientTypeOK, HeldInv, CallInv
<1>2. QED
  BY <1>1, ClientInvariance, PTL

\* rotate_refresh_token never answers REFRESH_TOKEN_INVALID or
\* INVALID_CLIENT to an app that stores every pair it is given.
THEOREM DocumentedOnly == ClientSpec => []OnlyDocumentedAnswers
<1>1. ClientInv => OnlyDocumentedAnswers
  BY DEF ClientInv, OnlyDocumentedAnswers, RequestInv, RequestAnswer
<1>2. QED
  BY <1>1, ClientInvariance, PTL

\* The reuse alarm of rotate_refresh_token is never raised for a user whose
\* apps always knew what became of their tokens.
THEOREM AlarmNeverFalse == ClientSpec => []NoFalseAlarm
<1>1. ClientInv => NoFalseAlarm
  BY DEF ClientInv, NoFalseAlarm, RequestInv, RequestAnswer
<1>2. QED
  BY <1>1, ClientInvariance, PTL
=============================================================================
