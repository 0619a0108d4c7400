------------------------- MODULE RefreshTokensProofs -------------------------
(***************************************************************************)
(* Type correctness and the safety properties of RefreshTokens, for every  *)
(* number of users, clients, tokens and workers.                           *)
(*                                                                         *)
(* The properties are not inductive by themselves: what COMMIT writes was  *)
(* fixed by earlier steps of the request, while other requests committed.  *)
(* The conjuncts of Inv below say what a request in flight may rely on.    *)
(* Where a single worker serves the requests, they are atomic: that is the *)
(* refinement of SessionLedger.  With several, a token is rotated as often *)
(* as there are workers at most: the count at the end.                     *)
(***************************************************************************)
EXTENDS RefreshLedger, FiniteSetTheorems, TLAPS

(***************************************************************************)
(* The inductive invariant.  x is the session of some worker.              *)
(***************************************************************************)

\* The row a request inserted is new until its COMMIT.
ChildFresh(x) ==
  x.child # None =>
    /\ x.pc \in {"closing", "replying"}
    /\ x.pc = "closing" => x.child \notin Stored
    /\ x.pc = "replying" => x.child \in Stored

\* A presented token is stored, unless it was never issued.
PresentedStored(x) ==
  /\ x.presented \in Stored \cup {None}
  /\ x.verdict = "invalid" => x.presented = None

\* What a request reads of a row stays true: used_at is only ever set.
ReadsStay(x) ==
  /\ x.cached = "used" => IsUsed(x.presented)
  /\ x.replay => IsUsed(x.presented) /\ x.cached # "unused"

\* A request that inserts a row has the user and the client for it, and one
\* that rotates has them from the token it is marking.
Inserting(x) == x.pc = "issuing" \/ (x.pc = "closing" /\ x.child # None)
Rotating(x) == x.op = "refresh" /\ (x.pc = "marking" \/ Inserting(x))
RotationBound(x) ==
  /\ x.op = "sign_in" => x.presented = None
  /\ Inserting(x) =>
       x.op \in {"sign_in", "refresh"} /\ x.user \in User /\ x.client \in Client
  /\ Rotating(x) =>
       /\ x.presented \in Stored
       /\ refresh_tokens[x.presented].user_id = x.user
       /\ refresh_tokens[x.presented].app_client_id = x.client
       /\ x.pc # "marking" => x.marks = {x.presented}

\* A replayed refresh only ever walks the branch of the alarm, which fails where
\* it loses a deadlock.
ReplayCaught(x) ==
  x.op = "refresh" /\ x.replay =>
    /\ x.pc \in {"lookup", "revoking", "closing", "replying"}
    /\ x.child = None
    /\ x.pc # "lookup" => x.verdict \in {"reused", "error"}

\* Every targeted row is used by the time of the response.
TargetsUsed(x) ==
  /\ x.targets \subseteq Stored
  /\ x.pc = "lookup" => x.targets = {}
  /\ x.pc = "marking" => x.targets = {x.presented}
  /\ x.pc = "issuing" => x.targets \subseteq x.marks
  /\ x.pc = "closing" => \A t \in x.targets : t \in x.marks \/ IsUsed(t)
  /\ x.pc = "replying" => \A t \in x.targets : IsUsed(t)

\* A logout past its early returns targets the presented token; it never
\* revokes.
LogoutTargets(x) ==
  x.op = "logout" =>
    /\ x.pc # "revoking"
    /\ x.pc \in {"closing", "replying"} /\ x.presented \in Stored
         /\ OwnedByCaller(x) =>
         x.presented \in x.targets \/ IsUsed(x.presented)

SessionInv(x) ==
  /\ x \in Txn
  /\ ChildFresh(x)
  /\ PresentedStored(x)
  /\ ReadsStay(x)
  /\ RotationBound(x)
  /\ ReplayCaught(x)
  /\ TargetsUsed(x)
  /\ LogoutTargets(x)

TableInv ==
  /\ now \in Nat
  /\ Stored \subseteq Token
  /\ refresh_tokens \in [Stored -> Row]
  /\ delivered \subseteq Stored
  /\ RotationLineage

ChildrenDistinct ==
  \A v, w \in Worker :
    v # w /\ txn[v].child # None => txn[v].child # txn[w].child

Inv ==
  /\ TableInv
  /\ txn \in [Worker -> Txn]
  /\ \A w \in Worker : SessionInv(txn[w])
  /\ ChildrenDistinct

(***************************************************************************)
(* Steps that change the session of one worker and nothing else.           *)
(***************************************************************************)

\* Inv is kept by a step that leaves the table alone and takes the session of
\* one worker to a session that satisfies SessionInv.
LEMMA LocalStep ==
  ASSUME Inv, NEW w \in Worker, NEW y,
         txn' = [txn EXCEPT ![w] = y],
         SessionInv(y),
         \A v \in Worker \ {w} : y.child # None => txn[v].child # y.child,
         now' \in Nat,
         refresh_tokens' = refresh_tokens,
         delivered' \subseteq Stored
  PROVE  Inv'
<1>1. TableInv'
  BY DEF Inv, TableInv, Stored, RotationLineage, IsUsed
<1>2. /\ txn' \in [Worker -> Txn]
      /\ txn'[w] = y
      /\ \A v \in Worker \ {w} : txn'[v] = txn[v]
  BY DEF Inv, SessionInv
<1>3. ASSUME NEW v \in Worker PROVE SessionInv(txn[v])'
  <2>1. SessionInv(txn'[v])
    BY <1>2 DEF Inv
  <2>2. QED
    BY <2>1 DEF SessionInv, ChildFresh, PresentedStored, ReadsStay, Inserting,
       Rotating, RotationBound, ReplayCaught, TargetsUsed, LogoutTargets,
       OwnedByCaller, IsUsed, Stored
<1>4. ChildrenDistinct'
  BY <1>2 DEF Inv, ChildrenDistinct
<1>5. QED
  BY <1>1, <1>2, <1>3, <1>4 DEF Inv

\* The session each request starts with.
LEMMA BeginStep ==
  ASSUME Inv, NEW w \in Worker, Start(w)
  PROVE  Inv'
<1> USE DEF Begin, Idle
<1>1. CASE StartSignIn(w)
  <2>1. PICK u \in User, c \in Client :
          Begin(w, [Idle EXCEPT !.pc = "issuing", !.op = "sign_in",
                                !.user = u, !.client = c])
    BY <1>1 DEF StartSignIn
  <2> DEFINE y == [Idle EXCEPT !.pc = "issuing", !.op = "sign_in",
                               !.user = u, !.client = c]
  <2>2. SessionInv(y)
    BY DEF SessionInv, Txn, Op, Verdict, ChildFresh, PresentedStored, ReadsStay,
       Inserting, Rotating, RotationBound, ReplayCaught, TargetsUsed,
       LogoutTargets
  <2>3. y.child = None
    OBVIOUS
  <2> HIDE DEF y
  <2>4. QED
    BY <2>1, <2>2, <2>3, LocalStep DEF Inv, TableInv, y
<1>2. CASE \E op \in {"refresh", "logout"} : StartWithToken(w, op)
  <2>1. PICK op \in {"refresh", "logout"}, c \in Client, t \in delivered \cup {None} :
          Begin(w, [Idle EXCEPT !.pc = "lookup", !.op = op, !.client = c,
                                !.presented = t, !.cached = CachedAtAuth(t, c),
                                !.replay = IsUsed(t)])
    BY <1>2 DEF StartWithToken
  <2> DEFINE y == [Idle EXCEPT !.pc = "lookup", !.op = op, !.client = c,
                               !.presented = t, !.cached = CachedAtAuth(t, c),
                               !.replay = IsUsed(t)]
  <2>2. /\ t \in Stored \cup {None}
        /\ t \in Token \cup {None}
        /\ IsUsed(t) \in BOOLEAN
        /\ CachedAtAuth(t, c) \in {"absent", "unused", "used"}
        /\ CachedAtAuth(t, c) = "used" => IsUsed(t)
        /\ IsUsed(t) => CachedAtAuth(t, c) # "unused"
    BY <2>1 DEF Inv, TableInv, CachedAtAuth, IsUsed, Row
  <2>3. SessionInv(y)
    <3> HIDE DEF CachedAtAuth, IsUsed
    <3> QED
      BY <2>1, <2>2 DEF SessionInv, Txn, Op, Verdict, ChildFresh,
         PresentedStored, ReadsStay, Inserting, Rotating, RotationBound,
         ReplayCaught, TargetsUsed, LogoutTargets
  <2>4. y.child = None
    OBVIOUS
  <2> HIDE DEF y
  <2>5. QED
    BY <2>1, <2>3, <2>4, LocalStep DEF Inv, TableInv, y
<1>3. CASE StartLogoutAll(w)
  <2>1. PICK u \in {refresh_tokens[t].user_id : t \in delivered}, c \in Client :
          Begin(w, [Idle EXCEPT !.pc = "revoking", !.op = "logout_all",
                                !.user = u, !.client = c,
                                !.targets = ActiveOf(u), !.verdict = "ok"])
    BY <1>3 DEF StartLogoutAll
  <2> DEFINE y == [Idle EXCEPT !.pc = "revoking", !.op = "logout_all",
                               !.user = u, !.client = c,
                               !.targets = ActiveOf(u), !.verdict = "ok"]
  <2>2. u \in User
    BY <2>1 DEF Inv, TableInv, Row
  <2>3. ActiveOf(u) \subseteq Stored /\ ActiveOf(u) \subseteq Token
    BY DEF ActiveOf, Inv, TableInv
  <2>4. SessionInv(y)
    BY <2>1, <2>2, <2>3 DEF SessionInv, Txn, Op, Verdict, ChildFresh,
       PresentedStored, ReadsStay, Inserting, Rotating, RotationBound,
       ReplayCaught, TargetsUsed, LogoutTargets
  <2>5. y.child = None
    OBVIOUS
  <2> HIDE DEF y
  <2>6. QED
    BY <2>1, <2>4, <2>5, LocalStep DEF Inv, TableInv, y
<1>4. QED
  BY <1>1, <1>2, <1>3 DEF Start, StartRefresh, StartLogout

\* The branches of the two handlers up to their first write.
LEMMA LookUpStep ==
  ASSUME Inv, NEW w \in Worker, LookUp(w)
  PROVE  Inv'
<1> DEFINE x == txn[w]
<1>1. SessionInv(x) /\ x \in Txn /\ now \in Nat
  BY DEF Inv, TableInv, SessionInv
<1>2. x.pc = "lookup"
  BY DEF LookUp, RotateUnknown, RotateReused, RotateExpired, RotateForeign,
     RotateAccept, LogoutNothing, LogoutAccept, Looking
<1>3. x.child = None
  BY <1>1, <1>2 DEF SessionInv, ChildFresh
<1>4. ASSUME NEW verdict \in Verdict, Refuse(w, verdict),
             x.op = "refresh" => ~x.replay,
             verdict = "invalid" => x.presented = None,
             x.op = "logout" => ~LogoutApplies(x)
      PROVE  Inv'
  <2> DEFINE y == [x EXCEPT !.pc = "closing", !.verdict = verdict]
  <2>1. SessionInv(y)
    <3>1. /\ y \in Txn
          /\ y.pc = "closing"
          /\ y.verdict = verdict
          /\ y.op = x.op /\ y.client = x.client /\ y.user = x.user
          /\ y.presented = x.presented /\ y.cached = x.cached /\ y.replay = x.replay
          /\ y.targets = x.targets /\ y.marks = x.marks /\ y.child = x.child
          /\ y.expires = x.expires
      BY <1>1, <1>4 DEF Txn
    <3>2. x.op = "logout" /\ x.presented \in Stored /\ OwnedByCaller(x)
            => IsUsed(x.presented)
      BY <1>1, <1>4 DEF SessionInv, Txn, ReadsStay, LogoutApplies,
         OwnedByCaller, SeesUsed
    <3> HIDE DEF x, y
    <3>3. QED
      BY <1>1, <1>2, <1>3, <1>4, <3>1, <3>2
         DEF SessionInv, ChildFresh, PresentedStored, ReadsStay,
         Inserting, Rotating, RotationBound, ReplayCaught, TargetsUsed,
         LogoutTargets,
         OwnedByCaller
  <2>2. y.child = None
    BY <1>1, <1>3 DEF Txn
  <2> HIDE DEF y
  <2>3. QED
    BY <1>1, <1>4, <2>1, <2>2, LocalStep DEF Refuse, Advance, Inv, TableInv, y
<1>5. SeesUsed(x) \/ ~x.replay
  BY <1>1 DEF SessionInv, Txn, ReadsStay, SeesUsed
<1>6. CASE RotateUnknown(w)
  <2>1. x.presented = None /\ ~x.replay
    BY <1>1, <1>6
       DEF RotateUnknown, SessionInv, PresentedStored, ReadsStay, IsUsed
  <2>2. x.op = "refresh" /\ Refuse(w, "invalid")
    BY <1>6 DEF RotateUnknown, Looking
  <2>3. QED
    BY <1>4, <2>1, <2>2 DEF Verdict
<1>7. CASE RotateReused(w)
  <2> DEFINE u == refresh_tokens[x.presented].user_id
             y == [x EXCEPT !.pc = "revoking", !.verdict = "reused",
                            !.user = u, !.targets = ActiveOf(u)]
  <2>1. Advance(w, y) /\ x.op = "refresh" /\ x.presented \in Stored
    BY <1>7 DEF RotateReused, Looking
  <2>2. u \in User
    BY <2>1 DEF Inv, TableInv, Row
  <2>3. ActiveOf(u) \subseteq Stored /\ ActiveOf(u) \subseteq Token
    BY DEF ActiveOf, Inv, TableInv
  <2>4. SessionInv(y)
    <3> HIDE DEF u
    <3>1. /\ y \in Txn
          /\ y.pc = "revoking"
          /\ y.verdict = "reused"
          /\ y.user = u
          /\ y.targets = ActiveOf(u)
          /\ y.op = x.op /\ y.client = x.client /\ y.presented = x.presented
          /\ y.cached = x.cached /\ y.replay = x.replay /\ y.marks = x.marks
          /\ y.child = x.child /\ y.expires = x.expires
      BY <1>1, <2>2, <2>3 DEF Txn, Verdict
    <3> HIDE DEF x, y
    <3>2. QED
      BY <1>1, <1>2, <1>3, <2>1, <2>2, <2>3, <3>1
         DEF SessionInv, ChildFresh, PresentedStored, ReadsStay,
         Inserting, Rotating, RotationBound, ReplayCaught, TargetsUsed,
         LogoutTargets
  <2>5. y.child = None
    BY <1>1, <1>3 DEF Txn
  <2> HIDE DEF y
  <2>6. QED
    BY <1>1, <2>1, <2>4, <2>5, LocalStep DEF Advance, Inv, TableInv
<1>8. CASE RotateExpired(w)
  BY <1>4, <1>5, <1>8 DEF RotateExpired, Looking, Verdict
<1>9. CASE RotateForeign(w)
  BY <1>4, <1>5, <1>9 DEF RotateForeign, Looking, Verdict
<1>10. CASE RotateAccept(w)
  <2> DEFINE u == refresh_tokens[x.presented].user_id
             y == [x EXCEPT !.pc = "marking", !.targets = {x.presented},
                            !.user = u]
  <2>1. /\ Advance(w, y) /\ x.op = "refresh" /\ ~x.replay
        /\ x.presented \in Stored
        /\ refresh_tokens[x.presented].app_client_id = x.client
    BY <1>5, <1>10 DEF RotateAccept, Looking, OwnedByCaller
  <2>2. u \in User /\ x.presented \in Token
    BY <2>1 DEF Inv, TableInv, Row
  <2>3. SessionInv(y)
    <3>1. u = refresh_tokens[x.presented].user_id
      OBVIOUS
    <3> HIDE DEF u
    <3>2. /\ y \in Txn
          /\ y.pc = "marking"
          /\ y.targets = {x.presented}
          /\ y.user = u
          /\ y.op = x.op /\ y.client = x.client /\ y.presented = x.presented
          /\ y.cached = x.cached /\ y.replay = x.replay /\ y.marks = x.marks
          /\ y.child = x.child /\ y.expires = x.expires /\ y.verdict = x.verdict
      BY <1>1, <2>2 DEF Txn
    <3> HIDE DEF x, y
    <3>3. QED
      BY <1>1, <1>2, <1>3, <2>1, <2>2, <3>1, <3>2
         DEF SessionInv, ChildFresh, PresentedStored, ReadsStay,
         Inserting, Rotating, RotationBound, ReplayCaught, TargetsUsed,
         LogoutTargets
  <2>4. y.child = None
    BY <1>1, <1>3 DEF Txn
  <2> HIDE DEF y
  <2>5. QED
    BY <1>1, <2>1, <2>3, <2>4, LocalStep DEF Advance, Inv, TableInv
<1>11. CASE LogoutNothing(w)
  BY <1>4, <1>11 DEF LogoutNothing, Looking, Verdict
<1>12. CASE LogoutAccept(w)
  <2> DEFINE y == [x EXCEPT !.pc = "marking", !.verdict = "ok",
                            !.targets = {x.presented}]
  <2>1. Advance(w, y) /\ x.op = "logout" /\ x.presented \in Stored
    BY <1>12 DEF LogoutAccept, Looking, LogoutApplies
  <2>2. x.presented \in Token
    BY <2>1 DEF Inv, TableInv
  <2>3. SessionInv(y)
    <3>1. /\ y \in Txn
          /\ y.pc = "marking"
          /\ y.targets = {x.presented}
          /\ y.verdict = "ok"
          /\ y.op = x.op /\ y.client = x.client /\ y.user = x.user
          /\ y.presented = x.presented /\ y.cached = x.cached /\ y.replay = x.replay
          /\ y.marks = x.marks /\ y.child = x.child /\ y.expires = x.expires
      BY <1>1, <2>2 DEF Txn, Verdict
    <3> HIDE DEF x, y
    <3>2. QED
      BY <1>1, <1>2, <1>3, <2>1, <2>2, <3>1
         DEF SessionInv, ChildFresh, PresentedStored, ReadsStay,
         Inserting, Rotating, RotationBound, ReplayCaught, TargetsUsed,
         LogoutTargets
  <2>4. y.child = None
    BY <1>1, <1>3 DEF Txn
  <2> HIDE DEF y
  <2>5. QED
    BY <1>1, <2>1, <2>3, <2>4, LocalStep DEF Advance, Inv, TableInv
<1>13. QED
  BY <1>6, <1>7, <1>8, <1>9, <1>10, <1>11, <1>12 DEF LookUp

\* Only a mass revocation is aborted, and not by itself alone.
LEMMA OnCircle ==
  ASSUME NEW w \in Worker, Deadlocked(w)
  PROVE  txn[w].pc = "revoking" /\ \E v \in Worker : v # w
<1>1. PICK S \in SUBSET Worker :
        /\ w \in S
        /\ \E next \in [S -> S] : \A u \in S : WaitsFor(u, next[u])
  BY DEF Deadlocked
<1>2. PICK next \in [S -> S] : \A u \in S : WaitsFor(u, next[u])
  BY <1>1
<1>3. next[w] \in Worker /\ WaitsFor(w, next[w])
  BY <1>1, <1>2
<1>4. QED
  BY <1>3 DEF WaitsFor

\* The rows of a mass revocation one by one, its end, and its abortion.
LEMMA RevokeStep ==
  ASSUME Inv, NEW w \in Worker, RevokeAll(w)
  PROVE  Inv'
<1>1. PICK x : x = txn[w]
  OBVIOUS
<1>2. SessionInv(x) /\ x \in Txn /\ now \in Nat /\ x.pc = "revoking"
  BY <1>1, OnCircle DEF Inv, TableInv, SessionInv, RevokeAll, RevokeRow,
     RevokeDone, DeadlockAborts
<1>3. x.child = None
  BY <1>2 DEF SessionInv, ChildFresh
<1>4. ASSUME NEW y, SessionInv(y), y.child = None, Advance(w, y)
      PROVE  Inv'
  BY <1>2, <1>4, LocalStep DEF Advance, Inv, TableInv
<1>5. CASE RevokeRow(w)
  <2>1. PICK t \in x.targets : Advance(w, [x EXCEPT !.marks = @ \cup {t}])
    BY <1>1, <1>5 DEF RevokeRow
  <2>2. PICK m : m = x.marks \cup {t}
    OBVIOUS
  <2>3. PICK y : y = [x EXCEPT !.marks = m]
    OBVIOUS
  <2>4. Advance(w, y)
    BY <2>1, <2>2, <2>3
  <2>5. m \in SUBSET Token
    BY <1>2, <2>2 DEF Txn
  <2>6. /\ y \in Txn
        /\ y.pc = x.pc /\ y.marks = m
        /\ y.op = x.op /\ y.client = x.client /\ y.user = x.user
        /\ y.presented = x.presented /\ y.cached = x.cached /\ y.replay = x.replay
        /\ y.targets = x.targets /\ y.child = x.child /\ y.expires = x.expires
        /\ y.verdict = x.verdict
    BY <1>2, <2>3, <2>5 DEF Txn
  <2>7. SessionInv(y)
    BY <1>2, <1>3, <2>6 DEF SessionInv, ChildFresh, PresentedStored, ReadsStay,
       Inserting, Rotating, RotationBound, ReplayCaught, TargetsUsed,
       LogoutTargets
  <2>8. QED
    BY <1>3, <1>4, <2>4, <2>6, <2>7
<1>6. CASE RevokeDone(w)
  <2>1. PICK y : y = [x EXCEPT !.pc = "closing"]
    OBVIOUS
  <2>2. Advance(w, y) /\ x.targets \subseteq x.marks
    BY <1>1, <1>6, <2>1 DEF RevokeDone
  <2>3. /\ y \in Txn
        /\ y.pc = "closing" /\ y.marks = x.marks
        /\ y.op = x.op /\ y.client = x.client /\ y.user = x.user
        /\ y.presented = x.presented /\ y.cached = x.cached /\ y.replay = x.replay
        /\ y.targets = x.targets /\ y.child = x.child /\ y.expires = x.expires
        /\ y.verdict = x.verdict
    BY <1>2, <2>1 DEF Txn
  <2>4. SessionInv(y)
    BY <1>2, <1>3, <2>2, <2>3
       DEF SessionInv, ChildFresh, PresentedStored, ReadsStay,
       Inserting, Rotating, RotationBound, ReplayCaught, TargetsUsed,
       LogoutTargets
  <2>5. QED
    BY <1>3, <1>4, <2>2, <2>3, <2>4
<1>7. CASE DeadlockAborts(w)
  <2>1. PICK y : y = [x EXCEPT !.pc = "closing", !.verdict = "error",
                               !.targets = {}, !.marks = {}]
    OBVIOUS
  <2>2. Advance(w, y)
    BY <1>1, <1>7, <2>1 DEF DeadlockAborts
  <2>3. /\ y \in Txn
        /\ y.pc = "closing" /\ y.marks = {} /\ y.targets = {}
        /\ y.verdict = "error"
        /\ y.op = x.op /\ y.client = x.client /\ y.user = x.user
        /\ y.presented = x.presented /\ y.cached = x.cached /\ y.replay = x.replay
        /\ y.child = x.child /\ y.expires = x.expires
    BY <1>2, <2>1 DEF Txn, Verdict
  <2>4. SessionInv(y)
    BY <1>2, <1>3, <2>3 DEF SessionInv, ChildFresh, PresentedStored, ReadsStay,
       Inserting, Rotating, RotationBound, ReplayCaught, TargetsUsed,
       LogoutTargets
  <2>5. QED
    BY <1>3, <1>4, <2>2, <2>3, <2>4
<1>8. QED
  BY <1>5, <1>6, <1>7 DEF RevokeAll

\* The UPDATE and the INSERT of a request, before its COMMIT.
LEMMA WriteStep ==
  ASSUME Inv, NEW w \in Worker, Write(w)
  PROVE  Inv'
<1> DEFINE x == txn[w]
<1>1. SessionInv(x) /\ x \in Txn /\ now \in Nat
  BY DEF Inv, TableInv, SessionInv
<1>2. CASE MarkUsed(w)
  <2> DEFINE p == IF x.op = "refresh" THEN "issuing" ELSE "closing"
             y == [x EXCEPT !.marks = x.targets, !.pc = p]
  <2>1. Advance(w, y) /\ x.pc = "marking"
    BY <1>2 DEF MarkUsed
  <2>2. x.child = None /\ x.targets = {x.presented} /\ x.targets \subseteq Stored
    BY <1>1, <2>1 DEF SessionInv, ChildFresh, TargetsUsed
  <2>3. /\ ~(x.op = "refresh" /\ x.replay)
        /\ p \in {"issuing", "closing"}
        /\ p = "issuing" => x.op = "refresh" /\ x.user \in User
                              /\ x.client \in Client
        /\ p = "closing" => x.op # "refresh"
    <3>1. x.op = "refresh" => /\ x.presented \in Stored
                              /\ x.user = refresh_tokens[x.presented].user_id
                              /\ x.client = refresh_tokens[x.presented].app_client_id
      BY <1>1, <2>1 DEF SessionInv, RotationBound, Rotating
    <3>2. x.op = "refresh" => x.user \in User /\ x.client \in Client
      BY <3>1 DEF Inv, TableInv, Row
    <3>3. QED
      BY <1>1, <2>1, <3>2 DEF SessionInv, ReplayCaught
  <2>4. SessionInv(y)
    <3> HIDE DEF p
    <3>1. /\ y \in Txn
          /\ y.pc = p
          /\ y.marks = x.targets
          /\ y.op = x.op /\ y.client = x.client /\ y.user = x.user
          /\ y.presented = x.presented /\ y.cached = x.cached /\ y.replay = x.replay
          /\ y.targets = x.targets /\ y.child = x.child /\ y.expires = x.expires
          /\ y.verdict = x.verdict
      BY <1>1, <2>3 DEF Txn
    <3> HIDE DEF x, y
    <3>2. QED
      BY <1>1, <2>1, <2>2, <2>3, <3>1
         DEF SessionInv, ChildFresh, PresentedStored, ReadsStay,
         Inserting, Rotating, RotationBound, ReplayCaught, TargetsUsed,
         LogoutTargets
  <2>5. y.child = None
    BY <1>1, <2>2 DEF Txn
  <2> HIDE DEF y
  <2>6. QED
    BY <1>1, <2>1, <2>4, <2>5, LocalStep DEF Advance, Inv, TableInv
<1>3. CASE RevokeAll(w)
  BY <1>3, RevokeStep
<1>4. CASE IssueSession(w)
  <2>1. PICK t \in Token \ Stored :
          /\ \A v \in Worker : txn[v].child # t
          /\ Advance(w, [x EXCEPT !.pc = "closing", !.verdict = "ok",
                                  !.child = t, !.expires = now + TTL])
    BY <1>4 DEF IssueSession
  <2> DEFINE y == [x EXCEPT !.pc = "closing", !.verdict = "ok",
                            !.child = t, !.expires = now + TTL]
  <2>2. /\ x.pc = "issuing" /\ now + TTL \in Nat /\ t # None
        /\ ~(x.op = "refresh" /\ x.replay) /\ x.op # "logout"
    BY <1>1, <1>4, <2>1, TimeAssumption, NoneAssumption
       DEF IssueSession, SessionInv, ReplayCaught, RotationBound, Inserting
  <2>3. SessionInv(y)
    <3>1. /\ y \in Txn
          /\ y.pc = "closing"
          /\ y.verdict = "ok"
          /\ y.child = t
          /\ y.expires = now + TTL
          /\ y.op = x.op /\ y.client = x.client /\ y.user = x.user
          /\ y.presented = x.presented /\ y.cached = x.cached /\ y.replay = x.replay
          /\ y.targets = x.targets /\ y.marks = x.marks
      BY <1>1, <2>1, <2>2 DEF Txn, Verdict
    <3> HIDE DEF x, y
    <3>2. QED
      BY <1>1, <2>1, <2>2, <3>1
         DEF SessionInv, ChildFresh, PresentedStored, ReadsStay,
         Inserting, Rotating, RotationBound, ReplayCaught, TargetsUsed,
         LogoutTargets
  <2>4. y.child = t
    BY <1>1 DEF Txn
  <2>5. Advance(w, y) /\ \A v \in Worker : txn[v].child # t
    BY <2>1
  <2> HIDE DEF y
  <2>6. QED
    BY <1>1, <2>3, <2>4, <2>5, LocalStep DEF Advance, Inv, TableInv
<1>5. CASE IssueFails(w)
  <2> DEFINE y == [x EXCEPT !.pc = "closing", !.verdict = "error"]
  <2>1. Advance(w, y) /\ x.pc = "issuing"
    BY <1>5 DEF IssueFails, Refuse
  <2>2. /\ x.child = None
        /\ ~(x.op = "refresh" /\ x.replay) /\ x.op # "logout"
    BY <1>1, <2>1 DEF SessionInv, ChildFresh, ReplayCaught, RotationBound,
       Inserting
  <2>3. SessionInv(y)
    <3>1. /\ y \in Txn
          /\ y.pc = "closing"
          /\ y.verdict = "error"
          /\ y.op = x.op /\ y.client = x.client /\ y.user = x.user
          /\ y.presented = x.presented /\ y.cached = x.cached /\ y.replay = x.replay
          /\ y.targets = x.targets /\ y.marks = x.marks /\ y.child = x.child
          /\ y.expires = x.expires
      BY <1>1 DEF Txn, Verdict
    <3> HIDE DEF x, y
    <3>2. QED
      BY <1>1, <2>1, <2>2, <3>1
         DEF SessionInv, ChildFresh, PresentedStored, ReadsStay,
         Inserting, Rotating, RotationBound, ReplayCaught, TargetsUsed,
         LogoutTargets
  <2>4. y.child = None
    BY <1>1, <2>2 DEF Txn
  <2> HIDE DEF y
  <2>5. QED
    BY <1>1, <2>1, <2>3, <2>4, LocalStep DEF Advance, Inv, TableInv
<1>6. QED
  BY <1>2, <1>3, <1>4, <1>5 DEF Write

(***************************************************************************)
(* COMMIT: the only step that writes the table.                            *)
(***************************************************************************)

\* What a COMMIT does to the table: it inserts the request's own new row, and
\* of the rows that were there it sets used_at where the request marked.
LEMMA CommitTable ==
  ASSUME Inv, NEW w \in Worker, Commit(w)
  PROVE  /\ txn[w].child \notin Stored
         /\ Stored' = Stored \cup ({txn[w].child} \ {None})
         /\ DOMAIN refresh_tokens' = Stored'
         /\ txn[w].child # None =>
              refresh_tokens'[txn[w].child] = ChildRow(txn[w])
         /\ \A t \in Stored :
              /\ refresh_tokens'[t].user_id = refresh_tokens[t].user_id
              /\ refresh_tokens'[t].app_client_id
                   = refresh_tokens[t].app_client_id
              /\ refresh_tokens'[t].parent = refresh_tokens[t].parent
              /\ refresh_tokens'[t].used_at
                   = (refresh_tokens[t].used_at \/ t \in txn[w].marks)
              /\ refresh_tokens'[t] \in Row
              /\ refresh_tokens'[t] = [refresh_tokens[t] EXCEPT
                                         !.used_at = refresh_tokens'[t].used_at]
<1> DEFINE x == txn[w]
<1>1. SessionInv(x) /\ x.pc = "closing" /\ refresh_tokens' = TableAfter(x)
  BY DEF Inv, Commit
<1>2. x.child \notin Stored
  <2>1. CASE x.child = None
    BY <2>1, NoneAssumption DEF Inv, TableInv
  <2>2. CASE x.child # None
    BY <1>1, <2>2 DEF SessionInv, ChildFresh
  <2>3. QED
    BY <2>1, <2>2
<1>3. Stored' = Stored \cup ({x.child} \ {None})
  BY <1>1 DEF TableAfter, Stored
<1>4. x.child # None => refresh_tokens'[x.child] = ChildRow(x)
  BY <1>1 DEF TableAfter
<1>5. ASSUME NEW t \in Stored
      PROVE  refresh_tokens'[t] =
               [refresh_tokens[t] EXCEPT
                  !.used_at = refresh_tokens[t].used_at \/ t \in x.marks]
  BY <1>1, <1>2 DEF TableAfter, Flushed
<1>6. ASSUME NEW t \in Stored PROVE refresh_tokens[t] \in Row
  BY DEF Inv, TableInv
<1>7. ASSUME NEW t \in Stored
      PROVE  /\ refresh_tokens'[t].user_id = refresh_tokens[t].user_id
             /\ refresh_tokens'[t].app_client_id = refresh_tokens[t].app_client_id
             /\ refresh_tokens'[t].parent = refresh_tokens[t].parent
             /\ refresh_tokens'[t].used_at
                  = (refresh_tokens[t].used_at \/ t \in x.marks)
             /\ refresh_tokens'[t] \in Row
             /\ refresh_tokens'[t] =
                  [refresh_tokens[t] EXCEPT
                     !.used_at = refresh_tokens'[t].used_at]
  <2> DEFINE r == refresh_tokens[t]
             b == refresh_tokens[t].used_at \/ t \in x.marks
  <2>1. r \in Row /\ b \in BOOLEAN /\ refresh_tokens'[t] = [r EXCEPT !.used_at = b]
    BY <1>5, <1>6
  <2>2. b = (r.used_at \/ t \in x.marks)
    OBVIOUS
  <2> HIDE DEF r, b
  <2>3. /\ [r EXCEPT !.used_at = b].used_at = b
        /\ [r EXCEPT !.used_at = b].user_id = r.user_id
        /\ [r EXCEPT !.used_at = b].app_client_id = r.app_client_id
        /\ [r EXCEPT !.used_at = b].parent = r.parent
        /\ [r EXCEPT !.used_at = b] \in Row
    BY <2>1 DEF Row
  <2>4. QED
    BY <2>1, <2>2, <2>3 DEF r
<1>8. DOMAIN refresh_tokens' = Stored'
  BY DEF Stored
<1>9. QED
  BY <1>2, <1>3, <1>4, <1>7, <1>8

\* The session of another worker stays as its invariant wants it.
LEMMA CommitOthers ==
  ASSUME Inv, NEW w \in Worker, Commit(w), NEW v \in Worker, v # w
  PROVE  SessionInv(txn[v])'
<1>1. PICK y : y = txn[v]
  OBVIOUS
<1>2. SessionInv(y) /\ txn'[v] = y
  BY <1>1 DEF Inv, Commit
<1>3. /\ Stored \subseteq Stored'
      /\ None \notin Stored'
      /\ \A t \in Stored :
           /\ refresh_tokens'[t].user_id = refresh_tokens[t].user_id
           /\ refresh_tokens'[t].app_client_id = refresh_tokens[t].app_client_id
           /\ IsUsed(t) => IsUsed(t)'
  BY CommitTable, NoneAssumption DEF IsUsed, Inv, TableInv
<1>4. y.pc = "closing" /\ y.child # None => y.child \notin Stored'
  <2>1. y.child # None => y.child # txn[w].child
    BY <1>1 DEF Inv, ChildrenDistinct
  <2>2. QED
    BY <1>2, <2>1, CommitTable DEF SessionInv, ChildFresh
<1>5. /\ y.presented \in Stored \cup {None}
      /\ y.presented \in Stored' => y.presented \in Stored
      /\ IsUsed(y.presented) => IsUsed(y.presented)'
  BY <1>2, <1>3 DEF SessionInv, PresentedStored, IsUsed
<1>6. y.presented \in Stored' /\ OwnedByCaller(y)' => OwnedByCaller(y)
  BY <1>3, <1>5 DEF OwnedByCaller
<1>7. SessionInv(y)'
  BY <1>2, <1>3, <1>4, <1>5, <1>6
     DEF SessionInv, ChildFresh, PresentedStored, ReadsStay, Inserting,
         Rotating, RotationBound, ReplayCaught, TargetsUsed, LogoutTargets
<1>8. QED
  BY <1>2, <1>7
     DEF SessionInv, ChildFresh, PresentedStored, ReadsStay, Inserting,
         Rotating, RotationBound, ReplayCaught, TargetsUsed, LogoutTargets,
         OwnedByCaller, IsUsed, Stored

LEMMA CommitStep ==
  ASSUME Inv, NEW w \in Worker, Commit(w)
  PROVE  Inv'
<1>1. PICK x : x = txn[w]
  OBVIOUS
<1>2. /\ SessionInv(x) /\ x \in Txn /\ x.pc = "closing"
      /\ txn \in [Worker -> Txn]
      /\ txn' = [txn EXCEPT ![w] = [x EXCEPT !.pc = "replying", !.marks = {}]]
      /\ now' = now /\ delivered' = delivered
  BY <1>1 DEF Inv, Commit, SessionInv
<1>3. PICK y : y = [x EXCEPT !.pc = "replying", !.marks = {}]
  OBVIOUS
<1>4. /\ y \in Txn
          /\ y.pc = "replying"
          /\ y.marks = {}
          /\ y.op = x.op /\ y.client = x.client /\ y.user = x.user
          /\ y.presented = x.presented /\ y.cached = x.cached /\ y.replay = x.replay
          /\ y.targets = x.targets /\ y.child = x.child /\ y.expires = x.expires
          /\ y.verdict = x.verdict
  BY <1>2, <1>3 DEF Txn
<1>5. txn' \in [Worker -> Txn] /\ txn'[w] = y
        /\ \A v \in Worker \ {w} : txn'[v] = txn[v]
  BY <1>2, <1>3, <1>4
<1>6. /\ x.child \notin Stored
      /\ Stored' = Stored \cup ({x.child} \ {None})
      /\ x.child # None => refresh_tokens'[x.child] = ChildRow(x)
      /\ \A t \in Stored :
           /\ refresh_tokens'[t].user_id = refresh_tokens[t].user_id
           /\ refresh_tokens'[t].app_client_id = refresh_tokens[t].app_client_id
           /\ refresh_tokens'[t].parent = refresh_tokens[t].parent
           /\ refresh_tokens'[t] \in Row
           /\ refresh_tokens'[t].used_at
                = (refresh_tokens[t].used_at \/ t \in x.marks)
  BY <1>1, CommitTable
<1>7. \A t \in Stored : IsUsed(t) \/ t \in x.marks => IsUsed(t)'
  BY <1>6 DEF IsUsed
<1>8. None \notin Stored /\ None \notin Stored'
  BY <1>2, <1>6, NoneAssumption DEF Inv, TableInv
<1>9. x.child # None => Rotating(x) \/ x.presented = None
  BY <1>2 DEF SessionInv, RotationBound, Inserting, Rotating
<1>10. TableInv'
  <2>1. Stored' \subseteq Token
    BY <1>2, <1>6 DEF Txn, Inv, TableInv
  <2>2. x.child # None => ChildRow(x) \in Row
    BY <1>2 DEF SessionInv, RotationBound, Inserting, ChildRow, Row, Txn
  <2>3. refresh_tokens' \in [Stored' -> Row]
    <3>1. refresh_tokens' = [t \in Stored' |-> refresh_tokens'[t]]
      BY <1>1 DEF Commit, TableAfter, Stored
    <3>2. \A t \in Stored' : refresh_tokens'[t] \in Row
      BY <1>6, <2>2
    <3>3. QED
      BY <3>1, <3>2
  <2>4. RotationLineage'
    <3>1. ASSUME NEW t \in Stored', NEW p, p = refresh_tokens'[t].parent,
                 p # None
          PROVE  /\ IsUsed(p)'
                 /\ refresh_tokens'[p].user_id = refresh_tokens'[t].user_id
                 /\ refresh_tokens'[p].app_client_id
                      = refresh_tokens'[t].app_client_id
      <4>1. CASE t \in Stored
        <5>1. p = refresh_tokens[t].parent /\ p # None
          BY <1>6, <3>1, <4>1
        <5>2. /\ IsUsed(p) /\ p \in Stored
              /\ refresh_tokens[p].user_id = refresh_tokens[t].user_id
              /\ refresh_tokens[p].app_client_id = refresh_tokens[t].app_client_id
          BY <4>1, <5>1 DEF Inv, TableInv, RotationLineage, IsUsed
        <5>3. IsUsed(p)'
          BY <1>7, <5>2
        <5>4. QED
          BY <1>6, <4>1, <5>2, <5>3 DEF IsUsed
      <4>2. CASE t = x.child /\ x.child # None
        <5>1. p = x.presented /\ refresh_tokens'[t].user_id = x.user
                /\ refresh_tokens'[t].app_client_id = x.client
          BY <1>6, <3>1, <4>2 DEF ChildRow
        <5>2. Rotating(x)
          BY <1>9, <3>1, <4>2, <5>1
        <5>3. /\ p \in Stored /\ p \in x.marks
              /\ refresh_tokens[p].user_id = x.user
              /\ refresh_tokens[p].app_client_id = x.client
          BY <1>2, <5>1, <5>2 DEF SessionInv, RotationBound
        <5>4. IsUsed(p)'
          BY <1>7, <5>3
        <5>5. QED
          BY <1>6, <5>1, <5>3, <5>4 DEF IsUsed
      <4>3. QED
        BY <1>6, <4>1, <4>2
    <3>2. QED
      BY <3>1 DEF RotationLineage, IsUsed, Stored
  <2>5. QED
    BY <1>2, <1>6, <2>1, <2>3, <2>4 DEF TableInv, Inv
<1>11. SessionInv(y)'
  <2>1. ChildFresh(y)' /\ PresentedStored(y)' /\ RotationBound(y)'
    BY <1>2, <1>4, <1>6
       DEF SessionInv, ChildFresh, PresentedStored, RotationBound, Inserting,
           Rotating
  <2>2. ReadsStay(y)' /\ ReplayCaught(y)'
    <3>1. IsUsed(x.presented) => IsUsed(x.presented)'
      BY <1>7 DEF IsUsed
    <3>2. QED
      BY <1>2, <1>4, <3>1 DEF SessionInv, ReadsStay, ReplayCaught
  <2>3. TargetsUsed(y)'
    BY <1>2, <1>4, <1>6, <1>7 DEF SessionInv, TargetsUsed
  <2>4. LogoutTargets(y)'
    <3>1. SUFFICES ASSUME x.op = "logout", x.presented \in Stored',
                          OwnedByCaller(y)'
                   PROVE  IsUsed(x.presented)'
      BY <1>4 DEF LogoutTargets
    <3>2. x.presented \in Stored
      BY <1>2, <1>8, <3>1 DEF SessionInv, PresentedStored
    <3>3. OwnedByCaller(x)
      BY <1>4, <1>6, <3>1, <3>2 DEF OwnedByCaller
    <3>4. x.presented \in x.targets \/ IsUsed(x.presented)
      BY <1>2, <3>1, <3>2, <3>3 DEF SessionInv, LogoutTargets
    <3>5. QED
      BY <1>2, <1>7, <3>2, <3>4 DEF SessionInv, TargetsUsed
  <2>5. QED
    BY <1>4, <2>1, <2>2, <2>3, <2>4 DEF SessionInv
<1>12. ASSUME NEW v \in Worker PROVE SessionInv(txn[v])'
  <2>1. CASE v = w
    BY <1>5, <1>11, <2>1
       DEF SessionInv, ChildFresh, PresentedStored, ReadsStay, Inserting,
           Rotating, RotationBound, ReplayCaught, TargetsUsed, LogoutTargets,
           OwnedByCaller, IsUsed, Stored
  <2>2. CASE v # w
    BY <2>2, CommitOthers
  <2>3. QED
    BY <2>1, <2>2
<1>13. ChildrenDistinct'
  BY <1>1, <1>4, <1>5 DEF ChildrenDistinct, Inv
<1>14. QED
  BY <1>5, <1>10, <1>12, <1>13 DEF Inv

\* The response, its loss, and a crash leave the worker idle.
LEMMA EndStep ==
  ASSUME Inv, NEW w \in Worker, Deliver(w) \/ LoseResponse(w) \/ Crash(w)
  PROVE  Inv'
<1>1. SessionInv(Idle) /\ Idle.child = None
  BY NoneAssumption
     DEF Idle, SessionInv, Txn, Op, Verdict, ChildFresh, PresentedStored,
         ReadsStay, Inserting, Rotating, RotationBound, ReplayCaught,
         TargetsUsed, LogoutTargets
<1>2. delivered' \subseteq Stored
  <2>1. CASE Deliver(w)
    BY <2>1 DEF Deliver, Inv, TableInv, SessionInv, ChildFresh
  <2>2. QED
    BY <2>1 DEF LoseResponse, Crash, Inv, TableInv
<1>3. /\ txn' = [txn EXCEPT ![w] = Idle]
      /\ now' \in Nat
      /\ refresh_tokens' = refresh_tokens
  BY DEF Deliver, LoseResponse, Crash, Inv, TableInv
<1> HIDE DEF Idle
<1>4. QED
  BY <1>1, <1>2, <1>3, LocalStep

(***************************************************************************)
(* The theorems.                                                           *)
(***************************************************************************)

LEMMA Initially == Init => Inv
<1> SUFFICES ASSUME Init PROVE Inv
  OBVIOUS
<1>1. TableInv
  BY DEF Init, TableInv, Stored, RotationLineage, Row
<1>2. SessionInv(Idle) /\ Idle \in Txn /\ Idle.child = None
  BY NoneAssumption
     DEF Idle, SessionInv, Txn, Op, Verdict, ChildFresh, PresentedStored,
         ReadsStay, Inserting, Rotating, RotationBound, ReplayCaught,
         TargetsUsed, LogoutTargets
<1> HIDE DEF Idle
<1>3. QED
  BY <1>1, <1>2 DEF Init, Inv, ChildrenDistinct

LEMMA Inductive == Inv /\ [Next]_vars => Inv'
<1> SUFFICES ASSUME Inv, [Next]_vars PROVE Inv'
  OBVIOUS
<1>1. ASSUME UNCHANGED <<refresh_tokens, txn, delivered>>, now' \in Nat
      PROVE  Inv'
  BY <1>1 DEF Inv, TableInv, RotationLineage, ChildrenDistinct, SessionInv,
     ChildFresh, PresentedStored, ReadsStay, Inserting, Rotating,
     RotationBound, ReplayCaught, TargetsUsed, LogoutTargets, OwnedByCaller,
     IsUsed, Stored
<1>2. CASE Tick
  BY <1>1, <1>2 DEF Tick, Inv, TableInv
<1>3. CASE UNCHANGED vars
  BY <1>1, <1>3 DEF vars, Inv, TableInv
<1>4. ASSUME NEW w \in Worker, Start(w) \/ Serve(w) \/ Crash(w)
      PROVE  Inv'
  BY <1>4, BeginStep, LookUpStep, WriteStep, CommitStep, EndStep
     DEF Serve, Finish
<1>5. QED
  BY <1>2, <1>3, <1>4 DEF Next

\* Every reachable state satisfies the inductive invariant.
THEOREM Invariance == Spec => []Inv
  BY Initially, Inductive, PTL DEF Spec

\* Every variable keeps its shape.
THEOREM TypeCorrect == Spec => []TypeOK
<1>1. Inv => TypeOK
  BY DEF Inv, TableInv, TypeOK
<1>2. QED
  BY <1>1, Invariance, PTL

\* A rotation consumes the presented token and issues its successor in one
\* transaction, for the same user and client.
THEOREM LineageKept == Spec => []RotationLineage
<1>1. Inv => RotationLineage
  BY DEF Inv, TableInv
<1>2. QED
  BY <1>1, Invariance, PTL

\* A client never holds a token the server does not know.
THEOREM DeliveredKnown == Spec => []DeliveredIsStored
<1>1. Inv => DeliveredIsStored
  BY NoneAssumption
     DEF Inv, TableInv, DeliveredIsStored, SessionInv, PresentedStored
<1>2. QED
  BY <1>1, Invariance, PTL

\* A refresh that arrives after its token was consumed never gets a pair.
THEOREM ReplaySafe == Spec => []ReplayNeverRotates
<1>1. Inv => ReplayNeverRotates
  BY DEF Inv, ReplayNeverRotates, SessionInv, ReplayCaught
<1>2. QED
  BY <1>1, Invariance, PTL

\* A revocation is committed before it is reported.
THEOREM RevocationReported == Spec => []RevokedBeforeReply
<1>1. Inv => RevokedBeforeReply
  BY DEF Inv, RevokedBeforeReply, SessionInv, TargetsUsed
<1>2. QED
  BY <1>1, Invariance, PTL

\* A logout is committed before it is reported.
THEOREM LogoutReported == Spec => []LogoutSticks
<1>1. Inv => LogoutSticks
  BY DEF Inv, LogoutSticks, SessionInv, LogoutTargets, TargetsUsed
<1>2. QED
  BY <1>1, Invariance, PTL

\* No step removes a row, rewrites it, or clears its used_at.
THEOREM ConsumedForever == Spec => RowsOnlyConsumed
<1> DEFINE Kept ==
      \A t \in Stored :
        /\ t \in Stored'
        /\ refresh_tokens'[t] =
             [refresh_tokens[t] EXCEPT !.used_at = refresh_tokens'[t].used_at]
        /\ IsUsed(t) => IsUsed(t)'
<1>1. ASSUME Inv, refresh_tokens' = refresh_tokens PROVE Kept
  <2>1. \A t \in Stored : refresh_tokens[t] \in Row
    BY <1>1 DEF Inv, TableInv
  <2>2. \A t \in Stored : refresh_tokens[t] =
          [refresh_tokens[t] EXCEPT !.used_at = refresh_tokens[t].used_at]
    BY <2>1 DEF Row
  <2>3. QED
    BY <1>1, <2>2 DEF Stored, IsUsed
<1>2. ASSUME Inv, NEW w \in Worker, Commit(w) PROVE Kept
  BY <1>2, CommitTable DEF IsUsed
<1>3. ASSUME Inv, [Next]_vars PROVE Kept
  <2>1. CASE UNCHANGED vars
    BY <1>1, <1>3, <2>1 DEF vars
  <2>2. CASE Tick
    BY <1>1, <1>3, <2>2 DEF Tick
  <2>3. ASSUME NEW w \in Worker, Start(w) \/ LookUp(w) \/ Write(w) \/ Crash(w)
                                   \/ Deliver(w) \/ LoseResponse(w)
        PROVE  Kept
    <3>1. refresh_tokens' = refresh_tokens
      BY <2>3 DEF Start, StartSignIn, StartRefresh, StartLogout, StartLogoutAll,
         StartWithToken, Begin, LookUp, RotateUnknown, RotateReused,
         RotateExpired, RotateForeign, RotateAccept, LogoutNothing,
         LogoutAccept, Refuse, Advance, Write, MarkUsed, RevokeAll, RevokeRow,
         RevokeDone, DeadlockAborts,
         IssueSession, IssueFails, Crash, Deliver, LoseResponse
    <3>2. QED
      BY <1>1, <1>3, <3>1
  <2>4. QED
    BY <1>2, <1>3, <2>1, <2>2, <2>3 DEF Next, Serve, Finish
<1>4. Inv /\ [Next]_vars => [Kept]_vars
  BY <1>3
<1>5. QED
  BY <1>4, Invariance, PTL DEF Spec, RowsOnlyConsumed

(***************************************************************************)
(* A single worker implements SessionLedger.                               *)
(*                                                                         *)
(* With one worker no other COMMIT comes between what a request reads and  *)
(* what it writes, so its own COMMIT is the one step of the ledger that    *)
(* the request stands for.                                                 *)
(***************************************************************************)

OneWorker == \A v, w \in Worker : v = w

\* What the transaction of a request amounts to: a new grant, with what it
\* replaces, or the end of one, of a user's or of no grant.
Grants(x) ==
  /\ x.child # None
  /\ \/ x.op = "sign_in" /\ x.marks = {}
     \/ x.op = "refresh" /\ ~IsUsed(x.presented)
EndsOne(x) ==
  /\ x.child = None
  /\ x.presented \in Stored /\ ~IsUsed(x.presented)
  /\ x.marks = {x.presented}
EndsAll(x) ==
  /\ x.child = None
  /\ x.user \in User /\ x.marks = ActiveOf(x.user)
EndsNone(x) == x.child = None /\ x.marks = {}

\* What a request of the only worker has read is still so.
Solo(x) ==
  /\ x.pc \in {"lookup", "marking"} => x.marks = {}
  /\ x.pc = "lookup" /\ x.cached = "unused" => ~IsUsed(x.presented)
  /\ x.pc = "marking" => ~IsUsed(x.presented)
  /\ x.pc = "revoking" =>
       x.user \in User /\ x.targets = ActiveOf(x.user) /\ x.marks \subseteq x.targets
  /\ x.pc = "issuing" /\ x.op = "sign_in" => x.marks = {}
  /\ x.pc = "issuing" /\ x.op = "refresh" => ~IsUsed(x.presented)
  /\ x.pc = "closing" => Grants(x) \/ EndsOne(x) \/ EndsAll(x) \/ EndsNone(x)
  /\ x.verdict = "reused" =>
       /\ x.pc \in {"revoking", "closing", "replying"}
       /\ x.pc = "closing" => EndsAll(x)

SoloInv == \A w \in Worker : Solo(txn[w])

\* SoloInv is kept by a step that takes the session of the worker to one that
\* satisfies Solo and leaves the table alone.
LEMMA SoloLocal ==
  ASSUME OneWorker, Inv, NEW w \in Worker, NEW y, Solo(y),
         txn' = [txn EXCEPT ![w] = y], refresh_tokens' = refresh_tokens
  PROVE  SoloInv'
<1>1. \A v \in Worker : txn'[v] = y
  BY DEF OneWorker, Inv
<1>2. ASSUME NEW v \in Worker PROVE Solo(txn[v])'
  BY <1>1 DEF Solo, Grants, EndsOne, EndsAll, EndsNone, IsUsed, ActiveOf, Stored
<1>3. QED
  BY <1>2 DEF SoloInv

\* The eager load tells a request that it will read the row as it is.
LEMMA SoloStart ==
  ASSUME OneWorker, Inv, SoloInv, NEW w \in Worker, Start(w)
  PROVE  SoloInv'
<1> USE DEF Begin, Idle
<1>1. CASE StartSignIn(w)
  <2>1. PICK u \in User, c \in Client :
          Begin(w, [Idle EXCEPT !.pc = "issuing", !.op = "sign_in",
                                !.user = u, !.client = c])
    BY <1>1 DEF StartSignIn
  <2>2. Solo([Idle EXCEPT !.pc = "issuing", !.op = "sign_in",
                          !.user = u, !.client = c])
    BY DEF Solo
  <2>3. QED
    BY <2>1, <2>2, SoloLocal
<1>2. CASE \E op \in {"refresh", "logout"} : StartWithToken(w, op)
  <2>1. PICK op \in {"refresh", "logout"}, c \in Client, t \in delivered \cup {None} :
          Begin(w, [Idle EXCEPT !.pc = "lookup", !.op = op, !.client = c,
                                !.presented = t, !.cached = CachedAtAuth(t, c),
                                !.replay = IsUsed(t)])
    BY <1>2 DEF StartWithToken
  <2>2. CachedAtAuth(t, c) = "unused" => ~IsUsed(t)
    BY DEF CachedAtAuth, IsUsed
  <2>3. Solo([Idle EXCEPT !.pc = "lookup", !.op = op, !.client = c,
                          !.presented = t, !.cached = CachedAtAuth(t, c),
                          !.replay = IsUsed(t)])
    <3> HIDE DEF CachedAtAuth, IsUsed
    <3> QED
      BY <2>2 DEF Solo
  <2>4. QED
    BY <2>1, <2>3, SoloLocal
<1>3. CASE StartLogoutAll(w)
  <2>1. PICK u \in {refresh_tokens[t].user_id : t \in delivered}, c \in Client :
          Begin(w, [Idle EXCEPT !.pc = "revoking", !.op = "logout_all",
                                !.user = u, !.client = c,
                                !.targets = ActiveOf(u), !.verdict = "ok"])
    BY <1>3 DEF StartLogoutAll
  <2>2. u \in User
    BY <2>1 DEF Inv, TableInv, Row
  <2>3. Solo([Idle EXCEPT !.pc = "revoking", !.op = "logout_all", !.user = u,
                          !.client = c, !.targets = ActiveOf(u),
                          !.verdict = "ok"])
    BY <2>2 DEF Solo
  <2>4. QED
    BY <2>1, <2>3, SoloLocal
<1>4. QED
  BY <1>1, <1>2, <1>3 DEF Start, StartRefresh, StartLogout

\* A request that is refused ends nothing; one that is accepted has seen the
\* row unused, which it still is.
LEMMA SoloLookUp ==
  ASSUME OneWorker, Inv, SoloInv, NEW w \in Worker, LookUp(w)
  PROVE  SoloInv'
<1>1. PICK x : x = txn[w]
  OBVIOUS
<1>2. x \in Txn /\ SessionInv(x) /\ Solo(x)
  BY <1>1 DEF Inv, SoloInv, SessionInv
<1>3. x.pc = "lookup"
  BY <1>1 DEF LookUp, RotateUnknown, RotateReused, RotateExpired, RotateForeign,
     RotateAccept, LogoutNothing, LogoutAccept, Looking
<1>4. /\ x.child = None /\ x.marks = {} /\ x.verdict # "reused"
      /\ ~SeesUsed(x) => ~IsUsed(x.presented)
  BY <1>2, <1>3 DEF SessionInv, ChildFresh, Solo, SeesUsed, Txn
<1>5. ASSUME NEW verdict \in Verdict \ {"reused"}, Refuse(w, verdict)
      PROVE  SoloInv'
  <2>1. Solo([x EXCEPT !.pc = "closing", !.verdict = verdict])
    BY <1>2, <1>4, <1>5 DEF Solo, EndsNone, Txn
  <2>2. QED
    BY <1>1, <1>5, <2>1, SoloLocal DEF Refuse, Advance
<1>6. CASE RotateReused(w)
  <2>1. PICK u : u = refresh_tokens[x.presented].user_id
    OBVIOUS
  <2>2. /\ x.presented \in Stored
        /\ Advance(w, [x EXCEPT !.pc = "revoking", !.verdict = "reused",
                                !.user = u, !.targets = ActiveOf(u)])
    BY <1>1, <1>6, <2>1 DEF RotateReused
  <2>3. u \in User
    BY <2>1, <2>2 DEF Inv, TableInv, Row
  <2>4. Solo([x EXCEPT !.pc = "revoking", !.verdict = "reused",
                       !.user = u, !.targets = ActiveOf(u)])
    BY <1>2, <1>4, <2>3 DEF Solo, Txn
  <2>5. QED
    BY <2>2, <2>4, SoloLocal DEF Advance
<1>7. CASE RotateAccept(w)
  <2>1. PICK u : u = refresh_tokens[x.presented].user_id
    OBVIOUS
  <2>2. /\ ~SeesUsed(x)
        /\ Advance(w, [x EXCEPT !.pc = "marking", !.targets = {x.presented},
                                !.user = u])
    BY <1>1, <1>7, <2>1 DEF RotateAccept
  <2>3. Solo([x EXCEPT !.pc = "marking", !.targets = {x.presented}, !.user = u])
    BY <1>2, <1>4, <2>2 DEF Solo, Txn
  <2>4. QED
    BY <2>2, <2>3, SoloLocal DEF Advance
<1>8. CASE LogoutAccept(w)
  <2>1. /\ ~SeesUsed(x)
        /\ Advance(w, [x EXCEPT !.pc = "marking", !.verdict = "ok",
                                !.targets = {x.presented}])
    BY <1>1, <1>8 DEF LogoutAccept, LogoutApplies
  <2>2. Solo([x EXCEPT !.pc = "marking", !.verdict = "ok",
                       !.targets = {x.presented}])
    BY <1>2, <1>4, <2>1 DEF Solo, Txn
  <2>3. QED
    BY <2>1, <2>2, SoloLocal DEF Advance
<1>9. QED
  BY <1>5, <1>6, <1>7, <1>8 DEF LookUp, RotateUnknown, RotateExpired,
     RotateForeign, LogoutNothing, Verdict

\* What is marked is what was seen unused.
LEMMA SoloWrite ==
  ASSUME OneWorker, Inv, SoloInv, NEW w \in Worker, Write(w)
  PROVE  SoloInv'
<1>1. PICK x : x = txn[w]
  OBVIOUS
<1>2. x \in Txn /\ SessionInv(x) /\ Solo(x)
  BY <1>1 DEF Inv, SoloInv, SessionInv
<1>3. x.pc \in {"marking", "revoking", "issuing"} => x.child = None
  BY <1>2 DEF SessionInv, ChildFresh
<1>4. CASE MarkUsed(w)
  <2>1. PICK p : p = IF x.op = "refresh" THEN "issuing" ELSE "closing"
    OBVIOUS
  <2>2. /\ x.pc = "marking"
        /\ Advance(w, [x EXCEPT !.marks = x.targets, !.pc = p])
    BY <1>1, <1>4, <2>1 DEF MarkUsed
  <2>3. /\ x.targets = {x.presented} /\ x.presented \in Stored
        /\ ~IsUsed(x.presented) /\ x.verdict # "reused" /\ x.child = None
    BY <1>2, <1>3, <2>2 DEF SessionInv, TargetsUsed, Solo
  <2>4. Solo([x EXCEPT !.marks = x.targets, !.pc = p])
    <3>1. CASE x.op = "refresh"
      BY <1>2, <2>1, <2>3, <3>1 DEF Solo, Txn
    <3>2. CASE x.op # "refresh"
      BY <1>2, <2>1, <2>3, <3>2 DEF Solo, EndsOne, Txn
    <3>3. QED
      BY <3>1, <3>2
  <2>5. QED
    BY <2>2, <2>4, SoloLocal DEF Advance
<1>5. CASE RevokeAll(w)
  <2>1. x.pc = "revoking"
    BY <1>1, <1>5, OnCircle DEF RevokeAll, RevokeRow, RevokeDone, DeadlockAborts
  <2>2. /\ x.child = None /\ x.user \in User
        /\ x.targets = ActiveOf(x.user) /\ x.marks \subseteq x.targets
    BY <1>2, <1>3, <2>1 DEF Solo
  <2>3. CASE RevokeRow(w)
    <3>1. PICK t \in x.targets : Advance(w, [x EXCEPT !.marks = @ \cup {t}])
      BY <1>1, <2>3 DEF RevokeRow
    <3>2. PICK y : y = [x EXCEPT !.marks = @ \cup {t}]
      OBVIOUS
    <3>3. /\ y.pc = "revoking" /\ y.user = x.user /\ y.targets = x.targets
          /\ y.marks = x.marks \cup {t} /\ y.verdict = x.verdict
      BY <1>2, <2>1, <3>2 DEF Txn
    <3>4. Solo(y)
      BY <1>2, <2>1, <2>2, <3>1, <3>3 DEF Solo
    <3>5. QED
      BY <3>1, <3>2, <3>4, SoloLocal DEF Advance
  <2>4. CASE RevokeDone(w)
    <3>1. PICK y : y = [x EXCEPT !.pc = "closing"]
      OBVIOUS
    <3>2. Advance(w, y) /\ x.targets \subseteq x.marks
      BY <1>1, <2>4, <3>1 DEF RevokeDone
    <3>3. /\ y.pc = "closing" /\ y.user = x.user /\ y.child = x.child
          /\ y.marks = x.marks /\ y.verdict = x.verdict
      BY <1>2, <3>1 DEF Txn
    <3>4. EndsAll(y)
      BY <2>2, <3>2, <3>3 DEF EndsAll
    <3>5. Solo(y)
      BY <3>3, <3>4 DEF Solo
    <3>6. QED
      BY <3>2, <3>5, SoloLocal DEF Advance
  <2>5. CASE DeadlockAborts(w)
    BY <2>5, OnCircle DEF DeadlockAborts, OneWorker
  <2>6. QED
    BY <1>5, <2>3, <2>4, <2>5 DEF RevokeAll
<1>6. CASE IssueSession(w)
  <2>1. PICK t \in Token \ Stored :
          Advance(w, [x EXCEPT !.pc = "closing", !.verdict = "ok",
                               !.child = t, !.expires = now + TTL])
    BY <1>1, <1>6 DEF IssueSession
  <2>2. x.pc = "issuing" /\ t # None /\ x.op \in {"sign_in", "refresh"}
    BY <1>1, <1>2, <1>6, NoneAssumption
       DEF IssueSession, SessionInv, RotationBound, Inserting
  <2>3. Solo([x EXCEPT !.pc = "closing", !.verdict = "ok",
                       !.child = t, !.expires = now + TTL])
    BY <1>2, <2>2 DEF Solo, Grants, Txn
  <2>4. QED
    BY <2>1, <2>3, SoloLocal DEF Advance
<1>7. CASE IssueFails(w)
  <2>1. /\ x.pc = "issuing"
        /\ Advance(w, [x EXCEPT !.pc = "closing", !.verdict = "error"])
    BY <1>1, <1>7 DEF IssueFails, Refuse
  <2>2. x.op = "sign_in" \/ (x.op = "refresh" /\ x.presented \in Stored
                               /\ x.marks = {x.presented})
    BY <1>2, <2>1 DEF SessionInv, RotationBound, Inserting, Rotating
  <2>3. Solo([x EXCEPT !.pc = "closing", !.verdict = "error"])
    BY <1>2, <1>3, <2>1, <2>2 DEF Solo, EndsNone, EndsOne, Txn
  <2>4. QED
    BY <2>1, <2>3, SoloLocal DEF Advance
<1>8. QED
  BY <1>4, <1>5, <1>6, <1>7 DEF Write

\* Once the request is committed, or gone, nothing is expected of its session.
LEMMA SoloEnd ==
  ASSUME OneWorker, Inv, SoloInv, NEW w \in Worker,
         Commit(w) \/ Deliver(w) \/ LoseResponse(w) \/ Crash(w)
  PROVE  SoloInv'
<1>1. CASE Commit(w)
  <2>1. \A v \in Worker : txn'[v] = [txn[w] EXCEPT !.pc = "replying", !.marks = {}]
    BY <1>1 DEF Commit, OneWorker, Inv
  <2>2. txn[w] \in Txn
    BY DEF Inv, SessionInv
  <2>3. \A v \in Worker : txn'[v].pc = "replying"
    BY <2>1, <2>2 DEF Txn
  <2>4. QED
    BY <2>3 DEF SoloInv, Solo
<1>2. CASE Deliver(w) \/ LoseResponse(w) \/ Crash(w)
  <2>1. txn' = [txn EXCEPT ![w] = Idle] /\ refresh_tokens' = refresh_tokens
    BY <1>2 DEF Deliver, LoseResponse, Crash
  <2>2. Solo(Idle)
    BY DEF Solo, Idle
  <2>3. QED
    BY <2>1, <2>2, SoloLocal
<1>3. QED
  BY <1>1, <1>2

\* SoloInv is inductive over Inv.
LEMMA SoloInductive ==
  ASSUME OneWorker
  PROVE  /\ Init => SoloInv
         /\ Inv /\ SoloInv /\ [Next]_vars => SoloInv'
<1>1. Init => SoloInv
  BY DEF Init, SoloInv, Solo, Idle
<1>2. ASSUME Inv, SoloInv, Tick \/ UNCHANGED vars PROVE SoloInv'
  <2>1. txn' = txn /\ refresh_tokens' = refresh_tokens
    BY <1>2 DEF Tick, vars
  <2>2. QED
    BY <1>2, <2>1 DEF SoloInv, Solo, Grants, EndsOne, EndsAll, EndsNone,
       IsUsed, ActiveOf, Stored
<1>3. ASSUME Inv, SoloInv, Next PROVE SoloInv'
  BY <1>2, <1>3, SoloStart, SoloLookUp, SoloWrite, SoloEnd DEF Next, Serve, Finish
<1>4. QED
  BY <1>1, <1>2, <1>3

-----------------------------------------------------------------------------
\* The COMMIT of the only worker is one step of the ledger, or changes nothing
\* in it.
LEMMA CommitIsOneStep ==
  ASSUME OneWorker, Inv, SoloInv, NEW w \in Worker, Commit(w)
  PROVE  Ledger!Next \/ UNCHANGED Ledger!ledger
<1>1. PICK x : x = txn[w]
  OBVIOUS
<1>2. x \in Txn /\ SessionInv(x) /\ Solo(x) /\ x.pc = "closing"
  BY <1>1 DEF Inv, SoloInv, SessionInv, Commit
<1> DEFINE grant == [t \in Stored |-> GrantOf(t)]
           active == {t \in Stored : ~refresh_tokens[t].used_at}
<1>3. /\ x.child \notin Stored
      /\ Stored' = Stored \cup ({x.child} \ {None})
      /\ x.child # None => refresh_tokens'[x.child] = ChildRow(x)
      /\ \A t \in Stored :
           /\ GrantOf(t)' = GrantOf(t)
           /\ refresh_tokens'[t].used_at
                = (refresh_tokens[t].used_at \/ t \in x.marks)
  BY <1>1, CommitTable DEF GrantOf
<1>4. x.child = None => grant' = grant /\ active' = active \ x.marks
  BY <1>3
<1>5. CASE x.child # None
  <2>1. x.child \in Token /\ x.child \notin Ledger!Issued
    BY <1>2, <1>3, <1>5 DEF Txn, Ledger!Issued
  <2>2. active' = (active \ x.marks) \cup {x.child}
    <3>1. ~refresh_tokens'[x.child].used_at
      BY <1>3, <1>5 DEF ChildRow
    <3>2. \A t \in Stored' : t = x.child \/ t \in Stored
      BY <1>3
    <3>3. \A t \in Stored :
            ~refresh_tokens'[t].used_at
              <=> ~refresh_tokens[t].used_at /\ t \notin x.marks
      BY <1>3
    <3>4. x.child \in Stored' /\ Stored \subseteq Stored'
      BY <1>3, <1>5
    <3> HIDE <1>3
    <3>5. QED
      BY <3>1, <3>2, <3>3, <3>4
  <2>3. Grants(x) /\ x.user \in User /\ x.client \in Client
    BY <1>2, <1>5 DEF Solo, EndsOne, EndsAll, EndsNone, SessionInv,
       RotationBound, Inserting
  <2> DEFINE g == [user_id |-> x.user, app_client_id |-> x.client]
  <2>4. Ledger!Grant(x.child, g)
    <3>1. GrantOf(x.child)' = g
      BY <1>3, <1>5 DEF GrantOf, ChildRow
    <3>2. grant' = [s \in Stored \cup {x.child} |->
                      IF s = x.child THEN g ELSE grant[s]]
      BY <1>3, <1>5, <3>1
    <3>3. QED
      BY <3>2 DEF Ledger!Grant, Ledger!Issued
  <2>5. CASE x.op = "sign_in" /\ x.marks = {}
    <3>1. Ledger!SignIn(x.child, x.user, x.client)
      BY <2>1, <2>2, <2>4, <2>5 DEF Ledger!SignIn
    <3>2. QED
      BY <2>1, <2>3, <3>1 DEF Ledger!Next
  <2>6. CASE x.op = "refresh" /\ ~IsUsed(x.presented)
    <3>1. /\ x.presented \in Stored /\ x.marks = {x.presented}
          /\ GrantOf(x.presented) = g
      BY <1>2, <1>5, <2>6 DEF SessionInv, RotationBound, Inserting, Rotating,
         GrantOf
    <3>2. x.presented \in active /\ grant[x.presented] = g
      BY <2>6, <3>1 DEF IsUsed
    <3>3. Ledger!Rotate(x.presented, x.child)
      BY <2>1, <2>2, <2>4, <3>1, <3>2 DEF Ledger!Rotate
    <3>4. x.presented \in Token
      BY <3>1 DEF Inv, TableInv
    <3>5. QED
      BY <2>1, <3>3, <3>4 DEF Ledger!Next
  <2>7. QED
    BY <2>3, <2>5, <2>6 DEF Grants
<1>6. CASE EndsOne(x)
  <2>1. x.presented \in active /\ x.presented \in Token
    BY <1>6 DEF EndsOne, IsUsed, Inv, TableInv
  <2>2. Ledger!Logout(x.presented)
    BY <1>4, <1>6, <2>1 DEF EndsOne, Ledger!Logout
  <2>3. QED
    BY <2>1, <2>2 DEF Ledger!Next
<1>7. CASE EndsAll(x)
  <2>1. active \ x.marks = {t \in active : grant[t].user_id # x.user}
    BY <1>7 DEF EndsAll, ActiveOf, GrantOf
  <2>2. Ledger!EndEverySession(x.user)
    BY <1>4, <1>7, <2>1 DEF EndsAll, Ledger!EndEverySession
  <2>3. QED
    BY <1>7, <2>2 DEF EndsAll, Ledger!Next
<1>8. CASE EndsNone(x)
  BY <1>4, <1>8 DEF EndsNone, Ledger!ledger
<1>9. QED
  BY <1>2, <1>5, <1>6, <1>7, <1>8 DEF Solo, Grants

\* Whatever else happens, the ledger stays as it is.
LEMMA StepIsOneStep ==
  ASSUME OneWorker, Inv, SoloInv, [Next]_vars
  PROVE  [Ledger!Next]_(Ledger!ledger)
<1>1. CASE refresh_tokens' = refresh_tokens
  BY <1>1 DEF Ledger!ledger, GrantOf, Stored
<1>2. CASE \E w \in Worker : Commit(w)
  BY <1>2, CommitIsOneStep
<1>3. refresh_tokens' = refresh_tokens \/ \E w \in Worker : Commit(w)
  BY DEF Next, vars, Tick, Start, StartSignIn, StartRefresh, StartLogout,
     StartWithToken, StartLogoutAll, Begin, Serve, LookUp, RotateUnknown,
     RotateReused, RotateExpired, RotateForeign, RotateAccept, LogoutNothing,
     LogoutAccept, Refuse, Advance, Write, MarkUsed, RevokeAll, RevokeRow,
     RevokeDone, DeadlockAborts, IssueSession,
     IssueFails, Finish, Deliver, LoseResponse, Crash
<1>4. QED
  BY <1>1, <1>2, <1>3

\* With a single worker every request is one atomic step of SessionLedger, in
\* which a token is rotated once at most and only while it is active.
THEOREM SingleWorkerIsAtomic ==
  ASSUME OneWorker
  PROVE  Spec => ImplementsLedger
<1>1. Init => Ledger!Init
  BY DEF Init, Stored, GrantOf, Ledger!Init
<1>2. QED
  BY <1>1, Invariance, SoloInductive, StepIsOneStep, PTL
     DEF Spec, ImplementsLedger, Ledger!Spec

\* With a single worker the alarm leaves its user no active token.
THEOREM SingleWorkerAlarm ==
  ASSUME OneWorker
  PROVE  Spec => AlarmEndsEverySession
<1> DEFINE Ends == \A w \in Worker :
                     AlarmCommits(w) =>
                       \A t \in Stored' :
                         refresh_tokens'[t].user_id = txn[w].user => IsUsed(t)'
<1>1. ASSUME Inv, SoloInv, [Next]_vars PROVE [Ends]_vars
  <2> SUFFICES ASSUME Next, NEW w \in Worker, AlarmCommits(w),
                      NEW t \in Stored',
                      refresh_tokens'[t].user_id = txn[w].user
               PROVE  IsUsed(t)'
    BY <1>1
  <2>1. Commit(w)
    <3>1. PICK v \in Worker : Start(v) \/ Serve(v) \/ Crash(v)
      BY DEF Next, Tick, AlarmCommits
    <3>2. v = w /\ txn[w].pc = "closing" /\ txn'[w].pc = "replying"
      BY DEF OneWorker, AlarmCommits
    <3>3. ~Crash(w)
      BY <1>1, <3>2 DEF Crash, Idle, Inv
    <3>4. QED
      BY <3>1, <3>2, <3>3, OnCircle
         DEF Start, StartSignIn, StartRefresh, StartLogout,
         StartLogoutAll, StartWithToken, Begin, Serve, LookUp, RotateUnknown,
         RotateReused, RotateExpired, RotateForeign, RotateAccept,
         LogoutNothing, LogoutAccept, Looking, Write, MarkUsed, RevokeAll,
         RevokeRow, RevokeDone, DeadlockAborts,
         IssueSession, IssueFails, Finish, Deliver, LoseResponse
  <2>2. EndsAll(txn[w])
    BY <1>1 DEF AlarmCommits, SoloInv, Solo
  <2>3. /\ t \in Stored
        /\ refresh_tokens[t].user_id = txn[w].user
        /\ refresh_tokens'[t].used_at
             = (refresh_tokens[t].used_at \/ t \in ActiveOf(txn[w].user))
    <3>1. txn[w].child = None /\ txn[w].marks = ActiveOf(txn[w].user)
      BY <2>2 DEF EndsAll
    <3>2. Stored' = Stored \cup ({txn[w].child} \ {None})
      BY <1>1, <2>1, CommitTable
    <3>3. t \in Stored
      BY <3>1, <3>2
    <3>4. /\ refresh_tokens'[t].user_id = refresh_tokens[t].user_id
          /\ refresh_tokens'[t].used_at
               = (refresh_tokens[t].used_at \/ t \in txn[w].marks)
      BY <1>1, <2>1, <3>3, CommitTable
    <3>5. QED
      BY <3>1, <3>3, <3>4
  <2>4. QED
    BY <2>3 DEF ActiveOf, IsUsed
<1>2. QED
  BY <1>1, Invariance, SoloInductive, PTL DEF Spec, AlarmEndsEverySession

(***************************************************************************)
(* How often a token is rotated with several workers.                      *)
(*                                                                         *)
(* Two rotations in flight may both succeed.  But once the token is used,  *)
(* no request that arrives can rotate it, and each that was in flight can  *)
(* once; so a token has at most as many successors as there are workers.   *)
(***************************************************************************)

Successors(p) == {t \in Stored : refresh_tokens[t].parent = p}

\* The request has not seen p used, and has not committed.
MayRotate(x, p) ==
  /\ x.op = "refresh" /\ x.presented = p
  /\ \/ x.pc = "lookup" /\ ~SeesUsed(x)
     \/ x.pc = "marking"
     \/ Inserting(x)

Rotators(p) == {w \in Worker : MayRotate(txn[w], p)}

\* At most one successor for each worker.
OneSuccessorPerWorker ==
  \A p \in Token : Cardinality(Successors(p)) <= Cardinality(Worker)

SuccessorInv ==
  \A p \in Token :
    /\ IsFiniteSet(Successors(p))
    /\ Cardinality(Successors(p)) + Cardinality(Rotators(p))
         <= Cardinality(Worker)

\* A request that has not committed comes to rotate a used token only if it
\* was about to before: arriving requests see that it is used.
LEMMA ActorKeeps ==
  ASSUME Inv, NEW w \in Worker,
         Start(w) \/ LookUp(w) \/ Write(w) \/ Deliver(w) \/ LoseResponse(w)
           \/ Crash(w),
         NEW p \in Token, IsUsed(p), MayRotate(txn[w], p)'
  PROVE  MayRotate(txn[w], p)
<1>1. PICK x : x = txn[w]
  OBVIOUS
<1>2. PICK y : y = txn'[w]
  OBVIOUS
<1>3. x \in Txn /\ SessionInv(x) /\ txn \in [Worker -> Txn]
  BY <1>1 DEF Inv, SessionInv
<1>4. refresh_tokens' = refresh_tokens
  BY DEF Start, StartSignIn, StartRefresh, StartLogout, StartLogoutAll,
     StartWithToken, Begin, LookUp, RotateUnknown, RotateReused,
     RotateExpired, RotateForeign, RotateAccept, LogoutNothing,
     LogoutAccept, Refuse, Advance, Write, MarkUsed, RevokeAll, RevokeRow,
     RevokeDone, DeadlockAborts,
     IssueSession, IssueFails, Crash, Deliver, LoseResponse
<1>5. MayRotate(y, p)
  BY <1>2, <1>4 DEF MayRotate, SeesUsed, IsUsed, Stored, Inserting
<1>6. CASE Start(w)
  <2>1. CASE StartSignIn(w) \/ StartLogout(w) \/ StartLogoutAll(w)
    <3>1. y.op # "refresh"
      BY <1>2, <1>3, <2>1 DEF StartSignIn, StartLogout, StartLogoutAll,
         StartWithToken, Begin, Idle
    <3>2. QED
      BY <1>5, <3>1 DEF MayRotate
  <2>2. CASE StartRefresh(w)
    <3>1. PICK c \in Client, t \in delivered \cup {None} :
            Begin(w, [Idle EXCEPT !.pc = "lookup", !.op = "refresh",
                                  !.client = c, !.presented = t,
                                  !.cached = CachedAtAuth(t, c),
                                  !.replay = IsUsed(t)])
      BY <2>2 DEF StartRefresh, StartWithToken
    <3>2. /\ y.pc = "lookup" /\ y.presented = t
          /\ y.cached = CachedAtAuth(t, c)
      BY <1>2, <1>3, <3>1 DEF Begin, Idle
    <3>3. t = p /\ ~SeesUsed(y)
      BY <1>5, <3>2 DEF MayRotate, Inserting
    <3>4. SeesUsed(y)
      BY <3>2, <3>3 DEF SeesUsed, CachedAtAuth, IsUsed
    <3>5. QED
      BY <3>3, <3>4
  <2>3. QED
    BY <1>6, <2>1, <2>2 DEF Start
<1>7. CASE LookUp(w)
  <2>1. x.pc = "lookup"
    BY <1>1, <1>7 DEF LookUp, RotateUnknown, RotateReused, RotateExpired,
       RotateForeign, RotateAccept, LogoutNothing, LogoutAccept, Looking
  <2>2. x.child = None
    BY <1>3, <2>1 DEF SessionInv, ChildFresh
  <2>3. ASSUME NEW verdict, Refuse(w, verdict) PROVE FALSE
    <3>1. y.pc = "closing" /\ y.child = None
      BY <1>1, <1>2, <1>3, <2>2, <2>3 DEF Refuse, Advance, Txn
    <3>2. QED
      BY <1>5, <3>1 DEF MayRotate, Inserting
  <2>4. CASE RotateReused(w)
    <3>1. y.pc = "revoking"
      BY <1>2, <1>3, <2>4 DEF RotateReused, Advance, Txn
    <3>2. QED
      BY <1>5, <3>1 DEF MayRotate, Inserting
  <2>5. CASE RotateAccept(w)
    <3>1. /\ ~SeesUsed(x) /\ x.op = "refresh"
          /\ y.presented = x.presented
      BY <1>1, <1>2, <1>3, <2>5 DEF RotateAccept, Looking, Advance, Txn
    <3>2. QED
      BY <1>1, <1>5, <2>1, <3>1 DEF MayRotate
  <2>6. CASE LogoutAccept(w)
    <3>1. y.op = "logout"
      BY <1>2, <1>3, <2>6 DEF LogoutAccept, Looking, Advance, Txn
    <3>2. QED
      BY <1>5, <3>1 DEF MayRotate
  <2>7. QED
    BY <1>7, <2>3, <2>4, <2>5, <2>6 DEF LookUp, RotateUnknown, RotateExpired,
       RotateForeign, LogoutNothing
<1>8. CASE Write(w)
  <2>1. CASE MarkUsed(w)
    <3>1. /\ x.pc = "marking"
          /\ txn' = [txn EXCEPT ![w] =
               [x EXCEPT !.marks = x.targets,
                         !.pc = IF x.op = "refresh" THEN "issuing"
                                                    ELSE "closing"]]
      BY <1>1, <2>1 DEF MarkUsed, Advance
    <3>2. y.op = x.op /\ y.presented = x.presented
      BY <1>2, <1>3, <3>1 DEF Txn
    <3>3. QED
      BY <1>1, <1>5, <3>1, <3>2 DEF MayRotate
  <2>2. CASE RevokeAll(w)
    <3>1. /\ x.pc = "revoking"
          /\ \/ \E m : Advance(w, [x EXCEPT !.marks = m])
             \/ Advance(w, [x EXCEPT !.pc = "closing"])
             \/ Advance(w, [x EXCEPT !.pc = "closing", !.verdict = "error",
                                     !.targets = {}, !.marks = {}])
      BY <1>1, <2>2, OnCircle DEF RevokeAll, RevokeRow, RevokeDone, DeadlockAborts
    <3>2. y.pc \in {"revoking", "closing"} /\ y.child = x.child
      <4>1. CASE \E m : Advance(w, [x EXCEPT !.marks = m])
        <5>1. PICK m : Advance(w, [x EXCEPT !.marks = m])
          BY <4>1
        <5>2. QED
          BY <1>2, <1>3, <3>1, <5>1 DEF Advance, Txn
      <4>2. CASE Advance(w, [x EXCEPT !.pc = "closing"])
        BY <1>2, <1>3, <4>2 DEF Advance, Txn
      <4>3. CASE Advance(w, [x EXCEPT !.pc = "closing", !.verdict = "error",
                                      !.targets = {}, !.marks = {}])
        BY <1>2, <1>3, <4>3 DEF Advance, Txn
      <4>4. QED
        BY <3>1, <4>1, <4>2, <4>3
    <3>3. x.child = None
      BY <1>3, <3>1 DEF SessionInv, ChildFresh
    <3>4. QED
      BY <1>5, <3>2, <3>3 DEF MayRotate, Inserting
  <2>3. CASE IssueSession(w)
    <3>1. PICK t, e : /\ x.pc = "issuing"
                      /\ txn' = [txn EXCEPT ![w] =
                           [x EXCEPT !.pc = "closing", !.verdict = "ok",
                                     !.child = t, !.expires = e]]
      BY <1>1, <2>3 DEF IssueSession, Advance
    <3>2. y.op = x.op /\ y.presented = x.presented
      BY <1>2, <1>3, <3>1 DEF Txn
    <3>3. QED
      BY <1>1, <1>5, <3>1, <3>2 DEF MayRotate, Inserting
  <2>4. CASE IssueFails(w)
    <3>1. /\ x.pc = "issuing"
          /\ txn' = [txn EXCEPT ![w] =
               [x EXCEPT !.pc = "closing", !.verdict = "error"]]
      BY <1>1, <2>4 DEF IssueFails, Refuse, Advance
    <3>2. y.pc = "closing" /\ y.child = x.child
      BY <1>2, <1>3, <3>1 DEF Txn
    <3>3. x.child = None
      BY <1>3, <3>1 DEF SessionInv, ChildFresh
    <3>4. QED
      BY <1>5, <3>2, <3>3 DEF MayRotate, Inserting
  <2>5. QED
    BY <1>8, <2>1, <2>2, <2>3, <2>4 DEF Write
<1>9. CASE Deliver(w) \/ LoseResponse(w) \/ Crash(w)
  <2>1. y.op = "none"
    BY <1>2, <1>3, <1>9 DEF Deliver, LoseResponse, Crash, Idle
  <2>2. QED
    BY <1>5, <2>1 DEF MayRotate
<1>10. QED
  BY <1>6, <1>7, <1>8, <1>9

\* Requests in flight are as many as there are workers at most.
LEMMA RotatorsFinite ==
  ASSUME IsFiniteSet(Worker), NEW F, F \subseteq Worker
  PROVE  /\ IsFiniteSet(F)
         /\ Cardinality(F) \in Nat /\ Cardinality(Worker) \in Nat
         /\ Cardinality(F) <= Cardinality(Worker)
BY FS_Subset, FS_CardinalityType

\* A COMMIT moves its request from those in flight to the successors, or
\* leaves the successors alone.
LEMMA CommitCounts ==
  ASSUME IsFiniteSet(Worker), Inv, SuccessorInv, NEW w \in Worker, Commit(w),
         NEW p \in Token
  PROVE  /\ IsFiniteSet(Successors(p)')
         /\ Cardinality(Successors(p)') + Cardinality(Rotators(p)')
              <= Cardinality(Worker)
<1>1. PICK x : x = txn[w]
  OBVIOUS
<1>2. /\ x \in Txn /\ SessionInv(x) /\ x.pc = "closing"
      /\ txn \in [Worker -> Txn]
      /\ txn' = [txn EXCEPT ![w] = [x EXCEPT !.pc = "replying", !.marks = {}]]
  BY <1>1 DEF Inv, SessionInv, Commit
<1>3. /\ x.child \notin Stored
      /\ Stored' = Stored \cup ({x.child} \ {None})
      /\ x.child # None => refresh_tokens'[x.child] = ChildRow(x)
      /\ \A t \in Stored :
           /\ refresh_tokens'[t].parent = refresh_tokens[t].parent
           /\ IsUsed(t) => IsUsed(t)'
  BY <1>1, CommitTable DEF IsUsed
<1>4. txn'[w].pc = "replying" /\ \A v \in Worker \ {w} : txn'[v] = txn[v]
  BY <1>2 DEF Txn
<1>5. Rotators(p)' \subseteq Rotators(p) \ {w}
  <2> SUFFICES ASSUME NEW v \in Worker, MayRotate(txn[v], p)'
               PROVE  v # w /\ MayRotate(txn[v], p)
    BY DEF Rotators
  <2>1. v # w
    BY <1>4 DEF MayRotate, Inserting
  <2>2. PICK y : y = txn[v]
    OBVIOUS
  <2>3. txn'[v] = y /\ SessionInv(y)
    BY <1>4, <2>1, <2>2 DEF Inv
  <2>4. IsUsed(y.presented) => IsUsed(y.presented)'
    BY <1>3 DEF IsUsed
  <2>5. SeesUsed(y) => SeesUsed(y)'
    BY <2>4 DEF SeesUsed
  <2>6. MayRotate(y, p)'
    BY <2>3 DEF MayRotate, SeesUsed, IsUsed, Stored, Inserting
  <2>7. MayRotate(y, p)
    BY <2>5, <2>6 DEF MayRotate, Inserting
  <2>8. QED
    BY <2>1, <2>2, <2>7
<1>6. /\ Rotators(p) \subseteq Worker
      /\ IsFiniteSet(Successors(p)) /\ Cardinality(Successors(p)) \in Nat
      /\ Cardinality(Successors(p)) + Cardinality(Rotators(p))
           <= Cardinality(Worker)
  BY FS_CardinalityType DEF SuccessorInv, Rotators
<1>7. /\ IsFiniteSet(Rotators(p)) /\ Cardinality(Rotators(p)) \in Nat
      /\ Cardinality(Worker) \in Nat
      /\ Cardinality(Rotators(p)') \in Nat
      /\ Cardinality(Rotators(p)') <= Cardinality(Rotators(p) \ {w})
  <2>1. IsFiniteSet(Rotators(p)) /\ IsFiniteSet(Rotators(p) \ {w})
    BY <1>6, RotatorsFinite, FS_RemoveElement
  <2>2. IsFiniteSet(Rotators(p)')
    BY <1>5, <2>1, FS_Subset
  <2>3. Cardinality(Rotators(p)') <= Cardinality(Rotators(p) \ {w})
    BY <1>5, <2>1, FS_Subset
  <2>4. QED
    BY <2>1, <2>2, <2>3, FS_CardinalityType
<1>8. CASE x.child # None /\ x.presented = p
  <2>1. Successors(p)' = Successors(p) \cup {x.child}
    <3>1. refresh_tokens'[x.child].parent = p
      BY <1>3, <1>8 DEF ChildRow
    <3>2. QED
      BY <1>3, <1>8, <3>1 DEF Successors
  <2>2. x.child \notin Successors(p)
    BY <1>3 DEF Successors
  <2>3. w \in Rotators(p)
    <3>1. x.op = "refresh" /\ Inserting(x)
      BY <1>2, <1>8, NoneAssumption DEF SessionInv, RotationBound, Inserting
    <3>2. QED
      BY <1>1, <1>8, <3>1 DEF Rotators, MayRotate
  <2>4. /\ IsFiniteSet(Successors(p)')
        /\ Cardinality(Successors(p)') = Cardinality(Successors(p)) + 1
    <3>1. PICK S : S = Successors(p)
      OBVIOUS
    <3>2. PICK c : c = x.child
      OBVIOUS
    <3>3. IsFiniteSet(S) /\ c \notin S
      BY <1>6, <2>2, <3>1, <3>2
    <3>4. /\ IsFiniteSet(S \cup {c})
          /\ Cardinality(S \cup {c}) = Cardinality(S) + 1
      BY <3>3, FS_AddElement
    <3>5. QED
      BY <2>1, <3>1, <3>2, <3>4
  <2>5. Cardinality(Rotators(p) \ {w}) = Cardinality(Rotators(p)) - 1
    BY <1>7, <2>3, FS_RemoveElement
  <2>6. QED
    BY <1>6, <1>7, <2>4, <2>5
<1>9. CASE ~(x.child # None /\ x.presented = p)
  <2>1. Successors(p)' = Successors(p)
    <3>1. x.child # None => refresh_tokens'[x.child].parent # p
      BY <1>3, <1>9 DEF ChildRow
    <3>2. QED
      BY <1>3, <3>1 DEF Successors
  <2>2. Cardinality(Rotators(p) \ {w}) <= Cardinality(Rotators(p))
          /\ Cardinality(Rotators(p) \ {w}) \in Nat
    <3>1. Rotators(p) \ {w} \subseteq Rotators(p)
      OBVIOUS
    <3>2. IsFiniteSet(Rotators(p))
      BY <1>7
    <3>3. /\ IsFiniteSet(Rotators(p) \ {w})
          /\ Cardinality(Rotators(p) \ {w}) <= Cardinality(Rotators(p))
      BY <3>1, <3>2, FS_Subset
    <3>4. QED
      BY <3>3, FS_CardinalityType
  <2>3. QED
    BY <1>6, <1>7, <2>1, <2>2
<1>10. QED
  BY <1>8, <1>9

\* Every other step leaves the table alone, and adds nobody to those who may
\* rotate a used token.  An unused one has no successor yet.
LEMMA OthersCount ==
  ASSUME IsFiniteSet(Worker), Inv, SuccessorInv, [Next]_vars,
         ~\E w \in Worker : Commit(w), NEW p \in Token
  PROVE  /\ IsFiniteSet(Successors(p)')
         /\ Cardinality(Successors(p)') + Cardinality(Rotators(p)')
              <= Cardinality(Worker)
<1>1. refresh_tokens' = refresh_tokens
  BY DEF Next, vars, Tick, Start, StartSignIn, StartRefresh, StartLogout,
     StartWithToken, StartLogoutAll, Begin, Serve, LookUp, RotateUnknown,
     RotateReused, RotateExpired, RotateForeign, RotateAccept, LogoutNothing,
     LogoutAccept, Refuse, Advance, Write, MarkUsed, RevokeAll, RevokeRow,
     RevokeDone, DeadlockAborts, IssueSession,
     IssueFails, Finish, Deliver, LoseResponse, Crash
<1>2. /\ Successors(p)' = Successors(p)
      /\ IsFiniteSet(Successors(p)) /\ Cardinality(Successors(p)) \in Nat
      /\ Cardinality(Successors(p)) + Cardinality(Rotators(p))
           <= Cardinality(Worker)
  <2>1. Successors(p)' = Successors(p)
    BY <1>1 DEF Successors, Stored
  <2>2. QED
    BY <2>1, FS_CardinalityType DEF SuccessorInv
<1>3. Rotators(p) \subseteq Worker /\ Rotators(p)' \subseteq Worker
  BY DEF Rotators
<1>4. CASE IsUsed(p)
  <2>1. Rotators(p)' \subseteq Rotators(p)
    <3> SUFFICES ASSUME NEW v \in Worker, MayRotate(txn[v], p)'
                 PROVE  MayRotate(txn[v], p)
      BY DEF Rotators
    <3>1. CASE txn'[v] = txn[v]
      BY <1>1, <3>1 DEF MayRotate, SeesUsed, IsUsed, Stored, Inserting
    <3>2. CASE txn'[v] # txn[v]
      <4>1. PICK u \in Worker :
              Start(u) \/ LookUp(u) \/ Write(u) \/ Deliver(u)
                \/ LoseResponse(u) \/ Crash(u)
        BY <3>2 DEF Next, vars, Tick, Serve, Finish
      <4>2. \A s \in Worker \ {u} : txn'[s] = txn[s]
        BY <4>1 DEF Inv, Start, StartSignIn, StartRefresh, StartLogout,
           StartWithToken, StartLogoutAll, Begin, LookUp, RotateUnknown,
           RotateReused, RotateExpired, RotateForeign, RotateAccept,
           LogoutNothing, LogoutAccept, Refuse, Advance, Write, MarkUsed,
           RevokeAll, RevokeRow, RevokeDone, DeadlockAborts, IssueSession,
           IssueFails, Deliver, LoseResponse, Crash
      <4>3. QED
        BY <1>4, <3>2, <4>1, <4>2, ActorKeeps
    <3>3. QED
      BY <3>1, <3>2
  <2>2. /\ Cardinality(Rotators(p)') <= Cardinality(Rotators(p))
        /\ Cardinality(Rotators(p)') \in Nat /\ Cardinality(Rotators(p)) \in Nat
        /\ Cardinality(Worker) \in Nat
    BY <1>3, <2>1, RotatorsFinite, FS_Subset
  <2>3. QED
    BY <1>2, <2>2
<1>5. CASE ~IsUsed(p)
  <2>1. Successors(p) = {}
    <3>1. p # None
      BY NoneAssumption
    <3>2. QED
      BY <1>5, <3>1 DEF Inv, TableInv, RotationLineage, Successors
  <2>2. Cardinality(Successors(p)') = 0
    BY <1>2, <2>1, FS_EmptySet
  <2>3. QED
    BY <1>2, <1>3, <2>2, RotatorsFinite
<1>6. QED
  BY <1>4, <1>5

\* With any finite number of workers, a token has at most as many successors.
THEOREM SuccessorsBounded ==
  ASSUME IsFiniteSet(Worker)
  PROVE  Spec => []OneSuccessorPerWorker
<1>1. Init => SuccessorInv
  <2> SUFFICES ASSUME Init, NEW p \in Token
               PROVE  /\ IsFiniteSet(Successors(p))
                      /\ Cardinality(Successors(p)) + Cardinality(Rotators(p))
                           <= Cardinality(Worker)
    BY DEF SuccessorInv
  <2>1. Successors(p) = {}
    BY DEF Init, Successors, Stored
  <2>2. Rotators(p) \subseteq Worker
    BY DEF Rotators
  <2>3. QED
    BY <2>1, <2>2, FS_EmptySet, RotatorsFinite
<1>2. Inv /\ SuccessorInv /\ [Next]_vars => SuccessorInv'
  <2> SUFFICES ASSUME Inv, SuccessorInv, [Next]_vars, NEW p \in Token
               PROVE  /\ IsFiniteSet(Successors(p)')
                      /\ Cardinality(Successors(p)') + Cardinality(Rotators(p)')
                           <= Cardinality(Worker)
    BY DEF SuccessorInv
  <2>1. CASE \E w \in Worker : Commit(w)
    BY <2>1, CommitCounts
  <2>2. CASE ~\E w \in Worker : Commit(w)
    BY <2>2, OthersCount
  <2>3. QED
    BY <2>1, <2>2
<1>3. SuccessorInv => OneSuccessorPerWorker
  <2> SUFFICES ASSUME SuccessorInv, NEW p \in Token
               PROVE  Cardinality(Successors(p)) <= Cardinality(Worker)
    BY DEF OneSuccessorPerWorker
  <2>1. Rotators(p) \subseteq Worker
    BY DEF Rotators
  <2>2. Cardinality(Rotators(p)) \in Nat /\ Cardinality(Worker) \in Nat
    BY <2>1, RotatorsFinite
  <2>3. Cardinality(Successors(p)) \in Nat
    BY FS_CardinalityType DEF SuccessorInv
  <2>4. QED
    BY <2>2, <2>3 DEF SuccessorInv
<1>4. QED
  BY <1>1, <1>2, <1>3, Invariance, PTL DEF Spec
=============================================================================
