---------------------------- MODULE RefreshTokens ----------------------------
(***************************************************************************)
(* The refresh_tokens table of Knuckles and every request that reads or    *)
(* writes it: the sign-in tail issue_session, POST /v1/token/refresh, POST *)
(* /v1/logout and POST /v1/logout/all.                                     *)
(*                                                                         *)
(* A gunicorn sync worker serves one request at a time, and a request is   *)
(* one READ COMMITTED transaction of the request-scoped SQLAlchemy         *)
(* session.  Each step of a request below is one statement the session     *)
(* sends, together with the Python that runs before the next one:          *)
(*                                                                         *)
(*   require_app_client -> lookup by hash -> UPDATE -> INSERT -> COMMIT    *)
(*                                                          -> response    *)
(*                                                                         *)
(* An UPDATE keeps its row locks until the transaction ends.               *)
(***************************************************************************)
EXTENDS Naturals

CONSTANTS
  User,      \* users.id
  Client,    \* app_clients.client_id
  Token,     \* refresh tokens; plaintext, hash and row share one identity
  Worker,    \* gunicorn sync workers (WEB_CONCURRENCY)
  None,      \* "no value"; as a presented token, a plaintext never issued
  TTL,       \* knuckles_refresh_token_ttl_seconds, in ticks
  MaxTime    \* bound on the clock

ASSUME NoneAssumption == None \notin Token \cup User \cup Client
ASSUME TimeAssumption == TTL \in Nat /\ MaxTime \in Nat

VARIABLES
  now,              \* the wall clock
  refresh_tokens,   \* committed rows; its DOMAIN is the set of row ids
  txn,              \* the request each worker is serving
  delivered         \* tokens some consuming app received in a response

vars == <<now, refresh_tokens, txn, delivered>>

-----------------------------------------------------------------------------
(* State shapes *)

\* A row.  used_at is only ever compared with NULL, so it is a flag; parent
\* is history: the token whose rotation issued this one.
Row == [user_id : User, app_client_id : Client, expires_at : Nat,
        used_at : BOOLEAN, parent : Token \cup {None}]

Op == {"none", "sign_in", "refresh", "logout", "logout_all"}

Verdict == {"none", "ok", "invalid", "reused", "expired",
            "invalid_client", "error"}

\* The session of a worker.  cached is what the identity map holds for the
\* presented token once the app client is loaded; targets are the rows its
\* UPDATE is to write and marks the ones it wrote (and has locked); child is
\* the row it inserted.  replay is history: the presented token was already
\* used when the request arrived.
Txn == [pc : {"idle", "lookup", "marking", "revoking", "issuing",
              "closing", "replying"},
        op : Op, client : Client \cup {None}, user : User \cup {None},
        presented : Token \cup {None},
        cached : {"absent", "unused", "used"}, replay : BOOLEAN,
        targets : SUBSET Token, marks : SUBSET Token,
        child : Token \cup {None}, expires : Nat, verdict : Verdict]

Idle == [pc |-> "idle", op |-> "none", client |-> None, user |-> None,
         presented |-> None, cached |-> "absent", replay |-> FALSE,
         targets |-> {}, marks |-> {}, child |-> None, expires |-> 0,
         verdict |-> "none"]

Init ==
  /\ now = 0
  /\ refresh_tokens = [t \in {} |-> None]
  /\ txn = [w \in Worker |-> Idle]
  /\ delivered = {}

-----------------------------------------------------------------------------
(* What the handlers read *)

Stored == DOMAIN refresh_tokens

IsUsed(t) == t \in Stored /\ refresh_tokens[t].used_at

ActiveOf(u) ==
  {t \in Stored : refresh_tokens[t].user_id = u /\ ~refresh_tokens[t].used_at}

\* AppClient.refresh_tokens is loaded eagerly with the client, so the tokens
\* of the calling client enter the identity map when it authenticates.
CachedAtAuth(t, c) ==
  IF t \in Stored /\ refresh_tokens[t].app_client_id = c
    THEN IF refresh_tokens[t].used_at THEN "used" ELSE "unused"
    ELSE "absent"

\* (Here and below, a definition that comes right before the one it resembles,
\* and is used nowhere, is that definition with a fault; the properties are
\* shown to notice it.)

\* row.used_at after the lookup by hash: a SELECT does not overwrite the
\* attributes of an instance the identity map already holds.
SeesUsedNever(x) == FALSE
SeesUsed(x) ==
  IF x.cached = "absent" THEN IsUsed(x.presented) ELSE x.cached = "used"

OwnedByAnyone(x) == TRUE
OwnedByCaller(x) == refresh_tokens[x.presented].app_client_id = x.client

HasExpired(t) == refresh_tokens[t].expires_at <= now

\* revoke_refresh_token marks the row only past its two early returns.
LogoutAppliesElsewhere(x) ==
  x.presented \in Stored /\ ~OwnedByCaller(x) /\ ~SeesUsed(x)
LogoutApplies(x) ==
  x.presented \in Stored /\ OwnedByCaller(x) /\ ~SeesUsed(x)

\* Another open transaction has written, and so locked, a row of S.
LockedByIntent(w, S) ==
  \E v \in Worker \ {w} : txn[v].pc # "replying" /\ txn[v].targets \cap S # {}
Locked(w, S) == \E v \in Worker \ {w} : txn[v].marks \cap S # {}

\* The next row of the revocation of w may be one that v has locked.  (A marking
\* request waits as well, but holds no lock that another could wait for.)
WaitsFor(w, v) ==
  /\ txn[w].pc = "revoking"
  /\ v # w /\ txn[v].marks \cap (txn[w].targets \ txn[w].marks) # {}

\* w is on a circle of requests that wait for each other.
Deadlocked(w) ==
  \E S \in SUBSET Worker :
    /\ w \in S
    /\ \E next \in [S -> S] :
         /\ \A u \in S : WaitsFor(u, next[u])
         /\ \A u, v \in S : next[u] = next[v] => u = v

-----------------------------------------------------------------------------
(* Requests arriving *)

Begin(w, request) ==
  /\ txn[w].pc = "idle"
  /\ txn' = [txn EXCEPT ![w] = request]
  /\ UNCHANGED <<now, refresh_tokens, delivered>>

\* Every sign-in ceremony ends in issue_session for the user it established.
StartSignIn(w) ==
  \E u \in User, c \in Client :
    Begin(w, [Idle EXCEPT !.pc = "issuing", !.op = "sign_in",
                          !.user = u, !.client = c])

\* POST /token/refresh and POST /logout: the caller authenticates as c and
\* presents a token it once received, or one that was never issued.
StartWithToken(w, op) ==
  \E c \in Client, t \in delivered \cup {None} :
    Begin(w, [Idle EXCEPT !.pc = "lookup", !.op = op, !.client = c,
                          !.presented = t, !.cached = CachedAtAuth(t, c),
                          !.replay = IsUsed(t)])

StartRefresh(w) == StartWithToken(w, "refresh")
StartLogout(w) == StartWithToken(w, "logout")

\* POST /logout/all needs an access token, which a client has from the
\* response that carried a refresh token.  The UPDATE takes its snapshot.
StartLogoutAll(w) ==
  \E u \in {refresh_tokens[t].user_id : t \in delivered}, c \in Client :
    Begin(w, [Idle EXCEPT !.pc = "revoking", !.op = "logout_all",
                          !.user = u, !.client = c, !.targets = ActiveOf(u),
                          !.verdict = "ok"])

-----------------------------------------------------------------------------
(* rotate_refresh_token and revoke_refresh_token up to their first write *)

Advance(w, x) ==
  /\ txn' = [txn EXCEPT ![w] = x]
  /\ UNCHANGED <<now, refresh_tokens, delivered>>

Refuse(w, verdict) ==
  Advance(w, [txn[w] EXCEPT !.pc = "closing", !.verdict = verdict])

Looking(w, op) == txn[w].pc = "lookup" /\ txn[w].op = op

RotateUnknown(w) ==
  /\ Looking(w, "refresh")
  /\ txn[w].presented \notin Stored
  /\ Refuse(w, "invalid")

\* Reuse: the UPDATE of revoke_all_refresh_tokens_for_user sees the rows
\* that are committed and active now.  The check precedes the expiry and the
\* client checks.
RotateReused(w) ==
  LET x == txn[w]
      u == refresh_tokens[x.presented].user_id
  IN /\ Looking(w, "refresh")
     /\ x.presented \in Stored
     /\ SeesUsed(x)
     /\ Advance(w, [x EXCEPT !.pc = "revoking", !.verdict = "reused",
                             !.user = u, !.targets = ActiveOf(u)])

RotateExpired(w) ==
  /\ Looking(w, "refresh")
  /\ txn[w].presented \in Stored
  /\ ~SeesUsed(txn[w])
  /\ HasExpired(txn[w].presented)
  /\ Refuse(w, "expired")

RotateForeign(w) ==
  /\ Looking(w, "refresh")
  /\ txn[w].presented \in Stored
  /\ ~SeesUsed(txn[w])
  /\ ~HasExpired(txn[w].presented)
  /\ ~OwnedByCaller(txn[w])
  /\ Refuse(w, "invalid_client")

RotateAccept(w) ==
  LET x == txn[w]
  IN /\ Looking(w, "refresh")
     /\ x.presented \in Stored
     /\ ~SeesUsed(x)
     /\ ~HasExpired(x.presented)
     /\ OwnedByCaller(x)
     /\ Advance(w, [x EXCEPT !.pc = "marking", !.targets = {x.presented},
                             !.user = refresh_tokens[x.presented].user_id])

LogoutNothing(w) ==
  /\ Looking(w, "logout")
  /\ ~LogoutApplies(txn[w])
  /\ Refuse(w, "ok")

LogoutAccept(w) ==
  /\ Looking(w, "logout")
  /\ LogoutApplies(txn[w])
  /\ Advance(w, [txn[w] EXCEPT !.pc = "marking", !.verdict = "ok",
                               !.targets = {txn[w].presented}])

-----------------------------------------------------------------------------
(* Writes *)

\* mark_refresh_token_used: UPDATE ... WHERE id = :id.  It waits for the row
\* lock and then writes used_at whatever the row holds by then.
MarkUsed(w) ==
  LET x == txn[w]
  IN /\ x.pc = "marking"
     /\ ~Locked(w, x.targets)
     /\ Advance(w, [x EXCEPT !.marks = x.targets,
                             !.pc = IF x.op = "refresh" THEN "issuing"
                                                        ELSE "closing"])

\* revoke_all_refresh_tokens_for_user: UPDATE ... WHERE used_at IS NULL.  The
\* rows are the ones its snapshot saw.  PostgreSQL locks them one at a time, in
\* no fixed order, and keeps what it has while it waits for the next.  A row
\* that is used by then is locked all the same, and stays used.
RevokeRow(w) ==
  LET x == txn[w]
  IN /\ x.pc = "revoking"
     /\ \E t \in x.targets \ x.marks :
          /\ ~Locked(w, {t})
          /\ Advance(w, [x EXCEPT !.marks = @ \cup {t}])

RevokeDone(w) ==
  /\ txn[w].pc = "revoking"
  /\ txn[w].targets \subseteq txn[w].marks
  /\ Advance(w, [txn[w] EXCEPT !.pc = "closing"])

\* Mass revocations may wait for each other's rows in a circle.  After its
\* deadlock_timeout PostgreSQL aborts one of them: what it wrote is undone, its
\* locks are free, and the exception is turned into a 500 response.
DeadlockAborts(w) ==
  /\ Deadlocked(w)
  /\ Advance(w, [txn[w] EXCEPT !.pc = "closing", !.verdict = "error",
                               !.targets = {}, !.marks = {}])

\* issue_session: mint the access token, then INSERT the refresh-token row.
IssueSession(w) ==
  LET x == txn[w]
  IN /\ x.pc = "issuing"
     /\ \E t \in Token \ Stored :
          /\ \A v \in Worker : txn[v].child # t
          /\ Advance(w, [x EXCEPT !.pc = "closing", !.verdict = "ok",
                                  !.child = t, !.expires = now + TTL])

\* issue_access_token raises (an unusable signing key): no row is inserted,
\* and the exception is turned into a 500 response.
IssueFails(w) ==
  /\ txn[w].pc = "issuing"
  /\ Refuse(w, "error")

-----------------------------------------------------------------------------
(* End of a request *)

\* The rows _teardown_session commits.  Every exception has been turned into
\* a response by an error handler, so the teardown sees none and commits what
\* was flushed, whatever the verdict.
FlushedUnlessRaised(x) == IF x.verdict = "ok" THEN x.marks ELSE {}
Flushed(x) == x.marks

ChildRow(x) ==
  [user_id |-> x.user, app_client_id |-> x.client, expires_at |-> x.expires,
   used_at |-> FALSE, parent |-> x.presented]

\* The table once the transaction x has committed.
TableAfterAlwaysInsert(x) ==
  [t \in Stored \cup {x.child} |->
     IF t = x.child THEN ChildRow(x)
     ELSE [refresh_tokens[t] EXCEPT !.used_at = @ \/ t \in Flushed(x)]]
TableAfterOverwrite(x) ==
  [t \in Stored \cup ({x.child} \ {None}) |->
     IF t = x.child THEN ChildRow(x)
     ELSE IF t = x.presented
       THEN [refresh_tokens[t] EXCEPT !.used_at = t \in Flushed(x)]
       ELSE [refresh_tokens[t] EXCEPT !.used_at = @ \/ t \in Flushed(x)]]
TableAfter(x) ==
  [t \in Stored \cup ({x.child} \ {None}) |->
     IF t = x.child THEN ChildRow(x)
     ELSE [refresh_tokens[t] EXCEPT !.used_at = @ \/ t \in Flushed(x)]]

\* session.commit(), before the first byte of the body is sent.
Commit(w) ==
  LET x == txn[w]
  IN /\ x.pc = "closing"
     /\ refresh_tokens' = TableAfter(x)
     /\ txn' = [txn EXCEPT ![w] = [x EXCEPT !.pc = "replying", !.marks = {}]]
     /\ UNCHANGED <<now, delivered>>

\* The response reaches the consuming app.
DeliverEarly(w) ==
  /\ txn[w].pc \in {"closing", "replying"}
  /\ txn' = [txn EXCEPT ![w] = Idle]
  /\ delivered' = delivered \cup ({txn[w].child} \ {None})
  /\ UNCHANGED <<now, refresh_tokens>>
Deliver(w) ==
  /\ txn[w].pc = "replying"
  /\ txn' = [txn EXCEPT ![w] = Idle]
  /\ delivered' = delivered \cup ({txn[w].child} \ {None})
  /\ UNCHANGED <<now, refresh_tokens>>

\* The response is lost: the app times out, or the worker dies after COMMIT.
LoseResponse(w) ==
  /\ txn[w].pc = "replying"
  /\ txn' = [txn EXCEPT ![w] = Idle]
  /\ UNCHANGED <<now, refresh_tokens, delivered>>

\* The worker dies, is killed by the gunicorn timeout, or loses the database
\* before COMMIT: PostgreSQL rolls the transaction back.
Crash(w) ==
  /\ txn[w].pc \notin {"idle", "replying"}
  /\ txn' = [txn EXCEPT ![w] = Idle]
  /\ UNCHANGED <<now, refresh_tokens, delivered>>

Tick ==
  /\ now < MaxTime
  /\ now' = now + 1
  /\ UNCHANGED <<refresh_tokens, txn, delivered>>

-----------------------------------------------------------------------------
Start(w) ==
  StartSignIn(w) \/ StartRefresh(w) \/ StartLogout(w) \/ StartLogoutAll(w)

LookUp(w) ==
  \/ RotateUnknown(w) \/ RotateReused(w) \/ RotateExpired(w)
  \/ RotateForeign(w) \/ RotateAccept(w)
  \/ LogoutNothing(w) \/ LogoutAccept(w)

RevokeAll(w) == RevokeRow(w) \/ RevokeDone(w) \/ DeadlockAborts(w)

Write(w) == MarkUsed(w) \/ RevokeAll(w) \/ IssueSession(w) \/ IssueFails(w)

Finish(w) == Commit(w) \/ Deliver(w) \/ LoseResponse(w)

Serve(w) == LookUp(w) \/ Write(w) \/ Finish(w)

Next == Tick \/ \E w \in Worker : Start(w) \/ Serve(w) \/ Crash(w)

Spec == Init /\ [][Next]_vars

\* A worker runs its request to the end, the deadlock detector included, and
\* PostgreSQL grants a row lock in the order of the queue, so a waiter is not
\* passed over forever.
Fairness ==
  \A w \in Worker : WF_vars(Serve(w)) /\ SF_vars(MarkUsed(w) \/ RevokeRow(w))

FairSpec == Spec /\ Fairness

-----------------------------------------------------------------------------
(* Properties *)

\* Every variable keeps its shape.
TypeOK ==
  /\ now \in Nat
  /\ Stored \subseteq Token
  /\ refresh_tokens \in [Stored -> Row]
  /\ txn \in [Worker -> Txn]
  /\ delivered \subseteq Token

\* The mark and the INSERT of a rotation commit together or not at all, for
\* the user and the client of the presented token: a token that came out of a
\* rotation has a stored, used parent of the same user and client.
RotationLineage ==
  \A t \in Stored :
    LET p == refresh_tokens[t].parent
    IN p # None =>
         /\ IsUsed(p)
         /\ refresh_tokens[p].user_id = refresh_tokens[t].user_id
         /\ refresh_tokens[p].app_client_id = refresh_tokens[t].app_client_id

\* COMMIT precedes the response, so a token a client holds is one the server
\* knows, and never answers REFRESH_TOKEN_INVALID for.
DeliveredIsStored ==
  /\ delivered \subseteq Stored
  /\ \A w \in Worker :
       txn[w].verdict = "invalid" => txn[w].presented \notin delivered

\* A refresh that arrives after the token was consumed never obtains a new
\* pair, whatever other requests are in flight: it is answered
\* REFRESH_TOKEN_REUSED, or 500 when its revocation lost a deadlock.
ReplayNeverRotates ==
  \A w \in Worker :
    txn[w].op = "refresh" /\ txn[w].replay =>
      /\ txn[w].child = None
      /\ txn[w].pc \in {"closing", "replying"} =>
           txn[w].verdict \in {"reused", "error"}

\* Once REFRESH_TOKEN_REUSED or the count of /logout/all can be seen, every
\* row that was active when the request looked is used for good: the AppError
\* of the alarm must not roll its own revocation back.
RevokedBeforeReply ==
  \A w \in Worker :
    LET x == txn[w]
    IN x.pc = "replying"
         /\ (x.verdict = "reused" \/ (x.op = "logout_all" /\ x.verdict = "ok")) =>
         \A t \in x.targets : IsUsed(t)

\* Once /logout has answered, the client's own token is used: a refresh that
\* arrives from then on is a replay.  (A rotation that is past its check by then
\* still marks the token, again, and commits a successor.)
LogoutSticks ==
  \A w \in Worker :
    LET x == txn[w]
    IN x.pc = "replying" /\ x.op = "logout" /\ x.presented \in Stored
         /\ OwnedByCaller(x) => IsUsed(x.presented)

\* Rows are never removed or rewritten, except that used_at is set; it is
\* never cleared, not even by a transaction that holds an older copy.
RowsOnlyConsumed ==
  [][\A t \in Stored :
       /\ t \in Stored'
       /\ refresh_tokens'[t] =
            [refresh_tokens[t] EXCEPT !.used_at = refresh_tokens'[t].used_at]
       /\ IsUsed(t) => IsUsed(t)']_vars

\* Refresh tokens are one-shot: no token is rotated twice.
OneShot ==
  \A s, t \in Stored :
    refresh_tokens[s].parent = refresh_tokens[t].parent
      /\ refresh_tokens[s].parent # None => s = t

\* When a reuse alarm commits, no refresh token of the user is active.
AlarmCommits(w) ==
  txn[w].pc = "closing" /\ txn[w].verdict = "reused"
    /\ txn'[w].pc = "replying"
AlarmEndsEverySession ==
  [][\A w \in Worker :
       AlarmCommits(w) =>
         \A t \in Stored' :
           refresh_tokens'[t].user_id = txn[w].user => IsUsed(t)']_vars

\* Every request ends: the ones that wait for a row that others keep locking,
\* and the mass revocations that wait for each other.
RequestsEnd == \A w \in Worker : txn[w].pc # "idle" ~> txn[w].pc = "idle"
=============================================================================
