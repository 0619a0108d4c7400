------------------------------ MODULE MagicLink ------------------------------
(***************************************************************************)
(* Magic-link sign-in: POST /v1/auth/magic-link/start mints a link and     *)
(* mails it, POST /v1/auth/magic-link/verify redeems it, creating the user *)
(* on first sight of the address, and scripts/cleanup_magic_links.py       *)
(* deletes old rows.  Requests are READ COMMITTED transactions of a worker *)
(* each, one step per SQL statement or outgoing mail.  The session a       *)
(* redemption issues is a refresh token of RefreshTokens, here a flag.     *)
(*                                                                         *)
(* A definition right before the one whose name its own extends is that    *)
(* definition with a fault, for testing the properties.                    *)
(***************************************************************************)
EXTENDS Naturals

CONSTANTS
  Email,     \* addresses
  User,      \* users.id
  Link,      \* magic links; plaintext, hash and row share one identity
  Worker,    \* gunicorn sync workers
  None,      \* "no value"; as a presented link, a plaintext never minted
  TTL,       \* magic_link_ttl_seconds, in ticks
  GRACE,     \* --older-than-hours of the cleanup script, in ticks
  MaxTime    \* bound on the clock

ASSUME NoneAssumption == None \notin Email \cup User \cup Link
ASSUME TimeAssumption == TTL \in Nat /\ GRACE \in Nat /\ MaxTime \in Nat

VARIABLES
  now,                  \* the wall clock
  magic_link_tokens,    \* committed rows
  users,                \* committed rows: the email of each user
  mailed,               \* links the mail provider accepted
  txn                   \* the request each worker is serving

vars == <<now, magic_link_tokens, users, mailed, txn>>

-----------------------------------------------------------------------------
LinkRow == [email : Email, expires_at : Nat, used_at : BOOLEAN,
            user_id : User \cup {None}]

\* The session of a worker.  new_user: it inserted the row of user.  marked:
\* it wrote used_at and user_id of its link.  inserted: it inserted its link.
\* replay is history: the presented link was used when the request arrived.
Txn == [pc : {"idle", "sending", "lookup", "finding", "creating", "marking",
              "issuing", "closing", "replying"},
        op : {"none", "start", "verify"},
        email : Email \cup {None}, link : Link \cup {None}, expires : Nat,
        user : User \cup {None}, new_user : BOOLEAN, inserted : BOOLEAN,
        marked : BOOLEAN, session : BOOLEAN, replay : BOOLEAN,
        verdict : {"none", "ok", "invalid", "used", "expired", "conflict",
                   "error"}]

Idle == [pc |-> "idle", op |-> "none", email |-> None, link |-> None,
         expires |-> 0, user |-> None, new_user |-> FALSE, inserted |-> FALSE,
         marked |-> FALSE, session |-> FALSE, replay |-> FALSE,
         verdict |-> "none"]

Stored == DOMAIN magic_link_tokens
IsUsed(l) == l \in Stored /\ magic_link_tokens[l].used_at
HasExpired(l) == magic_link_tokens[l].expires_at <= now
KnownEmails == {users[u] : u \in DOMAIN users}

Init ==
  /\ now = 0
  /\ magic_link_tokens = [l \in {} |-> None]
  /\ users = [u \in {} |-> None]
  /\ mailed = {}
  /\ txn = [w \in Worker |-> Idle]

Advance(w, x) ==
  /\ txn' = [txn EXCEPT ![w] = x]
  /\ UNCHANGED <<now, magic_link_tokens, users>>

Open(w, op, pc) == txn[w].op = op /\ txn[w].pc = pc

Refuse(w, verdict) ==
  /\ Advance(w, [txn[w] EXCEPT !.pc = "closing", !.verdict = verdict])
  /\ UNCHANGED mailed

\* A flush failed: PostgreSQL has aborted the transaction, the COMMIT of the
\* teardown raises, and the response is a 500.
Abort(w, verdict) ==
  /\ Advance(w, [txn[w] EXCEPT !.pc = "replying", !.verdict = verdict,
                               !.new_user = FALSE, !.marked = FALSE])
  /\ UNCHANGED mailed

-----------------------------------------------------------------------------
(* start_magic_link *)

\* A random plaintext is never minted twice.
Fresh(l) ==
  /\ l \notin Stored \cup mailed
  /\ \A w \in Worker : txn[w].link # l

\* create_magic_link_token: INSERT, not yet committed.
StartLink(w) ==
  /\ txn[w].pc = "idle"
  /\ \E e \in Email, l \in Link :
       /\ Fresh(l)
       /\ Advance(w, [Idle EXCEPT !.pc = "sending", !.op = "start",
                                  !.email = e, !.link = l, !.inserted = TRUE,
                                  !.expires = now + TTL])
  /\ UNCHANGED mailed

\* The provider accepts the mail while the row is still uncommitted.
SendMail(w) ==
  /\ Open(w, "start", "sending")
  /\ Advance(w, [txn[w] EXCEPT !.pc = "closing", !.verdict = "ok"])
  /\ mailed' = mailed \cup {txn[w].link}

\* The provider refuses, or cannot be reached: the row is committed all the
\* same, because the error handler answers and the teardown commits.
SendFails(w) ==
  /\ Open(w, "start", "sending")
  /\ Refuse(w, "error")

-----------------------------------------------------------------------------
(* verify_magic_link *)

StartVerify(w) ==
  /\ txn[w].pc = "idle"
  /\ \E l \in mailed \cup {None} :
       Advance(w, [Idle EXCEPT !.pc = "lookup", !.op = "verify", !.link = l,
                               !.replay = IsUsed(l)])
  /\ UNCHANGED mailed

VerifyUnknown(w) ==
  /\ Open(w, "verify", "lookup")
  /\ txn[w].link \notin Stored
  /\ Refuse(w, "invalid")

AlreadyUsedNever(l) == FALSE
AlreadyUsed(l) == magic_link_tokens[l].used_at

VerifyUsed(w) ==
  /\ Open(w, "verify", "lookup")
  /\ txn[w].link \in Stored
  /\ AlreadyUsed(txn[w].link)
  /\ Refuse(w, "used")

VerifyExpired(w) ==
  /\ Open(w, "verify", "lookup")
  /\ txn[w].link \in Stored
  /\ ~AlreadyUsed(txn[w].link)
  /\ HasExpired(txn[w].link)
  /\ Refuse(w, "expired")

VerifyAccept(w) ==
  /\ Open(w, "verify", "lookup")
  /\ txn[w].link \in Stored
  /\ ~AlreadyUsed(txn[w].link)
  /\ ~HasExpired(txn[w].link)
  /\ Advance(w, [txn[w] EXCEPT
                   !.pc = "finding",
                   !.email = magic_link_tokens[txn[w].link].email])
  /\ UNCHANGED mailed

\* get_user_by_email
FindUser(w) ==
  /\ Open(w, "verify", "finding")
  /\ \/ /\ txn[w].email \notin KnownEmails
        /\ Advance(w, [txn[w] EXCEPT !.pc = "creating"])
     \/ \E u \in DOMAIN users :
          /\ users[u] = txn[w].email
          /\ Advance(w, [txn[w] EXCEPT !.pc = "marking", !.user = u])
  /\ UNCHANGED mailed

\* Another open transaction has inserted a user with the same email: the
\* unique index of users.email makes this INSERT wait for its outcome.
InsertWaitsForFinders(w) ==
  \E v \in Worker \ {w} :
    txn[v].email = txn[w].email /\ txn[v].op = "verify"
      /\ txn[v].pc \in {"creating", "marking", "issuing", "closing"}
InsertWaits(w) ==
  \E v \in Worker \ {w} : txn[v].new_user /\ txn[v].email = txn[w].email

\* create_user
TakenNever(w) == FALSE
Taken(w) == txn[w].email \in KnownEmails

CreateUser(w) ==
  /\ Open(w, "verify", "creating")
  /\ ~InsertWaits(w)
  /\ ~Taken(w)
  /\ \E u \in User \ DOMAIN users :
       /\ \A v \in Worker : txn[v].user # u
       /\ Advance(w, [txn[w] EXCEPT !.pc = "marking", !.user = u,
                                    !.new_user = TRUE])
  /\ UNCHANGED mailed

\* IntegrityError: the user was created since get_user_by_email.
CreateUserConflicts(w) ==
  /\ Open(w, "verify", "creating")
  /\ ~InsertWaits(w)
  /\ Taken(w)
  /\ Abort(w, "conflict")

RowLocked(w) ==
  \E v \in Worker \ {w} : txn[v].marked /\ txn[v].link = txn[w].link

\* mark_magic_link_used: UPDATE ... WHERE id = :id, whatever used_at holds.
MarkLink(w) ==
  /\ Open(w, "verify", "marking")
  /\ ~RowLocked(w)
  /\ txn[w].link \in Stored
  /\ Advance(w, [txn[w] EXCEPT !.pc = "issuing", !.marked = TRUE])
  /\ UNCHANGED mailed

\* StaleDataError: the row was cleaned up, the UPDATE matched none.
MarkLinkGone(w) ==
  /\ Open(w, "verify", "marking")
  /\ ~RowLocked(w)
  /\ txn[w].link \notin Stored
  /\ Abort(w, "error")

IssueSession(w) ==
  /\ Open(w, "verify", "issuing")
  /\ Advance(w, [txn[w] EXCEPT !.pc = "closing", !.verdict = "ok",
                               !.session = TRUE])
  /\ UNCHANGED mailed

\* issue_access_token raises; the teardown still commits the mark.
IssueFails(w) ==
  /\ Open(w, "verify", "issuing")
  /\ Refuse(w, "error")

-----------------------------------------------------------------------------
(* Ends of requests, the cleanup script, time *)

\* Rows of the two tables once the transaction x has committed.
LinksAfterForgettingUser(x) ==
  [l \in Stored \cup {m \in {x.link} : x.inserted} |->
     IF l = x.link /\ x.inserted
       THEN [email |-> x.email, expires_at |-> x.expires, used_at |-> FALSE,
             user_id |-> None]
     ELSE IF l = x.link /\ x.marked
       THEN [magic_link_tokens[l] EXCEPT !.used_at = TRUE]
       ELSE magic_link_tokens[l]]
LinksAfter(x) ==
  [l \in Stored \cup {m \in {x.link} : x.inserted} |->
     IF l = x.link /\ x.inserted
       THEN [email |-> x.email, expires_at |-> x.expires, used_at |-> FALSE,
             user_id |-> None]
     ELSE IF l = x.link /\ x.marked
       THEN [magic_link_tokens[l] EXCEPT !.used_at = TRUE, !.user_id = x.user]
       ELSE magic_link_tokens[l]]

UsersAfterAlways(x) ==
  [u \in DOMAIN users \cup {x.user} |-> IF u = x.user THEN x.email ELSE users[u]]
UsersAfter(x) ==
  [u \in DOMAIN users \cup {v \in {x.user} : x.new_user} |->
     IF u = x.user /\ x.new_user THEN x.email ELSE users[u]]

CommitReplyFirst(w) ==
  /\ txn[w].pc = "closing"
  /\ txn' = [txn EXCEPT ![w].pc = "replying"]
  /\ UNCHANGED <<now, magic_link_tokens, users, mailed>>
Commit(w) ==
  LET x == txn[w]
  IN /\ x.pc = "closing"
     /\ magic_link_tokens' = LinksAfter(x)
     /\ users' = UsersAfter(x)
     /\ txn' = [txn EXCEPT ![w] = [x EXCEPT !.pc = "replying",
                                            !.new_user = FALSE,
                                            !.marked = FALSE]]
     /\ UNCHANGED <<now, mailed>>

Reply(w) ==
  /\ txn[w].pc = "replying"
  /\ Advance(w, Idle)
  /\ UNCHANGED mailed

\* The worker dies before COMMIT; a mail that was sent stays sent.
Crash(w) ==
  /\ txn[w].pc \notin {"idle", "replying"}
  /\ Advance(w, Idle)
  /\ UNCHANGED mailed

\* delete_expired_magic_links, run and committed by the cleanup script.  The
\* DELETE waits for a request that has marked one of its rows.
OldEnoughReversed(l) == now < magic_link_tokens[l].expires_at + GRACE
OldEnough(l) == magic_link_tokens[l].expires_at + GRACE < now

Cleanup ==
  LET old == {l \in Stored : OldEnough(l)}
  IN /\ old # {}
     /\ \A w \in Worker : ~(txn[w].marked /\ txn[w].link \in old)
     /\ magic_link_tokens' = [l \in Stored \ old |-> magic_link_tokens[l]]
     /\ UNCHANGED <<now, users, mailed, txn>>

Tick ==
  /\ now < MaxTime
  /\ now' = now + 1
  /\ UNCHANGED <<magic_link_tokens, users, mailed, txn>>

-----------------------------------------------------------------------------
Serve(w) ==
  \/ SendMail(w) \/ SendFails(w)
  \/ VerifyUnknown(w) \/ VerifyUsed(w) \/ VerifyExpired(w) \/ VerifyAccept(w)
  \/ FindUser(w) \/ CreateUser(w) \/ CreateUserConflicts(w)
  \/ MarkLink(w) \/ MarkLinkGone(w) \/ IssueSession(w) \/ IssueFails(w)
  \/ Commit(w) \/ Reply(w)

Next ==
  \/ Tick \/ Cleanup
  \/ \E w \in Worker : StartLink(w) \/ StartVerify(w) \/ Serve(w) \/ Crash(w)

Spec == Init /\ [][Next]_vars

\* Workers run their requests; PostgreSQL does not pass a waiter over forever.
Fairness ==
  \A w \in Worker :
    WF_vars(Serve(w)) /\ SF_vars(CreateUser(w) \/ CreateUserConflicts(w))
      /\ SF_vars(MarkLink(w) \/ MarkLinkGone(w))

FairSpec == Spec /\ Fairness

-----------------------------------------------------------------------------
(* Properties *)

\* Every variable keeps its shape.
TypeOK ==
  /\ now \in Nat
  /\ Stored \subseteq Link /\ magic_link_tokens \in [Stored -> LinkRow]
  /\ DOMAIN users \subseteq User /\ users \in [DOMAIN users -> Email]
  /\ mailed \subseteq Link
  /\ txn \in [Worker -> Txn]

\* A verify that arrives after the link was redeemed yields no session.
ReplayNeverRedeems ==
  \A w \in Worker : txn[w].replay => ~txn[w].session

\* The redemption, the account it created and the session commit together: a
\* used link names a stored user with the address the link was mailed to.
UsedLinkNamesItsUser ==
  \A l \in Stored :
    magic_link_tokens[l].used_at =>
      /\ magic_link_tokens[l].user_id \in DOMAIN users
      /\ users[magic_link_tokens[l].user_id] = magic_link_tokens[l].email

\* However first sign-ins interleave, an address has one account, and a
\* request that lost the race to create it finds it on the next try.
OneAccountPerEmail ==
  /\ \A u, v \in DOMAIN users : users[u] = users[v] => u = v
  /\ \A w \in Worker :
       txn[w].verdict = "conflict" => txn[w].email \in KnownEmails

\* A link whose start was answered 202 can be looked up until it expires.
AcknowledgedLinkStored ==
  \A w \in Worker :
    txn[w].pc = "replying" /\ txn[w].op = "start" /\ txn[w].verdict = "ok"
      /\ now <= txn[w].expires => txn[w].link \in Stored

\* The cleanup never deletes a link that could still be redeemed.
CleanupSparesRedeemable ==
  [][\A l \in Stored : l \notin Stored' => HasExpired(l)]_vars

\* Every request ends, although inserts and updates wait for each other.
RequestsEnd == \A w \in Worker : txn[w].pc # "idle" ~> txn[w].pc = "idle"
=============================================================================
