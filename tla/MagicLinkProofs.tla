--------------------------- MODULE MagicLinkProofs ---------------------------
(***************************************************************************)
(* Type correctness and the safety properties of MagicLink, for any        *)
(* numbers of addresses, users, links and workers, any lifetime of a link  *)
(* and any grace of the cleanup.                                           *)
(*                                                                         *)
(* A verification reads its link and its user, and writes both in the same *)
(* COMMIT, several statements later.  Inv says what other commits, and the *)
(* cleanup, leave of what it has read, and which INSERTs wait for others.  *)
(***************************************************************************)
EXTENDS MagicLink, TLAPS

(***************************************************************************)
(* The inductive invariant.  x and z are the requests of two workers.      *)
(***************************************************************************)

\* The row of a link is inserted, not committed.
Pending(x) == x.op = "start" /\ x.pc \in {"sending", "closing"}

\* A verification has accepted its link, and has not failed since.
Redeeming(x) ==
  x.pc \in {"finding", "creating", "marking", "issuing"} \/ x.marked

\* The position of a request tells which of its writes it has made.
Position(x) ==
  /\ x.op = "start" =>
       /\ x.pc \in {"sending", "closing", "replying"}
       /\ x.email \in Email /\ x.link \in Link /\ x.inserted
  /\ x.inserted => x.op = "start"
  /\ x.new_user \/ x.marked \/ x.session \/ Redeeming(x) => x.op = "verify"
  /\ x.new_user => x.pc \in {"marking", "issuing", "closing"}
  /\ x.marked => x.pc \in {"issuing", "closing"}
  /\ x.pc = "issuing" => x.marked
  /\ x.verdict = "conflict" => x.pc = "replying"

\* The link being redeemed was mailed to the address the request works for;
\* from the mark on, the cleanup leaves it alone.
LinkRead(x) ==
  /\ Redeeming(x) =>
       /\ x.email \in Email
       /\ x.link \in Stored => magic_link_tokens[x.link].email = x.email
  /\ x.marked => x.link \in Stored

\* The user of a redemption has the address: it is stored, or this request
\* inserted it and nobody else can.
Account(x) ==
  /\ x.new_user =>
       /\ x.user \in User /\ x.email \in Email
       /\ x.user \notin DOMAIN users /\ x.email \notin KnownEmails
  /\ x.pc = "marking" \/ x.marked =>
       x.new_user \/ (x.user \in DOMAIN users /\ users[x.user] = x.email)
  /\ x.verdict = "conflict" => x.email \in KnownEmails

\* A replayed link is refused; no row is ever stored for it again.
ReplayCaught(x) ==
  x.replay =>
    /\ x.op = "verify" /\ x.pc \in {"lookup", "closing", "replying"}
    /\ ~x.session /\ ~x.marked
    /\ x.link \in Stored => magic_link_tokens[x.link].used_at

\* A link is stored by the COMMIT that precedes its answer, until it expires.
LinkStored(x) ==
  /\ Pending(x) => x.link \notin Stored
  /\ x.op = "start" /\ x.pc = "replying" =>
       \/ x.link \in Stored /\ magic_link_tokens[x.link].expires_at = x.expires
       \/ x.expires < now

SessionInv(x) ==
  /\ x \in Txn
  /\ Position(x)
  /\ LinkRead(x)
  /\ Account(x)
  /\ ReplayCaught(x)
  /\ LinkStored(x)

\* Two requests at once: a pending link is nobody else's to insert or to
\* redeem, and two new users have different ids and addresses.
Apart(x, z) ==
  /\ Pending(x) /\ (Pending(z) \/ z.replay \/ Redeeming(z)) => z.link # x.link
  /\ x.new_user /\ z.new_user => z.user # x.user /\ z.email # x.email

EmailsUnique == \A u, v \in DOMAIN users : users[u] = users[v] => u = v

TableInv == UsedLinkNamesItsUser /\ EmailsUnique

Inv ==
  /\ TypeOK
  /\ TableInv
  /\ \A w \in Worker : SessionInv(txn[w])
  /\ \A v, w \in Worker : v # w => Apart(txn[v], txn[w])

-----------------------------------------------------------------------------
(* Steps that change one request, and the mails at most *)

\* Inv is kept by a step that takes one request to one that satisfies
\* SessionInv and stands apart from the others.
LEMMA LocalStep ==
  ASSUME Inv, NEW w \in Worker, NEW y, Advance(w, y), SessionInv(y),
         mailed' \subseteq Link,
         \A v \in Worker \ {w} : Apart(y, txn[v]) /\ Apart(txn[v], y)
  PROVE  Inv'
<1>1. /\ txn' \in [Worker -> Txn]
      /\ txn'[w] = y
      /\ \A v \in Worker \ {w} : txn'[v] = txn[v]
  BY DEF Advance, Inv, TypeOK, SessionInv
<1>2. UNCHANGED <<now, magic_link_tokens, users>>
  BY DEF Advance
<1>3. TypeOK'
  BY <1>1, <1>2 DEF Inv, TypeOK, Stored
<1>4. TableInv'
  BY <1>2 DEF Inv, TableInv, UsedLinkNamesItsUser, EmailsUnique, Stored
<1>5. ASSUME NEW v \in Worker PROVE SessionInv(txn[v])'
  <2>1. SessionInv(txn'[v])
    BY <1>1 DEF Inv
  <2>2. QED
    BY <1>2, <2>1 DEF SessionInv, Position, LinkRead, Account, ReplayCaught,
       LinkStored, Pending, Redeeming, Stored, KnownEmails
<1>6. ASSUME NEW v \in Worker, NEW u \in Worker, v # u
      PROVE  Apart(txn[v], txn[u])'
  <2>1. Apart(txn'[v], txn'[u])
    BY <1>1, <1>6 DEF Inv
  <2>2. QED
    BY <2>1 DEF Apart, Pending, Redeeming
<1>7. QED
  BY <1>3, <1>4, <1>5, <1>6 DEF Inv

\* A request that neither takes a link or a user nor keeps a write longer
\* excludes nobody new.
LEMMA SamePlaceStep ==
  ASSUME Inv, NEW w \in Worker, NEW y, Advance(w, y), SessionInv(y),
         mailed' \subseteq Link,
         y.link = txn[w].link,
         Pending(y) => Pending(txn[w]),
         y.replay => txn[w].replay,
         Redeeming(y) => Redeeming(txn[w]) \/ y.link \in Stored,
         y.new_user => txn[w].new_user /\ y.user = txn[w].user
                         /\ y.email = txn[w].email
  PROVE  Inv'
<1>1. ASSUME NEW v \in Worker \ {w} PROVE Apart(y, txn[v]) /\ Apart(txn[v], y)
  <2>1. Apart(txn[w], txn[v]) /\ Apart(txn[v], txn[w])
    BY DEF Inv
  <2>2. Pending(txn[v]) => txn[v].link \notin Stored
    BY DEF Inv, SessionInv, LinkStored
  <2>3. Apart(y, txn[v])
    BY <2>1 DEF Apart
  <2>4. Apart(txn[v], y)
    BY <2>1, <2>2 DEF Apart
  <2>5. QED
    BY <2>3, <2>4
<1>2. QED
  BY <1>1, LocalStep

\* A request that ends holds nothing and excludes nobody.
LEMMA EndStep ==
  ASSUME Inv, NEW w \in Worker, Reply(w) \/ Crash(w)
  PROVE  Inv'
<1>1. Advance(w, Idle) /\ mailed' \subseteq Link
  BY DEF Reply, Crash, Inv, TypeOK
<1>2. SessionInv(Idle)
  BY DEF Idle, SessionInv, Txn, Position, LinkRead, Account, ReplayCaught,
     LinkStored, Pending, Redeeming
<1>3. ASSUME NEW v \in Worker PROVE Apart(Idle, txn[v]) /\ Apart(txn[v], Idle)
  BY DEF Idle, Apart, Pending, Redeeming
<1>4. QED
  BY <1>1, <1>2, <1>3, LocalStep

\* A start inserts a link that nobody holds; a verification takes any link
\* that was mailed.
LEMMA BeginStep ==
  ASSUME Inv, NEW w \in Worker, StartLink(w) \/ StartVerify(w)
  PROVE  Inv'
<1>1. CASE StartLink(w)
  <2>1. PICK e \in Email, l \in Link :
          /\ Fresh(l)
          /\ Advance(w, [Idle EXCEPT !.pc = "sending", !.op = "start",
                                     !.email = e, !.link = l, !.inserted = TRUE,
                                     !.expires = now + TTL])
    BY <1>1 DEF StartLink
  <2> DEFINE y == [Idle EXCEPT !.pc = "sending", !.op = "start",
                               !.email = e, !.link = l, !.inserted = TRUE,
                               !.expires = now + TTL]
  <2>2. now + TTL \in Nat /\ l \notin Stored
    BY <2>1, TimeAssumption DEF Inv, TypeOK, Fresh
  <2>3. SessionInv(y)
    BY <2>2 DEF Idle, SessionInv, Txn, Position, LinkRead, Account,
       ReplayCaught, LinkStored, Pending, Redeeming
  <2>4. ASSUME NEW v \in Worker PROVE Apart(y, txn[v]) /\ Apart(txn[v], y)
    BY <2>1 DEF Fresh, Idle, Apart, Pending, Redeeming
  <2>5. mailed' \subseteq Link
    BY <1>1 DEF StartLink, Inv, TypeOK
  <2> HIDE DEF y
  <2>6. QED
    BY <2>1, <2>3, <2>4, <2>5, LocalStep DEF y
<1>2. CASE StartVerify(w)
  <2>1. PICK l \in mailed \cup {None} :
          Advance(w, [Idle EXCEPT !.pc = "lookup", !.op = "verify", !.link = l,
                                  !.replay = IsUsed(l)])
    BY <1>2 DEF StartVerify
  <2> DEFINE replayed == IsUsed(l)
             y == [Idle EXCEPT !.pc = "lookup", !.op = "verify", !.link = l,
                               !.replay = replayed]
  <2>2. /\ l \in Link \cup {None}
        /\ replayed \in BOOLEAN
        /\ replayed => l \in Stored /\ magic_link_tokens[l].used_at
    BY <2>1 DEF Inv, TypeOK, IsUsed, LinkRow
  <2>3. Advance(w, y)
    BY <2>1
  <2> HIDE DEF replayed
  <2>4. SessionInv(y)
    BY <2>2 DEF Idle, SessionInv, Txn, Position, LinkRead, Account,
       ReplayCaught, LinkStored, Pending, Redeeming
  <2>5. ASSUME NEW v \in Worker PROVE Apart(y, txn[v]) /\ Apart(txn[v], y)
    <3>1. Pending(txn[v]) => txn[v].link \notin Stored
      BY DEF Inv, SessionInv, LinkStored
    <3>2. QED
      BY <2>2, <3>1 DEF Idle, Apart, Pending, Redeeming
  <2>6. mailed' \subseteq Link
    BY <1>2 DEF StartVerify, Inv, TypeOK
  <2> HIDE DEF y
  <2>7. QED
    BY <2>3, <2>4, <2>5, <2>6, LocalStep
<1>3. QED
  BY <1>1, <1>2

\* Mails, refusals and failed flushes: the request only gives up claims.
LEMMA RefuseStep ==
  ASSUME Inv, NEW w \in Worker,
         \/ SendMail(w) \/ SendFails(w)
         \/ VerifyUnknown(w) \/ VerifyUsed(w) \/ VerifyExpired(w)
         \/ CreateUserConflicts(w) \/ MarkLinkGone(w) \/ IssueFails(w)
  PROVE  Inv'
<1> USE DEF SessionInv, Position, LinkRead, Account, ReplayCaught, LinkStored,
            Pending, Redeeming
<1>1. SessionInv(txn[w]) /\ txn[w] \in Txn /\ mailed \subseteq Link
  BY DEF Inv, TypeOK
<1>2. CASE SendMail(w)
  <2> DEFINE y == [txn[w] EXCEPT !.pc = "closing", !.verdict = "ok"]
  <2>1. /\ txn[w].op = "start" /\ txn[w].pc = "sending"
        /\ Advance(w, y) /\ mailed' = mailed \cup {txn[w].link}
    BY <1>2 DEF SendMail, Open
  <2>2. SessionInv(y)
    BY <1>1, <2>1 DEF Txn
  <2>3. QED
    BY <1>1, <2>1, <2>2, SamePlaceStep DEF Txn
<1>3. ASSUME NEW verdict \in {"invalid", "used", "expired", "error"},
             Refuse(w, verdict),
             \/ txn[w].op = "start" /\ txn[w].pc = "sending"
             \/ txn[w].op = "verify" /\ txn[w].pc \in {"lookup", "issuing"}
      PROVE  Inv'
  <2> DEFINE y == [txn[w] EXCEPT !.pc = "closing", !.verdict = verdict]
  <2>1. Advance(w, y) /\ mailed' = mailed
    BY <1>3 DEF Refuse
  <2>2. y \in Txn
    BY <1>1, <1>3 DEF Txn
  <2>3. SessionInv(y)
    BY <1>1, <1>3, <2>2 DEF Txn
  <2>4. QED
    BY <1>1, <1>3, <2>1, <2>3, SamePlaceStep DEF Txn
<1>4. CASE CreateUserConflicts(w) \/ MarkLinkGone(w)
  <2>1. PICK verdict \in {"conflict", "error"} :
          /\ Abort(w, verdict)
          /\ verdict = "conflict" => txn[w].email \in KnownEmails
    BY <1>4 DEF CreateUserConflicts, MarkLinkGone, Taken
  <2> DEFINE y == [txn[w] EXCEPT !.pc = "replying", !.verdict = verdict,
                                 !.new_user = FALSE, !.marked = FALSE]
  <2>2. Advance(w, y) /\ mailed' = mailed
    BY <2>1 DEF Abort
  <2>3. txn[w].op = "verify" /\ txn[w].pc \in {"creating", "marking"}
    BY <1>4 DEF CreateUserConflicts, MarkLinkGone, Open
  <2>4. y \in Txn
    BY <1>1, <2>1 DEF Txn
  <2>5. SessionInv(y)
    BY <1>1, <2>1, <2>3, <2>4 DEF Txn
  <2>6. QED
    BY <1>1, <2>2, <2>3, <2>5, SamePlaceStep DEF Txn
<1>5. QED
  BY <1>2, <1>3, <1>4 DEF SendFails, VerifyUnknown, VerifyUsed, VerifyExpired,
     IssueFails, Open

\* The link is accepted, its user found, the link marked, the tokens issued.
LEMMA RedeemStep ==
  ASSUME Inv, NEW w \in Worker,
         \/ VerifyAccept(w) \/ FindUser(w) \/ MarkLink(w) \/ IssueSession(w)
  PROVE  Inv'
<1> USE DEF SessionInv, Position, LinkRead, Account, ReplayCaught, LinkStored,
            Pending, Redeeming
<1>1. SessionInv(txn[w]) /\ txn[w] \in Txn /\ mailed \subseteq Link
  BY DEF Inv, TypeOK
<1>2. CASE VerifyAccept(w)
  <2> DEFINE y == [txn[w] EXCEPT
                     !.pc = "finding",
                     !.email = magic_link_tokens[txn[w].link].email]
  <2>1. /\ txn[w].op = "verify" /\ txn[w].pc = "lookup"
        /\ txn[w].link \in Stored
        /\ ~magic_link_tokens[txn[w].link].used_at
        /\ Advance(w, y) /\ mailed' = mailed
    BY <1>2 DEF VerifyAccept, Open, AlreadyUsed
  <2>2. magic_link_tokens[txn[w].link].email \in Email
    BY <2>1 DEF Inv, TypeOK, LinkRow
  <2>3. y \in Txn
    BY <1>1, <2>2 DEF Txn
  <2>4. /\ ~txn[w].replay /\ ~txn[w].marked /\ ~txn[w].new_user
        /\ ~txn[w].inserted
    BY <1>1, <2>1
  <2>5. /\ y.pc = "finding" /\ y.op = "verify" /\ y.link = txn[w].link
        /\ y.email = magic_link_tokens[y.link].email
        /\ ~y.replay /\ ~y.marked /\ ~y.new_user /\ ~y.inserted
        /\ y.verdict = txn[w].verdict /\ y.session = txn[w].session
    BY <1>1, <2>1, <2>4 DEF Txn
  <2>6. y.verdict # "conflict"
    BY <1>1, <2>1, <2>5
  <2> HIDE DEF y
  <2>7. SessionInv(y)
    BY <1>1, <2>1, <2>2, <2>3, <2>5
  <2>8. QED
    BY <1>1, <2>1, <2>5, <2>7, SamePlaceStep
<1>3. CASE FindUser(w)
  <2>1. txn[w].op = "verify" /\ txn[w].pc = "finding" /\ mailed' = mailed
    BY <1>3 DEF FindUser, Open
  <2>2. CASE Advance(w, [txn[w] EXCEPT !.pc = "creating"])
    <3> DEFINE y == [txn[w] EXCEPT !.pc = "creating"]
    <3>1. SessionInv(y)
      BY <1>1, <2>1 DEF Txn
    <3>2. QED
      BY <1>1, <2>1, <2>2, <3>1, SamePlaceStep DEF Txn
  <2>3. ASSUME NEW u \in DOMAIN users, users[u] = txn[w].email,
               Advance(w, [txn[w] EXCEPT !.pc = "marking", !.user = u])
        PROVE  Inv'
    <3> DEFINE y == [txn[w] EXCEPT !.pc = "marking", !.user = u]
    <3>1. u \in User
      BY DEF Inv, TypeOK
    <3>2. SessionInv(y)
      BY <1>1, <2>1, <2>3, <3>1 DEF Txn
    <3>3. QED
      BY <1>1, <2>1, <2>3, <3>2, SamePlaceStep DEF Txn
  <2>4. QED
    BY <1>3, <2>2, <2>3 DEF FindUser
<1>4. CASE MarkLink(w)
  <2> DEFINE y == [txn[w] EXCEPT !.pc = "issuing", !.marked = TRUE]
  <2>1. /\ txn[w].op = "verify" /\ txn[w].pc = "marking"
        /\ txn[w].link \in Stored
        /\ Advance(w, y) /\ mailed' = mailed
    BY <1>4 DEF MarkLink, Open
  <2>2. y \in Txn
    BY <1>1 DEF Txn
  <2>3. SessionInv(y)
    BY <1>1, <2>1, <2>2 DEF Txn
  <2>4. QED
    BY <1>1, <2>1, <2>3, SamePlaceStep DEF Txn
<1>5. CASE IssueSession(w)
  <2> DEFINE y == [txn[w] EXCEPT !.pc = "closing", !.verdict = "ok",
                                 !.session = TRUE]
  <2>1. /\ txn[w].op = "verify" /\ txn[w].pc = "issuing"
        /\ Advance(w, y) /\ mailed' = mailed
    BY <1>5 DEF IssueSession, Open
  <2>2. y \in Txn
    BY <1>1 DEF Txn
  <2>3. SessionInv(y)
    BY <1>1, <2>1, <2>2 DEF Txn
  <2>4. QED
    BY <1>1, <2>1, <2>3, SamePlaceStep DEF Txn
<1>6. QED
  BY <1>2, <1>3, <1>4, <1>5

\* The INSERT of a user waits for every other one of its address.
LEMMA CreateStep ==
  ASSUME Inv, NEW w \in Worker, CreateUser(w)
  PROVE  Inv'
<1>1. PICK u \in User \ DOMAIN users :
        /\ \A v \in Worker : txn[v].user # u
        /\ Advance(w, [txn[w] EXCEPT !.pc = "marking", !.user = u,
                                     !.new_user = TRUE])
  BY DEF CreateUser
<1> DEFINE y == [txn[w] EXCEPT !.pc = "marking", !.user = u, !.new_user = TRUE]
<1>2. /\ txn[w].op = "verify" /\ txn[w].pc = "creating"
      /\ txn[w].email \notin KnownEmails /\ ~InsertWaits(w)
      /\ mailed' \subseteq Link
  BY DEF CreateUser, Open, Taken, Inv, TypeOK
<1>3. SessionInv(txn[w]) /\ txn[w] \in Txn
  BY DEF Inv, SessionInv
<1>4. y \in Txn
  BY <1>3 DEF Txn
<1>5. /\ y.pc = "marking" /\ y.op = "verify" /\ y.user = u
      /\ y.link = txn[w].link /\ y.email = txn[w].email
      /\ y.inserted = txn[w].inserted /\ y.marked = txn[w].marked
      /\ y.session = txn[w].session /\ y.replay = txn[w].replay
      /\ y.verdict = txn[w].verdict
  BY <1>2, <1>3 DEF Txn
<1> HIDE DEF y
<1>6. SessionInv(y)
  <2>1. Position(y) /\ LinkStored(y)
    BY <1>2, <1>3, <1>5 DEF SessionInv, Position, LinkStored, Pending, Redeeming
  <2>2. txn[w].email \in Email /\ LinkRead(y)
    BY <1>2, <1>3, <1>5 DEF SessionInv, LinkRead, Redeeming
  <2>3. y.new_user
    BY <1>3 DEF y, Txn
  <2>4. Account(y)
    BY <1>1, <1>2, <1>3, <1>5, <2>2, <2>3 DEF SessionInv, Account
  <2>5. ReplayCaught(y)
    BY <1>2, <1>3, <1>5 DEF SessionInv, ReplayCaught
  <2>6. QED
    BY <1>4, <2>1, <2>2, <2>4, <2>5 DEF SessionInv
<1>7. ASSUME NEW v \in Worker \ {w} PROVE Apart(y, txn[v]) /\ Apart(txn[v], y)
  <2>1. Apart(txn[v], txn[w])
    BY DEF Inv
  <2>2. txn[v].user # u /\ (txn[v].new_user => txn[v].email # txn[w].email)
    BY <1>1, <1>2 DEF InsertWaits
  <2>3. QED
    BY <1>2, <1>5, <2>1, <2>2 DEF Apart, Pending, Redeeming
<1>8. QED
  BY <1>1, <1>2, <1>6, <1>7, LocalStep DEF y

-----------------------------------------------------------------------------
(* COMMIT, the cleanup, time *)

\* The session of the committing request, once it has committed.
Committed(x) ==
  [x EXCEPT !.pc = "replying", !.new_user = FALSE, !.marked = FALSE]

\* The users after a commit: a new one has an address that nobody had.
LEMMA CommitUsers ==
  ASSUME Inv, NEW w \in Worker, Commit(w)
  PROVE  /\ DOMAIN users \subseteq DOMAIN users'
         /\ \A u \in DOMAIN users : users'[u] = users[u]
         /\ \A u \in DOMAIN users' \ DOMAIN users :
              txn[w].new_user /\ u = txn[w].user /\ users'[u] = txn[w].email
         /\ txn[w].new_user => txn[w].user \in DOMAIN users'
         /\ DOMAIN users' \subseteq User /\ users' \in [DOMAIN users' -> Email]
         /\ EmailsUnique'
<1> DEFINE x == txn[w]
<1>1. /\ users' = [u \in DOMAIN users \cup {v \in {x.user} : x.new_user} |->
                     IF u = x.user /\ x.new_user THEN x.email ELSE users[u]]
  BY DEF Commit, UsersAfter
<1>2. x.new_user => /\ x.user \in User /\ x.email \in Email
                    /\ x.user \notin DOMAIN users /\ x.email \notin KnownEmails
  BY DEF Inv, SessionInv, Account
<1>3. /\ DOMAIN users' = DOMAIN users \cup {v \in {x.user} : x.new_user}
      /\ \A u \in DOMAIN users : users'[u] = users[u]
      /\ x.new_user => users'[x.user] = x.email
  BY <1>1, <1>2
<1>4. DOMAIN users' \subseteq User /\ users' \in [DOMAIN users' -> Email]
  BY <1>1, <1>2, <1>3 DEF Inv, TypeOK
<1>5. EmailsUnique'
  BY <1>2, <1>3 DEF Inv, TableInv, EmailsUnique, KnownEmails
<1>6. QED
  BY <1>3, <1>4, <1>5

\* The links after a commit.
LEMMA CommitLinks ==
  ASSUME Inv, NEW w \in Worker, Commit(w)
  PROVE  /\ Stored \subseteq Stored'
         /\ \A l \in Stored :
              /\ magic_link_tokens'[l].email = magic_link_tokens[l].email
              /\ magic_link_tokens'[l].expires_at = magic_link_tokens[l].expires_at
              /\ \/ magic_link_tokens'[l] = magic_link_tokens[l]
                 \/ /\ txn[w].marked /\ l = txn[w].link
                    /\ magic_link_tokens'[l].used_at
                    /\ magic_link_tokens'[l].user_id = txn[w].user
         /\ \A l \in Stored' \ Stored :
              /\ Pending(txn[w]) /\ l = txn[w].link
              /\ ~magic_link_tokens'[l].used_at
         /\ Pending(txn[w]) =>
              /\ txn[w].link \in Stored'
              /\ magic_link_tokens'[txn[w].link].expires_at = txn[w].expires
         /\ Stored' \subseteq Link
         /\ magic_link_tokens' \in [Stored' -> LinkRow]
<1> DEFINE x == txn[w]
<1>1. /\ magic_link_tokens' =
           [l \in Stored \cup {m \in {x.link} : x.inserted} |->
              IF l = x.link /\ x.inserted
                THEN [email |-> x.email, expires_at |-> x.expires,
                      used_at |-> FALSE, user_id |-> None]
              ELSE IF l = x.link /\ x.marked
                THEN [magic_link_tokens[l] EXCEPT !.used_at = TRUE,
                                                  !.user_id = x.user]
                ELSE magic_link_tokens[l]]
      /\ x.pc = "closing"
  BY DEF Commit, LinksAfter
<1>2. /\ x \in Txn
      /\ x.inserted => /\ x.op = "start" /\ x.email \in Email /\ x.link \in Link
                       /\ x.link \notin Stored
      /\ Pending(x) => x.inserted
      /\ x.inserted => Pending(x)
  BY <1>1 DEF Inv, SessionInv, Position, LinkStored, Pending
<1>3. Stored' = Stored \cup {m \in {x.link} : x.inserted}
  BY <1>1 DEF Stored
<1>4. ASSUME NEW l \in Stored
      PROVE  /\ magic_link_tokens'[l] \in LinkRow
             /\ magic_link_tokens'[l].email = magic_link_tokens[l].email
             /\ magic_link_tokens'[l].expires_at = magic_link_tokens[l].expires_at
             /\ \/ magic_link_tokens'[l] = magic_link_tokens[l]
                \/ /\ x.marked /\ l = x.link
                   /\ magic_link_tokens'[l].used_at
                   /\ magic_link_tokens'[l].user_id = x.user
  <2>1. magic_link_tokens[l] \in LinkRow /\ x.user \in User \cup {None}
    BY <1>2 DEF Inv, TypeOK, Txn
  <2>2. magic_link_tokens'[l] =
          IF l = x.link /\ x.marked
            THEN [magic_link_tokens[l] EXCEPT !.used_at = TRUE, !.user_id = x.user]
            ELSE magic_link_tokens[l]
    BY <1>1, <1>2
  <2>3. CASE l = x.link /\ x.marked
    <3>1. magic_link_tokens'[l] = [magic_link_tokens[l] EXCEPT !.used_at = TRUE,
                                                               !.user_id = x.user]
      BY <2>2, <2>3
    <3>2. magic_link_tokens'[l] \in LinkRow
      BY <2>1, <3>1 DEF LinkRow
    <3>3. /\ magic_link_tokens'[l].used_at = TRUE
          /\ magic_link_tokens'[l].user_id = x.user
      BY <2>1, <3>1 DEF LinkRow
    <3>4. /\ magic_link_tokens'[l].email = magic_link_tokens[l].email
          /\ magic_link_tokens'[l].expires_at = magic_link_tokens[l].expires_at
      BY <2>1, <3>1 DEF LinkRow
    <3>5. QED
      BY <2>3, <3>2, <3>3, <3>4
  <2>4. CASE ~(l = x.link /\ x.marked)
    BY <2>1, <2>2, <2>4 DEF LinkRow
  <2>5. QED
    BY <2>3, <2>4
<1>5. x.inserted =>
        magic_link_tokens'[x.link] =
          [email |-> x.email, expires_at |-> x.expires, used_at |-> FALSE,
           user_id |-> None]
  BY <1>1
<1>6. ASSUME x.inserted
      PROVE  /\ magic_link_tokens'[x.link] \in LinkRow
             /\ magic_link_tokens'[x.link].expires_at = x.expires
             /\ ~magic_link_tokens'[x.link].used_at
  <2>1. x.email \in Email /\ x.expires \in Nat
    BY <1>2, <1>6 DEF Txn
  <2>2. magic_link_tokens'[x.link] \in LinkRow
    <3>1. magic_link_tokens'[x.link] =
            [email |-> x.email, expires_at |-> x.expires, used_at |-> FALSE,
             user_id |-> None]
      BY <1>5, <1>6
    <3>2. QED
      BY <2>1, <3>1 DEF LinkRow
  <2>3. /\ magic_link_tokens'[x.link].expires_at = x.expires
        /\ magic_link_tokens'[x.link].used_at = FALSE
    BY <1>5, <1>6
  <2>4. QED
    BY <2>2, <2>3
<1>7. Stored' \subseteq Link /\ magic_link_tokens' \in [Stored' -> LinkRow]
  BY <1>1, <1>2, <1>3, <1>4, <1>6 DEF Inv, TypeOK
<1>8. QED
  BY <1>2, <1>3, <1>4, <1>6, <1>7

\* A used link names a stored user of its address, also the one being marked.
LEMMA CommitTables ==
  ASSUME Inv, NEW w \in Worker, Commit(w)
  PROVE  TableInv'
<1> DEFINE x == txn[w]
<1>1. /\ x.marked => x.link \in Stored /\ magic_link_tokens[x.link].email = x.email
      /\ x.marked => \/ x.new_user
                     \/ x.user \in DOMAIN users /\ users[x.user] = x.email
      /\ x.new_user => x.user \notin DOMAIN users
  BY DEF Inv, SessionInv, LinkRead, Redeeming, Account
<1>2. x.marked => x.user \in DOMAIN users' /\ users'[x.user] = x.email
  BY <1>1, CommitUsers
<1>3. ASSUME NEW l \in Stored', magic_link_tokens'[l].used_at
      PROVE  /\ magic_link_tokens'[l].user_id \in DOMAIN users'
             /\ users'[magic_link_tokens'[l].user_id] = magic_link_tokens'[l].email
  <2>1. l \in Stored
    BY <1>3, CommitLinks
  <2>2. CASE magic_link_tokens'[l] = magic_link_tokens[l]
    <3>1. /\ magic_link_tokens[l].user_id \in DOMAIN users
          /\ users[magic_link_tokens[l].user_id] = magic_link_tokens[l].email
      BY <1>3, <2>1, <2>2 DEF Inv, TableInv, UsedLinkNamesItsUser
    <3>2. QED
      BY <2>2, <3>1, CommitUsers
  <2>3. CASE x.marked /\ l = x.link /\ magic_link_tokens'[l].user_id = x.user
    BY <1>1, <1>2, <2>1, <2>3, CommitLinks
  <2>4. QED
    BY <2>1, <2>2, <2>3, CommitLinks
<1>4. QED
  BY <1>3, CommitUsers DEF TableInv, UsedLinkNamesItsUser

\* What the other requests have read outlives the commit.
LEMMA CommitOthers ==
  ASSUME Inv, NEW w \in Worker, Commit(w), NEW v \in Worker \ {w}
  PROVE  SessionInv(txn[v])'
<1> DEFINE x == txn[w]
           z == txn[v]
<1>1. txn'[v] = z /\ now' = now
  BY DEF Commit, Inv, TypeOK
<1>2. SessionInv(z) /\ Apart(x, z) /\ Apart(z, x)
  BY DEF Inv
<1> USE DEF SessionInv
<1>3. LinkRead(z)'
  <2>1. ASSUME Redeeming(z), z.link \in Stored'
        PROVE  z.link \in Stored
    BY <1>2, <2>1, CommitLinks DEF Apart
  <2>2. Redeeming(z)' = Redeeming(z)
    BY <1>1 DEF Redeeming
  <2>3. QED
    BY <1>1, <1>2, <2>1, <2>2, CommitLinks DEF LinkRead
<1>4. Account(z)'
  <2>1. ASSUME z.new_user
        PROVE  z.user \notin DOMAIN users' /\ z.email \notin KnownEmails'
    <3>1. z.user \notin DOMAIN users /\ z.email \notin KnownEmails
      BY <1>2, <2>1 DEF Account
    <3>2. x.new_user => x.user # z.user /\ x.email # z.email
      BY <1>2, <2>1 DEF Apart
    <3>3. QED
      BY <3>1, <3>2, CommitUsers DEF KnownEmails
  <2>2. z.email \in KnownEmails => z.email \in KnownEmails'
    BY CommitUsers DEF KnownEmails
  <2>3. z.user \in DOMAIN users =>
          z.user \in DOMAIN users' /\ users'[z.user] = users[z.user]
    BY CommitUsers
  <2>4. QED
    BY <1>1, <1>2, <2>1, <2>2, <2>3 DEF Account
<1>5. ReplayCaught(z)'
  <2>1. z.replay /\ z.link \in Stored' => z.link \in Stored
    BY <1>2, CommitLinks DEF Apart
  <2>2. ASSUME z.link \in Stored, magic_link_tokens[z.link].used_at
        PROVE  magic_link_tokens'[z.link].used_at
    BY <2>2, CommitLinks
  <2>3. QED
    BY <1>1, <1>2, <2>1, <2>2 DEF ReplayCaught
<1>6. LinkStored(z)'
  <2>1. Pending(z) => z.link \notin Stored'
    BY <1>2, CommitLinks DEF LinkStored, Apart
  <2>2. Pending(z)' = Pending(z)
    BY <1>1 DEF Pending
  <2>3. QED
    BY <1>1, <1>2, <2>1, <2>2, CommitLinks DEF LinkStored
<1>7. Position(z)'
  BY <1>1, <1>2 DEF Position, Redeeming
<1>8. QED
  BY <1>1, <1>2, <1>3, <1>4, <1>5, <1>6, <1>7

\* Every commit keeps Inv.
LEMMA CommitStep ==
  ASSUME Inv, NEW w \in Worker, Commit(w)
  PROVE  Inv'
<1> DEFINE x == txn[w]
           y == Committed(x)
<1>1. /\ txn' = [txn EXCEPT ![w] = y] /\ x.pc = "closing"
      /\ UNCHANGED <<now, mailed>>
  BY DEF Commit, Committed
<1>2. SessionInv(x) /\ x \in Txn
  BY DEF Inv, SessionInv
<1>3. /\ y \in Txn
      /\ y.pc = "replying" /\ ~y.new_user /\ ~y.marked
      /\ y.op = x.op /\ y.link = x.link /\ y.email = x.email
      /\ y.expires = x.expires /\ y.inserted = x.inserted
      /\ y.session = x.session /\ y.replay = x.replay /\ y.verdict = x.verdict
  BY <1>2 DEF Committed, Txn
<1> HIDE DEF y
<1>4. /\ txn' \in [Worker -> Txn] /\ txn'[w] = y
      /\ \A v \in Worker \ {w} : txn'[v] = txn[v]
  BY <1>1, <1>3 DEF Inv, TypeOK
<1>5. SessionInv(txn[w])'
  <2>1. Position(y) /\ y.verdict # "conflict"
    BY <1>1, <1>2, <1>3 DEF SessionInv, Position, Redeeming
  <2>2. y.replay => y.op = "verify" /\ ~y.session
          /\ (y.link \in Stored => magic_link_tokens[y.link].used_at)
    BY <1>2, <1>3 DEF SessionInv, ReplayCaught
  <2>3. y.replay /\ y.link \in Stored' => magic_link_tokens'[y.link].used_at
    BY <1>3, <2>2, CommitLinks DEF Pending
  <2>4. y.op = "start" =>
          y.link \in Stored' /\ magic_link_tokens'[y.link].expires_at = y.expires
    BY <1>1, <1>3, CommitLinks DEF Pending
  <2>5. /\ Position(y) /\ ~Redeeming(y) /\ ~Pending(y) /\ y \in Txn
    BY <1>3, <2>1 DEF Redeeming, Pending
  <2>6. QED
    BY <1>3, <1>4, <2>1, <2>2, <2>3, <2>4, <2>5
       DEF SessionInv, Position, LinkRead, Account, ReplayCaught, LinkStored,
           Redeeming, Pending
<1>6. ASSUME NEW v \in Worker, NEW u \in Worker, v # u
      PROVE  Apart(txn[v], txn[u])'
  <2>1. ~Pending(y) /\ ~Redeeming(y) /\ (y.replay => x.replay)
    BY <1>3 DEF Pending, Redeeming
  <2>2. Apart(txn'[v], txn'[u])
    BY <1>3, <1>4, <1>6, <2>1 DEF Inv, Apart
  <2>3. QED
    BY <2>2 DEF Apart, Pending, Redeeming
<1>7. TypeOK'
  BY <1>1, <1>4, CommitUsers, CommitLinks DEF Inv, TypeOK
<1>8. QED
  BY <1>5, <1>6, <1>7, CommitTables, CommitOthers DEF Inv

\* The cleanup deletes links that expired longer ago than GRACE, and waits for
\* the transactions that have marked one of them.
LEMMA CleanupFacts ==
  ASSUME Inv, Cleanup
  PROVE  /\ Stored' \subseteq Stored
         /\ \A l \in Stored' : magic_link_tokens'[l] = magic_link_tokens[l]
         /\ magic_link_tokens' = [l \in Stored' |-> magic_link_tokens'[l]]
         /\ \A l \in Stored \ Stored' :
              /\ HasExpired(l) /\ magic_link_tokens[l].expires_at < now
              /\ \A w \in Worker : ~(txn[w].marked /\ txn[w].link = l)
         /\ UNCHANGED <<now, users, mailed, txn>>
<1> DEFINE old == {l \in Stored : OldEnough(l)}
<1>1. /\ magic_link_tokens' = [l \in Stored \ old |-> magic_link_tokens[l]]
      /\ \A w \in Worker : ~(txn[w].marked /\ txn[w].link \in old)
      /\ UNCHANGED <<now, users, mailed, txn>>
  BY DEF Cleanup
<1>2. Stored' = Stored \ old
  BY <1>1 DEF Stored
<1>3. ASSUME NEW l \in old
      PROVE  HasExpired(l) /\ magic_link_tokens[l].expires_at < now
  <2>1. magic_link_tokens[l].expires_at \in Nat /\ now \in Nat
    BY DEF Inv, TypeOK, LinkRow
  <2>2. magic_link_tokens[l].expires_at + GRACE < now
    BY DEF OldEnough
  <2>3. QED
    BY <2>1, <2>2, TimeAssumption DEF HasExpired
<1>4. QED
  BY <1>1, <1>2, <1>3

\* A step that leaves the requests and the users alone, deletes nothing but
\* links that are expired and not being marked, and does not turn back time.
LEMMA OutsideStep ==
  ASSUME Inv, Cleanup \/ Tick \/ UNCHANGED vars
  PROVE  Inv'
<1>1. /\ Stored' \subseteq Stored
      /\ \A l \in Stored' : magic_link_tokens'[l] = magic_link_tokens[l]
      /\ magic_link_tokens' = [l \in Stored' |-> magic_link_tokens'[l]]
      /\ \A l \in Stored \ Stored' :
           /\ magic_link_tokens[l].expires_at < now
           /\ \A w \in Worker : ~(txn[w].marked /\ txn[w].link = l)
      /\ UNCHANGED <<users, mailed, txn>>
      /\ now' \in Nat /\ now <= now'
  <2>1. CASE Cleanup
    <3>1. now' = now /\ now \in Nat
      BY <2>1, CleanupFacts DEF Inv, TypeOK
    <3>2. QED
      BY <2>1, <3>1, CleanupFacts
  <2>2. CASE Tick \/ UNCHANGED vars
    BY <2>2 DEF Tick, vars, Inv, TypeOK, Stored
  <2>3. QED
    BY <2>1, <2>2
<1>2. TypeOK'
  BY <1>1 DEF Inv, TypeOK
<1>3. TableInv'
  BY <1>1 DEF Inv, TableInv, UsedLinkNamesItsUser, EmailsUnique
<1>4. ASSUME NEW w \in Worker PROVE SessionInv(txn[w])'
  <2> DEFINE x == txn[w]
  <2>1. SessionInv(x) /\ txn' = txn /\ x \in Txn
    BY <1>1 DEF Inv, SessionInv
  <2>2. Position(x)' /\ Account(x)'
    BY <1>1, <2>1 DEF SessionInv, Position, Account, Redeeming, KnownEmails
  <2>3. LinkRead(x)' /\ ReplayCaught(x)'
    BY <1>1, <2>1 DEF SessionInv, LinkRead, ReplayCaught, Redeeming
  <2>4. LinkStored(x)'
    <3>1. Pending(x) => x.link \notin Stored'
      BY <1>1, <2>1 DEF SessionInv, LinkStored
    <3>2. ASSUME x.op = "start", x.pc = "replying"
          PROVE  \/ /\ x.link \in Stored'
                    /\ magic_link_tokens'[x.link].expires_at = x.expires
                 \/ x.expires < now'
      <4>1. now \in Nat /\ x.expires \in Nat
        BY <2>1 DEF Inv, TypeOK, Txn
      <4>2. CASE x.expires < now
        BY <1>1, <4>1, <4>2
      <4>3. CASE /\ x.link \in Stored
                 /\ magic_link_tokens[x.link].expires_at = x.expires
        BY <1>1, <4>1, <4>3
      <4>4. QED
        BY <2>1, <3>2, <4>2, <4>3 DEF SessionInv, LinkStored
    <3>3. QED
      BY <2>1, <3>1, <3>2 DEF LinkStored, Pending
  <2>5. QED
    BY <2>1, <2>2, <2>3, <2>4 DEF SessionInv
<1>5. \A v, w \in Worker : v # w => Apart(txn[v], txn[w])'
  BY <1>1 DEF Inv, Apart, Pending, Redeeming
<1>6. QED
  BY <1>2, <1>3, <1>4, <1>5 DEF Inv

-----------------------------------------------------------------------------
(* The theorems *)

\* Init establishes the invariant.
LEMMA Initially == Init => Inv
<1> SUFFICES ASSUME Init PROVE Inv
  OBVIOUS
<1>1. Idle \in Txn
  BY DEF Idle, Txn
<1>2. TypeOK
  BY <1>1 DEF Init, TypeOK, Stored
<1>3. TableInv
  BY DEF Init, TableInv, UsedLinkNamesItsUser, EmailsUnique, Stored
<1>4. SessionInv(Idle) /\ Apart(Idle, Idle)
  BY <1>1 DEF Idle, SessionInv, Position, LinkRead, Account, ReplayCaught,
     LinkStored, Apart, Pending, Redeeming
<1>5. QED
  BY <1>2, <1>3, <1>4 DEF Init, Inv

\* Every step keeps it.
LEMMA Inductive == Inv /\ [Next]_vars => Inv'
<1> SUFFICES ASSUME Inv, [Next]_vars PROVE Inv'
  OBVIOUS
<1>1. CASE Tick \/ Cleanup \/ UNCHANGED vars
  BY <1>1, OutsideStep
<1>2. ASSUME NEW w \in Worker, StartLink(w) \/ StartVerify(w) PROVE Inv'
  BY <1>2, BeginStep
<1>3. ASSUME NEW w \in Worker, Serve(w) PROVE Inv'
  BY <1>3, RefuseStep, RedeemStep, CreateStep, CommitStep, EndStep DEF Serve
<1>4. ASSUME NEW w \in Worker, Crash(w) PROVE Inv'
  BY <1>4, EndStep
<1>5. QED
  BY <1>1, <1>2, <1>3, <1>4 DEF Next

\* Inv is an invariant of MagicLink.
THEOREM Invariance == Spec => []Inv
  BY Initially, Inductive, PTL DEF Spec

\* TypeOK for every value of the constants.
THEOREM TypeCorrect == Spec => []TypeOK
<1>1. Inv => TypeOK
  BY DEF Inv
<1>2. QED
  BY <1>1, Invariance, PTL

\* A verification of a link that was used when it arrived issues no session,
\* whatever the cleanup and the other workers do meanwhile.
THEOREM ReplaysRefused == Spec => []ReplayNeverRedeems
<1>1. Inv => ReplayNeverRedeems
  BY DEF Inv, SessionInv, ReplayCaught, ReplayNeverRedeems
<1>2. QED
  BY <1>1, Invariance, PTL

\* A used link names a stored user with the address it was mailed to.
THEOREM RedemptionIsAtomic == Spec => []UsedLinkNamesItsUser
<1>1. Inv => UsedLinkNamesItsUser
  BY DEF Inv, TableInv
<1>2. QED
  BY <1>1, Invariance, PTL

\* Two first sign-ins of an address make one account.
THEOREM AccountsUnique == Spec => []OneAccountPerEmail
<1>1. Inv => OneAccountPerEmail
  BY DEF Inv, TableInv, EmailsUnique, SessionInv, Account, OneAccountPerEmail
<1>2. QED
  BY <1>1, Invariance, PTL

\* A start that was answered 202 has stored its link, and the cleanup leaves it
\* until it has expired.
THEOREM AcknowledgedIsStored == Spec => []AcknowledgedLinkStored
<1>1. Inv => AcknowledgedLinkStored
  <2> SUFFICES ASSUME Inv, NEW w \in Worker,
                      txn[w].pc = "replying", txn[w].op = "start",
                      now <= txn[w].expires
               PROVE  txn[w].link \in Stored
    BY DEF AcknowledgedLinkStored
  <2>1. txn[w].expires \in Nat /\ now \in Nat
    BY DEF Inv, TypeOK, Txn
  <2>2. txn[w].link \in Stored \/ txn[w].expires < now
    BY DEF Inv, SessionInv, LinkStored
  <2>3. QED
    BY <2>1, <2>2
<1>2. QED
  BY <1>1, Invariance, PTL

\* Only the cleanup deletes links, and only expired ones.
THEOREM CleanupIsSafe == Spec => CleanupSparesRedeemable
<1>1. Inv /\ [Next]_vars =>
        [\A l \in Stored : l \notin Stored' => HasExpired(l)]_vars
  <2> SUFFICES ASSUME Inv, [Next]_vars, NEW l \in Stored, l \notin Stored'
               PROVE  HasExpired(l)
    OBVIOUS
  <2>1. CASE Cleanup
    BY <2>1, CleanupFacts
  <2>2. ASSUME NEW w \in Worker, Commit(w) PROVE FALSE
    BY <2>2, CommitLinks
  <2>3. CASE UNCHANGED magic_link_tokens
    BY <2>3 DEF Stored
  <2>4. QED
    BY <2>1, <2>2, <2>3 DEF Next, vars, Tick, StartLink, StartVerify, Serve,
       Crash, SendMail, SendFails, VerifyUnknown, VerifyUsed, VerifyExpired,
       VerifyAccept, FindUser, CreateUser, CreateUserConflicts, MarkLink,
       MarkLinkGone, IssueSession, IssueFails, Reply, Advance, Refuse, Abort
<1>2. QED
  BY <1>1, Invariance, PTL DEF Spec, CleanupSparesRedeemable
=============================================================================
