---------------------------- MODULE PasskeyProofs ----------------------------
(***************************************************************************)
(* Type correctness and the safety properties of Passkey, for any numbers  *)
(* of users, clients, credentials, rows, challenges and workers and any    *)
(* lifetime of the state tokens.                                           *)
(*                                                                         *)
(* What a request commits was decided by what it read several statements   *)
(* earlier.  Inv says what stays true of those readings while the other    *)
(* workers commit, and which open transactions exclude each other.         *)
(***************************************************************************)
EXTENDS Passkey, TLAPS

(***************************************************************************)
(* The inductive invariant.  x and z are the requests of two workers.      *)
(***************************************************************************)

\* An UPDATE or DELETE of this request holds the lock of its row.
Holds(x) == x.counted \/ x.deleted

\* The position of a request tells which of its writes it has made.
Position(x) ==
  /\ x.inserted => x.op = "register"
  /\ x.deleted => x.op = "delete"
  /\ x.counted => x.op = "sign_in" /\ x.pc \in {"touching", "issuing", "closing"}
  /\ x.session => x.counted
  /\ x.op = "register" =>
       /\ x.user \in User /\ x.cred \in Credential
       /\ x.pc \in {"inserting", "closing"}
       /\ x.pc = "closing" => x.inserted /\ x.row \in RowId
       /\ x.pc = "inserting" => ~x.inserted
  /\ x.op = "delete" => x.row \in RowId /\ x.cred \in Made
  /\ x.op = "sign_in" =>
       /\ x.pc = "lookup" => x.row = None
       /\ x.pc # "lookup" => x.row \in RowId
       /\ x.pc \in {"touching", "issuing", "closing"} => x.counted

\* The row that a request found is still its user's, if it is still there;
\* a row is there while it is locked, and is not before its INSERT commits.
Found(x) ==
  /\ x.op \in {"sign_in", "delete"} /\ x.row \in Stored =>
       /\ passkey_credentials[x.row].user_id = x.user
       /\ passkey_credentials[x.row].credential_id = x.cred
  /\ Holds(x) => x.row \in Stored
  /\ x.inserted => x.row \notin Stored /\ RowsOf(x.cred) = {}

\* A sign-in that counts was verified: its account, and its count.
Verified(x) ==
  /\ x.barred \subseteq inactive
  /\ x.op = "sign_in" /\ x.pc \notin {"lookup", "asserting"} =>
       x.user \notin x.barred /\ CountAdvances(x)

\* The covering row still covers the count, also as the request read it.
Covered(x) ==
  x.covered # None =>
    /\ x.op = "sign_in" /\ 0 < x.count
    /\ x.covered \in Stored =>
         x.count <= passkey_credentials[x.covered].sign_count
    /\ x.row = x.covered => x.count <= x.read_count

SessionInv(x) ==
  /\ x \in Txn
  /\ Position(x)
  /\ Found(x)
  /\ Verified(x)
  /\ Covered(x)
  /\ x.op = "register" => x.cred \notin buried

\* Two requests at once: a row being inserted is nobody else's, nor is its
\* credential inserted twice; a row has one holder; a sign-in that reads a row
\* after it covered another sign-in's count reads at least that count.
Apart(x, z) ==
  /\ x.inserted =>
       /\ z.row # x.row /\ z.covered # x.row
       /\ z.inserted => z.cred # x.cred
  /\ Holds(x) /\ Holds(z) => z.row # x.row
  /\ x.covered # None /\ z.op = "sign_in" /\ z.row = x.covered =>
       x.count <= z.read_count

\* A credential is buried for good: no ceremony can register it any more.
BuriedOver ==
  \A k \in buried :
    /\ RowsOf(k) = {}
    /\ k \in Made
    /\ \A h \in Issued :
         ceremonies[h].purpose = "register" /\ ceremonies[h].cred = k =>
           ceremonies[h].exp <= now

TableInv == OneRowPerCredential /\ BuriedOver

Inv ==
  /\ TypeOK
  /\ TableInv
  /\ \A w \in Worker : SessionInv(txn[w])
  /\ \A v, w \in Worker : v # w => Apart(txn[v], txn[w])

-----------------------------------------------------------------------------
(* Steps that change one request and nothing else *)

\* Inv is kept by a step that takes one request to one that satisfies
\* SessionInv and stands apart from the others.
LEMMA LocalStep ==
  ASSUME Inv, NEW w \in Worker, NEW y, Advance(w, y), SessionInv(y),
         \A v \in Worker \ {w} : Apart(y, txn[v]) /\ Apart(txn[v], y)
  PROVE  Inv'
<1>1. /\ txn' \in [Worker -> Txn]
      /\ txn'[w] = y
      /\ \A v \in Worker \ {w} : txn'[v] = txn[v]
  BY DEF Advance, Inv, TypeOK, SessionInv
<1>2. UNCHANGED <<now, inactive, passkey_credentials, ceremonies, counter, buried>>
  BY DEF Advance
<1>3. TypeOK'
  BY <1>1, <1>2 DEF Inv, TypeOK, Stored, Issued
<1>4. TableInv'
  BY <1>2 DEF Inv, TableInv, OneRowPerCredential, BuriedOver, Stored, Issued,
     RowsOf, Made, Signed
<1>5. ASSUME NEW v \in Worker PROVE SessionInv(txn[v])'
  <2>1. SessionInv(txn'[v])
    BY <1>1 DEF Inv
  <2>2. QED
    BY <1>2, <2>1 DEF SessionInv, Position, Found, Verified, Covered,
       CountAdvances, Holds, Stored, Issued, RowsOf, Made, Signed
<1>6. ASSUME NEW v \in Worker, NEW u \in Worker, v # u
      PROVE  Apart(txn[v], txn[u])'
  <2>1. Apart(txn'[v], txn'[u])
    BY <1>1, <1>6 DEF Inv
  <2>2. QED
    BY <2>1 DEF Apart, Holds
<1>7. QED
  BY <1>3, <1>4, <1>5, <1>6 DEF Inv

\* A request that ends without a commit holds nothing and excludes nobody.
LEMMA EndStep ==
  ASSUME Inv, NEW w \in Worker, Refuse(w) \/ Crash(w)
  PROVE  Inv'
<1>1. Advance(w, Idle)
  BY DEF Refuse, Crash
<1>2. SessionInv(Idle)
  BY DEF Idle, SessionInv, Txn, Position, Found, Verified, Covered, Holds
<1>3. ASSUME NEW v \in Worker PROVE Apart(Idle, txn[v]) /\ Apart(txn[v], Idle)
  BY NoneAssumption DEF Inv, TypeOK, Txn, SessionInv, Position, Idle, Apart, Holds
<1>4. QED
  BY <1>1, <1>2, <1>3, LocalStep

\* A registration starts from an unexpired ceremony, so its credential is not
\* buried.
LEMMA StartRegisterStep ==
  ASSUME Inv, NEW w \in Worker, StartRegister(w)
  PROVE  Inv'
<1>1. PICK u \in User, h \in Signed :
        LET x == [Idle EXCEPT !.pc = "inserting", !.op = "register",
                              !.user = u, !.challenge = h,
                              !.cred = ceremonies[h].cred,
                              !.count = ceremonies[h].count]
        IN StateValid(h, "register") /\ Advance(w, x)
  BY DEF StartRegister
<1> DEFINE y == [Idle EXCEPT !.pc = "inserting", !.op = "register",
                             !.user = u, !.challenge = h,
                             !.cred = ceremonies[h].cred,
                             !.count = ceremonies[h].count]
<1>2. Advance(w, y)
  BY <1>1
<1>3. /\ h \in Issued /\ h \in Challenge
      /\ ceremonies[h].cred \in Credential
      /\ ceremonies[h].count \in Nat
      /\ ceremonies[h].exp \in Nat
      /\ now \in Nat
      /\ ceremonies[h].purpose = "register"
      /\ ~(ceremonies[h].exp <= now)
  BY <1>1 DEF Inv, TypeOK, Signed, Ceremony, StateValid, StateExpired
<1>4. ceremonies[h].cred \notin buried
  BY <1>3 DEF Inv, TableInv, BuriedOver
<1>5. SessionInv(y)
  BY <1>3, <1>4 DEF SessionInv, Idle, Txn, Position, Found, Verified, Covered,
     Holds
<1>6. ASSUME NEW v \in Worker PROVE Apart(y, txn[v]) /\ Apart(txn[v], y)
  BY NoneAssumption DEF Inv, TypeOK, Txn, SessionInv, Position, Idle, Apart, Holds
<1> HIDE DEF y
<1>7. QED
  BY <1>2, <1>5, <1>6, LocalStep

\* A sign-in remembers who is barred and which row covers its count.
LEMMA StartSignInStep ==
  ASSUME Inv, NEW w \in Worker, StartSignIn(w)
  PROVE  Inv'
<1>0. PICK h \in Signed : \E c \in Client :
        \E r \in IF Covering(h) = {} THEN {None} ELSE Covering(h) :
        Advance(w, [Idle EXCEPT !.pc = "lookup", !.op = "sign_in",
                                !.client = c, !.challenge = h,
                                !.cred = ceremonies[h].cred,
                                !.count = ceremonies[h].count,
                                !.barred = inactive, !.covered = r])
  BY DEF StartSignIn
<1>1. PICK c \in Client, r \in IF Covering(h) = {} THEN {None} ELSE Covering(h) :
        Advance(w, [Idle EXCEPT !.pc = "lookup", !.op = "sign_in",
                                !.client = c, !.challenge = h,
                                !.cred = ceremonies[h].cred,
                                !.count = ceremonies[h].count,
                                !.barred = inactive, !.covered = r])
  BY <1>0
<1> DEFINE y == [Idle EXCEPT !.pc = "lookup", !.op = "sign_in",
                             !.client = c, !.challenge = h,
                             !.cred = ceremonies[h].cred,
                             !.count = ceremonies[h].count,
                             !.barred = inactive, !.covered = r]
<1>2. /\ h \in Challenge
      /\ ceremonies[h].cred \in Credential
      /\ ceremonies[h].count \in Nat
      /\ inactive \subseteq User
  BY <1>1 DEF Inv, TypeOK, Signed, Issued, Ceremony
<1>3. r # None =>
        /\ r \in Stored /\ r \in RowId
        /\ 0 < ceremonies[h].count
        /\ ceremonies[h].count <= passkey_credentials[r].sign_count
        /\ \A v \in Worker : ~(txn[v].op = "sign_in" /\ txn[v].row = r)
  BY <1>1 DEF Covering, RowsOf, Inv, TypeOK
<1>4. SessionInv(y)
  <2>1. c \in Client /\ (r \in RowId \/ r = None)
    BY <1>1, <1>3
  <2>2. y \in Txn
    BY <1>2, <2>1 DEF Txn, Idle
  <2>3. /\ y.pc = "lookup" /\ y.op = "sign_in" /\ y.row = None
        /\ ~y.inserted /\ ~y.counted /\ ~y.deleted /\ ~y.session
        /\ y.barred = inactive /\ y.covered = r
        /\ y.count = ceremonies[h].count
    BY DEF Idle
  <2> HIDE DEF y
  <2>4. QED
    <3>1. Position(y) /\ Found(y) /\ Verified(y)
      BY <2>3, NoneAssumption DEF Inv, TypeOK, Position, Found, Verified, Holds
    <3>2. Covered(y)
      BY <1>3, <2>3, NoneAssumption DEF Covered
    <3>3. QED
      BY <2>2, <2>3, <3>1, <3>2 DEF SessionInv
<1>5. ASSUME NEW v \in Worker PROVE Apart(y, txn[v]) /\ Apart(txn[v], y)
  BY <1>3, NoneAssumption
     DEF Inv, TypeOK, Txn, SessionInv, Position, Found, Idle, Apart, Holds
<1> HIDE DEF y
<1>6. QED
  BY <1>1, <1>4, <1>5, LocalStep DEF y

\* A deletion starts with a row of its caller.
LEMMA StartDeleteStep ==
  ASSUME Inv, NEW w \in Worker, StartDelete(w)
  PROVE  Inv'
<1>0. PICK u \in User, k \in Made : \E r \in RowsToDelete(u, k) :
        Advance(w, [Idle EXCEPT !.pc = "deleting", !.op = "delete",
                                !.user = u, !.cred = k, !.row = r])
  BY DEF StartDelete
<1>1. PICK r \in RowsToDelete(u, k) :
        Advance(w, [Idle EXCEPT !.pc = "deleting", !.op = "delete",
                                !.user = u, !.cred = k, !.row = r])
  BY <1>0
<1> DEFINE y == [Idle EXCEPT !.pc = "deleting", !.op = "delete",
                             !.user = u, !.cred = k, !.row = r]
<1>2. /\ r \in Stored /\ r \in RowId
      /\ passkey_credentials[r].user_id = u
      /\ passkey_credentials[r].credential_id = k
      /\ k \in Credential
  BY <1>1 DEF RowsToDelete, RowsOf, Inv, TypeOK, Made, Signed, Ceremony
<1>3. SessionInv(y)
  BY <1>1, <1>2
     DEF SessionInv, Idle, Txn, Position, Found, Verified, Covered, Holds
<1>4. ASSUME NEW v \in Worker PROVE Apart(y, txn[v]) /\ Apart(txn[v], y)
  BY <1>2, NoneAssumption
     DEF Inv, TypeOK, Txn, SessionInv, Position, Found, Idle, Apart, Holds
<1> HIDE DEF y
<1>5. QED
  BY <1>1, <1>3, <1>4, LocalStep DEF y

\* The row a registration inserts is new, and so is its credential.
LEMMA InsertStep ==
  ASSUME Inv, NEW w \in Worker, InsertPasskey(w)
  PROVE  Inv'
<1>1. PICK r \in RowId :
        /\ FreshRow(r)
        /\ Advance(w, [txn[w] EXCEPT !.pc = "closing", !.row = r,
                                     !.inserted = TRUE])
  BY DEF InsertPasskey
<1> DEFINE y == [txn[w] EXCEPT !.pc = "closing", !.row = r, !.inserted = TRUE]
<1>2. /\ txn[w].op = "register" /\ txn[w].pc = "inserting"
      /\ RowsOf(txn[w].cred) = {}
      /\ ~InsertWaits(w)
  BY DEF InsertPasskey, At, Taken
<1>3. SessionInv(txn[w]) /\ txn[w] \in Txn
  BY DEF Inv, SessionInv
<1>4. SessionInv(y)
  BY <1>1, <1>2, <1>3
     DEF SessionInv, Txn, Position, Found, Verified, Covered, Holds, FreshRow,
         CountAdvances
<1>5. ASSUME NEW v \in Worker \ {w} PROVE Apart(y, txn[v]) /\ Apart(txn[v], y)
  <2>1. /\ txn[v].row # r /\ txn[v].covered # r
        /\ txn[v].inserted => txn[v].cred # txn[w].cred
    BY <1>1, <1>2 DEF FreshRow, InsertWaits
  <2>2. SessionInv(txn[v])
    BY DEF Inv
  <2>3. QED
    BY <1>2, <1>3, <2>1, <2>2, NoneAssumption
       DEF SessionInv, Txn, Position, Covered, Apart, Holds
<1> HIDE DEF y
<1>6. QED
  BY <1>1, <1>4, <1>5, LocalStep DEF y

\* A sign-in reads the row of its passkey.
LEMMA FindStep ==
  ASSUME Inv, NEW w \in Worker, FindPasskey(w)
  PROVE  Inv'
<1>1. PICK r \in RowsOf(txn[w].cred) :
        Advance(w, [txn[w] EXCEPT !.pc = "asserting", !.row = r,
                          !.user = passkey_credentials[r].user_id,
                          !.read_count = passkey_credentials[r].sign_count])
  BY DEF FindPasskey
<1> DEFINE y == [txn[w] EXCEPT !.pc = "asserting", !.row = r,
                          !.user = passkey_credentials[r].user_id,
                          !.read_count = passkey_credentials[r].sign_count]
<1>2. /\ r \in Stored /\ r \in RowId
      /\ passkey_credentials[r].credential_id = txn[w].cred
      /\ passkey_credentials[r].user_id \in User
      /\ passkey_credentials[r].sign_count \in Nat
      /\ txn[w].op = "sign_in" /\ txn[w].pc = "lookup"
  BY <1>1 DEF RowsOf, Inv, TypeOK, Row, FindPasskey, At
<1>3. SessionInv(txn[w]) /\ txn[w] \in Txn
  BY DEF Inv, SessionInv
<1>4. SessionInv(y)
  BY <1>2, <1>3
     DEF SessionInv, Txn, Position, Found, Verified, Covered, Holds
<1>5. ASSUME NEW v \in Worker \ {w} PROVE Apart(y, txn[v]) /\ Apart(txn[v], y)
  <2>1. SessionInv(txn[v]) /\ Apart(txn[w], txn[v]) /\ Apart(txn[v], txn[w])
    BY DEF Inv
  <2>2. QED
    BY <1>2, <1>3, <2>1, NoneAssumption
       DEF SessionInv, Txn, Position, Found, Covered, Apart, Holds
<1> HIDE DEF y
<1>6. QED
  BY <1>1, <1>4, <1>5, LocalStep DEF y

\* A step of a request that changes neither the row, credential and counts it
\* is about nor its writes excludes nobody new.
LEMMA SamePlaceStep ==
  ASSUME Inv, NEW w \in Worker, NEW y, Advance(w, y), SessionInv(y),
         y.op = txn[w].op, y.cred = txn[w].cred, y.row = txn[w].row,
         y.count = txn[w].count, y.read_count = txn[w].read_count,
         y.covered = txn[w].covered, y.inserted = txn[w].inserted,
         Holds(y) => Holds(txn[w]) \/ ~RowLocked(w)
  PROVE  Inv'
<1>1. ASSUME NEW v \in Worker \ {w} PROVE Apart(y, txn[v]) /\ Apart(txn[v], y)
  <2>1. Apart(txn[w], txn[v]) /\ Apart(txn[v], txn[w])
    BY DEF Inv
  <2>2. ~RowLocked(w) /\ Holds(txn[v]) => txn[v].row # txn[w].row
    BY DEF RowLocked, Holds
  <2>3. QED
    BY <2>1, <2>2 DEF Apart
<1>2. QED
  BY <1>1, LocalStep

\* The checks pass, the user is touched, the tokens are issued.
LEMMA AdvanceStep ==
  ASSUME Inv, NEW w \in Worker,
         \/ AssertionVerified(w) \/ TouchUser(w)
         \/ IssueSession(w) \/ IssueFails(w)
  PROVE  Inv'
<1>1. SessionInv(txn[w]) /\ txn[w] \in Txn
  BY DEF Inv, SessionInv
<1>2. CASE AssertionVerified(w)
  <2> DEFINE y == [txn[w] EXCEPT !.pc = "counting"]
  <2>1. /\ txn[w].op = "sign_in" /\ txn[w].pc = "asserting"
        /\ txn[w].user \notin inactive /\ CountAdvances(txn[w])
    BY <1>2 DEF AssertionVerified, At, IsActive
  <2>2. SessionInv(y)
    BY <1>1, <2>1 DEF SessionInv, Txn, Position, Found, Verified, Covered,
       Holds, CountAdvances
  <2>3. QED
    BY <1>1, <1>2, <2>2, SamePlaceStep DEF AssertionVerified, Holds, Txn
<1>3. CASE TouchUser(w)
  <2> DEFINE y == [txn[w] EXCEPT !.pc = "issuing", !.touched = TRUE]
  <2>1. txn[w].op = "sign_in" /\ txn[w].pc = "touching"
    BY <1>3 DEF TouchUser, At
  <2>2. y \in Txn
    BY <1>1 DEF Txn
  <2>3. SessionInv(y)
    BY <1>1, <2>1, <2>2 DEF SessionInv, Txn, Position, Found, Verified, Covered,
       Holds, CountAdvances
  <2>4. QED
    BY <1>1, <1>3, <2>3, SamePlaceStep DEF TouchUser, Holds, Txn
<1>4. CASE IssueSession(w)
  <2> DEFINE y == [txn[w] EXCEPT !.pc = "closing", !.session = TRUE]
  <2>1. txn[w].op = "sign_in" /\ txn[w].pc = "issuing"
    BY <1>4 DEF IssueSession, At
  <2>2. y \in Txn
    BY <1>1 DEF Txn
  <2>3. SessionInv(y)
    BY <1>1, <2>1, <2>2 DEF SessionInv, Txn, Position, Found, Verified, Covered,
       Holds, CountAdvances
  <2>4. QED
    BY <1>1, <1>4, <2>3, SamePlaceStep DEF IssueSession, Holds, Txn
<1>5. CASE IssueFails(w)
  <2> DEFINE y == [txn[w] EXCEPT !.pc = "closing"]
  <2>1. txn[w].op = "sign_in" /\ txn[w].pc = "issuing"
    BY <1>5 DEF IssueFails, At
  <2>2. SessionInv(y)
    BY <1>1, <2>1 DEF SessionInv, Txn, Position, Found, Verified, Covered,
       Holds, CountAdvances
  <2>3. QED
    BY <1>1, <1>5, <2>2, SamePlaceStep DEF IssueFails, Holds, Txn
<1>6. QED
  BY <1>2, <1>3, <1>4, <1>5

\* An UPDATE or a DELETE waits for the lock of its row.
LEMMA LockStep ==
  ASSUME Inv, NEW w \in Worker, UpdateCount(w) \/ DeletePasskey(w)
  PROVE  Inv'
<1>1. SessionInv(txn[w]) /\ txn[w] \in Txn
  BY DEF Inv, SessionInv
<1>2. CASE UpdateCount(w)
  <2> DEFINE y == [txn[w] EXCEPT !.pc = "touching", !.counted = TRUE]
  <2>1. txn[w].op = "sign_in" /\ txn[w].pc = "counting" /\ txn[w].row \in Stored
    BY <1>2 DEF UpdateCount, At, RowGone
  <2>2. y \in Txn
    BY <1>1 DEF Txn
  <2>3. SessionInv(y)
    BY <1>1, <2>1, <2>2 DEF SessionInv, Txn, Position, Found, Verified, Covered,
       Holds, CountAdvances
  <2>4. QED
    BY <1>1, <1>2, <2>3, SamePlaceStep DEF UpdateCount, Txn
<1>3. CASE DeletePasskey(w)
  <2> DEFINE there == txn[w].row \in Stored
             y == [txn[w] EXCEPT !.pc = "closing", !.deleted = there]
  <2>1. txn[w].op = "delete"
    BY <1>3 DEF DeletePasskey, At
  <2>2. y \in Txn
    <3>1. there \in BOOLEAN
      OBVIOUS
    <3> HIDE DEF there
    <3>2. QED
      BY <1>1, <3>1 DEF Txn
  <2>3. y.deleted => txn[w].row \in Stored
    BY <1>1 DEF Txn
  <2>4. /\ y.pc = "closing" /\ y.op = "delete" /\ y.user = txn[w].user
        /\ y.row = txn[w].row /\ y.cred = txn[w].cred
        /\ y.count = txn[w].count /\ y.read_count = txn[w].read_count
        /\ y.inserted = txn[w].inserted /\ y.counted = txn[w].counted
        /\ y.session = txn[w].session /\ y.covered = txn[w].covered
        /\ y.barred = txn[w].barred
    BY <1>1, <2>1 DEF Txn
  <2>5. Advance(w, y) /\ ~RowLocked(w)
    BY <1>3 DEF DeletePasskey
  <2> HIDE DEF y
  <2>6. SessionInv(y)
    <3>1. Position(y)
      BY <1>1, <2>1, <2>4 DEF SessionInv, Position
    <3>2. Found(y)
      BY <1>1, <2>1, <2>3, <2>4 DEF SessionInv, Position, Found, Holds
    <3>3. Verified(y) /\ Covered(y)
      BY <1>1, <2>1, <2>4 DEF SessionInv, Verified, Covered
    <3>4. QED
      BY <2>2, <2>4, <3>1, <3>2, <3>3 DEF SessionInv
  <2>7. QED
    BY <2>1, <2>4, <2>5, <2>6, SamePlaceStep
<1>4. QED
  BY <1>2, <1>3

-----------------------------------------------------------------------------
(* Steps of no worker *)

\* The sessions are kept by a step that leaves the rows alone, unlearns no
\* credential and lets nobody be active again.
LEMMA SessionsKept ==
  ASSUME Inv, Made \subseteq Made', inactive \subseteq inactive',
         UNCHANGED <<passkey_credentials, buried, txn>>
  PROVE  /\ \A w \in Worker : SessionInv(txn[w])'
         /\ \A v, w \in Worker : v # w => Apart(txn[v], txn[w])'
<1>1. ASSUME NEW w \in Worker PROVE SessionInv(txn[w])'
  <2>1. SessionInv(txn[w])
    BY DEF Inv
  <2> HIDE DEF Made
  <2>2. QED
    BY <2>1 DEF SessionInv, Position, Found, Verified, Covered,
       CountAdvances, Holds, Stored, RowsOf
<1>2. ASSUME NEW v \in Worker, NEW w \in Worker, v # w
      PROVE  Apart(txn[v], txn[w])'
  BY <1>2 DEF Inv, Apart, Holds
<1>3. QED
  BY <1>1, <1>2

\* A new state token has nothing signed for it yet.
LEMMA MintStep ==
  ASSUME Inv, NEW ceremony \in Ceremony, ceremony.cred = None, Mint(ceremony)
  PROVE  Inv'
<1>1. PICK h \in Challenge \ Issued :
        ceremonies' = [g \in Issued \cup {h} |->
                         IF g = h THEN ceremony ELSE ceremonies[g]]
  BY DEF Mint
<1>2. UNCHANGED <<now, inactive, passkey_credentials, counter, buried, txn>>
  BY DEF Mint
<1>3. /\ Issued' = Issued \cup {h}
      /\ ceremonies'[h] = ceremony
      /\ \A g \in Issued : ceremonies'[g] = ceremonies[g]
  BY <1>1 DEF Issued
<1>4. Made' = Made
  BY <1>1, <1>3 DEF Made, Signed
<1>5. TypeOK'
  BY <1>1, <1>2, <1>3 DEF Inv, TypeOK, Stored
<1>6. TableInv'
  <2>1. OneRowPerCredential'
    BY <1>2 DEF Inv, TableInv, OneRowPerCredential, Stored
  <2>2. BuriedOver'
    BY <1>2, <1>3, <1>4, NoneAssumption
       DEF Inv, TypeOK, TableInv, BuriedOver, RowsOf, Stored
  <2>3. QED
    BY <2>1, <2>2 DEF TableInv
<1>7. QED
  BY <1>2, <1>4, <1>5, <1>6, SessionsKept DEF Inv

\* The authenticator makes each credential once: what was buried is not signed
\* for another registration.
LEMMA SignStep ==
  ASSUME Inv, Sign
  PROVE  Inv'
<1>1. PICK h \in Issued \ Signed, k \in Credential :
        \E count \in {counter[k] + 1} \cup {n \in {0} : counter[k] = 0} :
          /\ (k \notin Made) = (ceremonies[h].purpose = "register")
          /\ ceremonies' = [ceremonies EXCEPT ![h].cred = k, ![h].count = count]
          /\ counter' = [counter EXCEPT ![k] = count]
  BY DEF Sign
<1>2. PICK count \in {counter[k] + 1} \cup {n \in {0} : counter[k] = 0} :
        /\ (k \notin Made) = (ceremonies[h].purpose = "register")
        /\ ceremonies' = [ceremonies EXCEPT ![h].cred = k, ![h].count = count]
        /\ counter' = [counter EXCEPT ![k] = count]
  BY <1>1
<1>11. count \in Nat
  BY <1>1, <1>2 DEF Inv, TypeOK
<1>3. UNCHANGED <<now, inactive, passkey_credentials, buried, txn>>
  BY DEF Sign
<1>4. /\ Issued' = Issued
      /\ ceremonies'[h] = [ceremonies[h] EXCEPT !.cred = k, !.count = count]
      /\ \A g \in Issued \ {h} : ceremonies'[g] = ceremonies[g]
      /\ h \in Issued /\ ceremonies[h].cred = None
      /\ ceremonies[h] \in Ceremony
  BY <1>2 DEF Issued, Signed, Inv, TypeOK
<1>5. ceremonies'[h] \in Ceremony
  BY <1>1, <1>4, <1>11 DEF Ceremony
<1>6. /\ ceremonies'[h].cred = k
      /\ ceremonies'[h].purpose = ceremonies[h].purpose
      /\ ceremonies'[h].exp = ceremonies[h].exp
  BY <1>4 DEF Ceremony
<1>7. Made \subseteq Made'
  BY <1>4 DEF Made, Signed
<1>8. TypeOK'
  BY <1>1, <1>2, <1>3, <1>4, <1>5, <1>11 DEF Inv, TypeOK, Stored
<1>9. TableInv'
  <2>1. OneRowPerCredential'
    BY <1>3 DEF Inv, TableInv, OneRowPerCredential, Stored
  <2>2. ASSUME NEW j \in buried, NEW g \in Issued,
               ceremonies'[g].purpose = "register", ceremonies'[g].cred = j
        PROVE  ceremonies'[g].exp <= now
    <3>1. g # h
      BY <1>2, <1>6, <2>2 DEF Inv, TableInv, BuriedOver
    <3>2. QED
      BY <1>4, <2>2, <3>1 DEF Inv, TableInv, BuriedOver
  <2>3. BuriedOver'
    <3> HIDE DEF Made
    <3> QED
      BY <1>3, <1>4, <1>7, <2>2
         DEF Inv, TableInv, BuriedOver, RowsOf, Stored
  <2>4. QED
    BY <2>1, <2>3 DEF TableInv
<1>10. QED
  BY <1>3, <1>7, <1>8, <1>9, SessionsKept DEF Inv

\* Nobody becomes active again, and time only runs forward.
LEMMA OutsideStep ==
  ASSUME Inv, RegisterBegin \/ AuthenticateBegin \/ Sign \/ Deactivate \/ Tick
  PROVE  Inv'
<1>0. now \in Nat /\ now + TTL \in Nat
  BY TimeAssumption DEF Inv, TypeOK
<1>1. CASE RegisterBegin
  <2>1. PICK u \in User :
          Mint([purpose |-> "register", user |-> u, client |-> None,
                exp |-> now + TTL, cred |-> None, count |-> 0])
    BY <1>1 DEF RegisterBegin
  <2>2. QED
    BY <1>0, <2>1, MintStep DEF Ceremony
<1>2. CASE AuthenticateBegin
  <2>1. PICK c \in Client :
          Mint([purpose |-> "authenticate", user |-> None, client |-> c,
                exp |-> now + TTL, cred |-> None, count |-> 0])
    BY <1>2 DEF AuthenticateBegin
  <2>2. QED
    BY <1>0, <2>1, MintStep DEF Ceremony
<1>3. CASE Deactivate \/ Tick
  <2>1. /\ UNCHANGED <<passkey_credentials, ceremonies, counter, buried, txn>>
        /\ inactive \subseteq inactive' /\ inactive' \subseteq User
        /\ now' \in Nat /\ now <= now'
    BY <1>0, <1>3 DEF Deactivate, Tick, Inv, TypeOK
  <2>2. Made' = Made
    BY <2>1 DEF Made, Signed, Issued
  <2>3. TypeOK'
    BY <2>1 DEF Inv, TypeOK, Stored, Issued
  <2>4. ASSUME NEW k \in buried, NEW h \in Issued,
               ceremonies[h].purpose = "register", ceremonies[h].cred = k
        PROVE  ceremonies[h].exp <= now'
    BY <1>0, <2>1, <2>4 DEF Inv, TypeOK, TableInv, BuriedOver, Ceremony
  <2>5. TableInv'
    BY <2>1, <2>2, <2>4 DEF Inv, TableInv, OneRowPerCredential, BuriedOver,
       Stored, Issued, RowsOf
  <2>6. QED
    BY <2>1, <2>2, <2>3, <2>5, SessionsKept DEF Inv
<1>4. QED
  BY <1>1, <1>2, <1>3, SignStep

-----------------------------------------------------------------------------
(* COMMIT *)

\* What a commit does to the table, and to the requests of the others.
Kept(w) ==
  /\ Stored' \subseteq RowId /\ passkey_credentials' \in [Stored' -> Row]
  /\ buried' \subseteq Credential
  /\ TableInv'
  /\ \A v \in Worker \ {w} :
       /\ Found(txn[v])' /\ Covered(txn[v])'
       /\ txn[v].op = "register" => txn[v].cred \notin buried'

\* The facts a commit starts from.
LEMMA CommitFacts ==
  ASSUME Inv, NEW w \in Worker, Commit(w)
  PROVE  /\ txn[w].pc = "closing" /\ txn[w] \in Txn
         /\ passkey_credentials' = RowsAfter(txn[w])
         /\ Stored' = (Stored \cup {q \in {txn[w].row} : txn[w].inserted})
                        \ {q \in {txn[w].row} : txn[w].deleted}
         /\ UNCHANGED <<now, inactive, ceremonies, counter>>
         /\ Issued' = Issued /\ Made' = Made
         /\ txn' \in [Worker -> Txn]
         /\ txn'[w] = Idle
         /\ \A v \in Worker \ {w} : txn'[v] = txn[v]
         /\ SessionInv(txn[w])
         /\ \A v \in Worker \ {w} :
              /\ SessionInv(txn[v])
              /\ Apart(txn[v], txn[w]) /\ Apart(txn[w], txn[v])
<1>1. /\ passkey_credentials' = RowsAfter(txn[w])
      /\ txn' = [txn EXCEPT ![w] = Idle]
      /\ txn[w].pc = "closing"
      /\ UNCHANGED <<now, inactive, ceremonies, counter>>
  BY DEF Commit
<1>2. Stored' = (Stored \cup {q \in {txn[w].row} : txn[w].inserted})
                  \ {q \in {txn[w].row} : txn[w].deleted}
  BY <1>1 DEF Stored, RowsAfter
<1>3. Issued' = Issued /\ Made' = Made
  BY <1>1 DEF Issued, Made, Signed
<1>4. Idle \in Txn
  BY DEF Idle, Txn
<1>5. txn[w] \in Txn /\ txn' \in [Worker -> Txn]
  BY <1>1, <1>4 DEF Inv, TypeOK
<1>6. QED
  BY <1>1, <1>2, <1>3, <1>5 DEF Inv, TypeOK

\* A committed INSERT: the only row of its credential, which is not buried.
LEMMA CommitInsert ==
  ASSUME Inv, NEW w \in Worker, Commit(w), txn[w].inserted
  PROVE  Kept(w)
<1> DEFINE x == txn[w]
<1>1. /\ x.op = "register" /\ ~x.counted /\ ~x.deleted
      /\ x.row \in RowId /\ x.user \in User /\ x.cred \in Credential
      /\ x.count \in Nat
      /\ x.row \notin Stored /\ RowsOf(x.cred) = {}
      /\ x.cred \notin buried
  BY CommitFacts DEF SessionInv, Position, Found, Txn
<1>2. Stored' = Stored \cup {x.row}
  BY <1>1, CommitFacts
<1>3. /\ passkey_credentials'[x.row] =
           [user_id |-> x.user, credential_id |-> x.cred, sign_count |-> x.count]
      /\ \A r \in Stored : passkey_credentials'[r] = passkey_credentials[r]
      /\ passkey_credentials' = [r \in Stored' |-> passkey_credentials'[r]]
  BY <1>1, <1>2, CommitFacts DEF RowsAfter, Stored
<1>4. buried' = buried
  BY <1>1 DEF Commit
<1>5. Stored' \subseteq RowId /\ passkey_credentials' \in [Stored' -> Row]
  BY <1>1, <1>2, <1>3 DEF Inv, TypeOK, Row
<1>6. \A k : RowsOf(k)' = IF k = x.cred THEN {x.row} ELSE RowsOf(k)
  BY <1>1, <1>2, <1>3 DEF RowsOf
<1>7. TableInv'
  <2>1. OneRowPerCredential'
    BY <1>1, <1>2, <1>3
       DEF Inv, TableInv, OneRowPerCredential, RowsOf
  <2>2. BuriedOver'
    BY <1>1, <1>4, <1>6, CommitFacts DEF Inv, TableInv, BuriedOver
  <2>3. QED
    BY <2>1, <2>2 DEF TableInv
<1>8. ASSUME NEW v \in Worker \ {w}
      PROVE  /\ Found(txn[v])' /\ Covered(txn[v])'
             /\ txn[v].op = "register" => txn[v].cred \notin buried'
  <2>1. /\ txn[v].row # x.row /\ txn[v].covered # x.row
        /\ txn[v].inserted => txn[v].cred # x.cred
        /\ SessionInv(txn[v]) /\ txn'[v] = txn[v]
    BY CommitFacts DEF Apart
  <2>2. Found(txn[v])'
    BY <1>2, <1>3, <1>6, <2>1 DEF SessionInv, Found, Holds
  <2>3. Covered(txn[v])'
    BY <1>2, <1>3, <2>1 DEF SessionInv, Covered
  <2>4. QED
    BY <1>4, <2>1, <2>2, <2>3 DEF SessionInv
<1>9. QED
  BY <1>4, <1>5, <1>7, <1>8 DEF Kept, Inv, TypeOK

\* A committed DELETE: nobody else holds the row; if the ceremony that
\* registered the credential is over, no request can bring it back.
LEMMA CommitDelete ==
  ASSUME Inv, NEW w \in Worker, Commit(w), txn[w].deleted
  PROVE  Kept(w)
<1> DEFINE x == txn[w]
<1>1. /\ x.op = "delete" /\ ~x.inserted
      /\ x.row \in Stored /\ x.cred \in Made
      /\ passkey_credentials[x.row].credential_id = x.cred
  BY CommitFacts DEF SessionInv, Position, Found, Holds
<1>2. Stored' = Stored \ {x.row}
  BY <1>1, CommitFacts
<1>3. /\ \A r \in Stored' : passkey_credentials'[r] = passkey_credentials[r]
      /\ passkey_credentials' = [r \in Stored' |-> passkey_credentials'[r]]
  <2>1. ~x.counted
    BY <1>1, CommitFacts DEF SessionInv, Position
  <2>2. QED
    BY <1>1, <1>2, <2>1, CommitFacts DEF RowsAfter, Stored
<1>4. buried' = buried \cup {k \in {x.cred} : RegistrationOver(k)}
  BY <1>1 DEF Commit
<1>5. x.cred \in Credential
  BY <1>1 DEF Inv, TypeOK, Made, Signed, Ceremony
<1>6. Stored' \subseteq RowId /\ passkey_credentials' \in [Stored' -> Row]
  BY <1>2, <1>3 DEF Inv, TypeOK
<1>7. \A r \in Stored' :
        /\ passkey_credentials'[r] = passkey_credentials[r]
        /\ r \in RowsOf(passkey_credentials[r].credential_id)
        /\ passkey_credentials[r].credential_id # x.cred
  BY <1>1, <1>2, <1>3 DEF Inv, TableInv, OneRowPerCredential, RowsOf
<1>8. TableInv'
  <2>1. OneRowPerCredential'
    BY <1>2, <1>3 DEF Inv, TableInv, OneRowPerCredential
  <2>2. BuriedOver'
    <3>1. UNCHANGED <<now, ceremonies>> /\ Issued' = Issued /\ Made' = Made
      BY CommitFacts
    <3>2. ASSUME NEW k \in buried'
          PROVE  /\ RowsOf(k)' = {} /\ k \in Made
                 /\ \A h \in Issued :
                      ceremonies[h].purpose = "register"
                        /\ ceremonies[h].cred = k =>
                        ceremonies[h].exp <= now
      <4>1. CASE k \in buried
        BY <1>7, <4>1 DEF Inv, TableInv, BuriedOver, RowsOf
      <4>2. CASE k = x.cred /\ RegistrationOver(k)
        BY <1>1, <1>7, <4>2 DEF RegistrationOver, RowsOf
      <4>3. QED
        BY <1>4, <3>2, <4>1, <4>2
    <3>3. QED
      BY <3>1, <3>2 DEF BuriedOver
  <2>3. QED
    BY <2>1, <2>2 DEF TableInv
<1>9. ASSUME NEW v \in Worker \ {w}
      PROVE  /\ Found(txn[v])' /\ Covered(txn[v])'
             /\ txn[v].op = "register" => txn[v].cred \notin buried'
  <2>1. /\ SessionInv(txn[v]) /\ txn'[v] = txn[v]
        /\ Holds(txn[v]) => txn[v].row # x.row
    BY CommitFacts DEF Apart, Holds
  <2>2. Found(txn[v])'
    <3>1. txn[v].inserted => RowsOf(txn[v].cred)' = {}
      BY <1>7, <2>1 DEF SessionInv, Found, RowsOf
    <3>2. QED
      BY <1>2, <1>3, <2>1, <3>1 DEF SessionInv, Found, Holds
  <2>3. Covered(txn[v])'
    BY <1>2, <1>3, <2>1 DEF SessionInv, Covered
  <2>4. ASSUME txn[v].op = "register" PROVE txn[v].cred \notin buried'
    <3>1. txn[v].pc = "inserting" \/ RowsOf(txn[v].cred) = {}
      BY <2>1, <2>4 DEF SessionInv, Position, Found
    <3>2. x.row \in RowsOf(x.cred)
      BY <1>1 DEF RowsOf
    <3>3. QED
      BY <1>4, <2>1, <2>4, <3>1, <3>2 DEF SessionInv, RegistrationOver, At
  <2>5. QED
    BY <2>2, <2>3, <2>4
<1>10. QED
  BY <1>4, <1>5, <1>6, <1>8, <1>9 DEF Kept, Inv, TypeOK

\* A committed sign-in: a count above all that its row covered for others.
LEMMA CommitCount ==
  ASSUME Inv, NEW w \in Worker, Commit(w), ~txn[w].inserted, ~txn[w].deleted
  PROVE  Kept(w)
<1> DEFINE x == txn[w]
<1>1. Stored' = Stored
  BY CommitFacts
<1>2. /\ passkey_credentials' = [r \in Stored |->
           IF r = x.row /\ x.counted /\ x.count # x.read_count
             THEN [passkey_credentials[r] EXCEPT !.sign_count = x.count]
             ELSE passkey_credentials[r]]
  BY CommitFacts DEF RowsAfter
<1>3. buried' = buried
  BY DEF Commit
<1>4. ASSUME NEW r \in Stored
      PROVE  /\ passkey_credentials'[r] \in Row
             /\ passkey_credentials'[r].user_id = passkey_credentials[r].user_id
             /\ passkey_credentials'[r].credential_id =
                  passkey_credentials[r].credential_id
             /\ \/ passkey_credentials'[r] = passkey_credentials[r]
                \/ /\ r = x.row /\ x.counted /\ x.count # x.read_count
                   /\ passkey_credentials'[r].sign_count = x.count
  <2>1. passkey_credentials[r] \in Row /\ x.count \in Nat
    BY CommitFacts DEF Inv, TypeOK, Txn
  <2>2. QED
    BY <1>2, <2>1 DEF Row
<1>5. Stored' \subseteq RowId /\ passkey_credentials' \in [Stored' -> Row]
  BY <1>1, <1>2, <1>4 DEF Inv, TypeOK
<1>6. \A k : RowsOf(k)' = RowsOf(k)
  BY <1>1, <1>4 DEF RowsOf
<1>7. TableInv'
  <2>1. OneRowPerCredential'
    BY <1>1, <1>4 DEF Inv, TableInv, OneRowPerCredential
  <2>2. BuriedOver'
    BY <1>3, <1>6, CommitFacts DEF Inv, TableInv, BuriedOver
  <2>3. QED
    BY <2>1, <2>2 DEF TableInv
<1>8. ASSUME NEW v \in Worker \ {w}
      PROVE  /\ Found(txn[v])' /\ Covered(txn[v])'
             /\ txn[v].op = "register" => txn[v].cred \notin buried'
  <2>1. SessionInv(txn[v]) /\ txn'[v] = txn[v] /\ Apart(txn[v], x)
    BY CommitFacts
  <2>2. Found(txn[v])'
    BY <1>1, <1>4, <1>6, <2>1 DEF SessionInv, Found, Holds
  <2>3. Covered(txn[v])'
    <3> SUFFICES ASSUME txn[v].covered # None
                 PROVE  /\ txn[v].op = "sign_in" /\ 0 < txn[v].count
                        /\ txn[v].covered \in Stored =>
                             txn[v].count <=
                               passkey_credentials'[txn[v].covered].sign_count
                        /\ txn[v].row = txn[v].covered =>
                             txn[v].count <= txn[v].read_count
      BY <1>1, <2>1 DEF Covered
    <3>1. /\ txn[v].op = "sign_in" /\ 0 < txn[v].count
          /\ txn[v].covered \in Stored =>
               txn[v].count <= passkey_credentials[txn[v].covered].sign_count
          /\ txn[v].row = txn[v].covered => txn[v].count <= txn[v].read_count
      BY <2>1 DEF SessionInv, Covered
    <3>2. ASSUME x.row = txn[v].covered, x.counted, x.count # x.read_count
          PROVE  txn[v].count <= x.count
      <4>1. x.op = "sign_in" /\ CountAdvances(x)
        BY <3>2, CommitFacts DEF SessionInv, Position, Verified
      <4>2. txn[v].count <= x.read_count
        BY <2>1, <3>2, <4>1 DEF Apart
      <4>3. x.count > x.read_count
        BY <3>2, <4>1 DEF CountAdvances
      <4>4. /\ x.count \in Nat /\ x.read_count \in Nat
            /\ txn[v].count \in Nat
        BY <2>1, CommitFacts DEF SessionInv, Txn
      <4>5. QED
        BY <4>2, <4>3, <4>4
    <3>3. QED
      BY <1>4, <3>1, <3>2
  <2>4. QED
    BY <1>3, <2>1, <2>2, <2>3 DEF SessionInv
<1>9. QED
  BY <1>3, <1>5, <1>7, <1>8 DEF Kept, Inv, TypeOK

\* Every commit keeps Inv.
LEMMA CommitStep ==
  ASSUME Inv, NEW w \in Worker, Commit(w)
  PROVE  Inv'
<1>1. Kept(w)
  BY CommitInsert, CommitDelete, CommitCount
<1>2. SessionInv(Idle)'
  BY DEF Idle, SessionInv, Txn, Position, Found, Verified, Covered, Holds
<1>3. \A v \in Worker : Apart(Idle, txn[v]) /\ Apart(txn[v], Idle)
  BY NoneAssumption DEF Inv, TypeOK, Txn, SessionInv, Position, Idle, Apart, Holds
<1>4. ASSUME NEW v \in Worker PROVE SessionInv(txn[v])'
  <2>1. CASE v = w
    <3>1. txn'[v] = Idle
      BY <2>1, CommitFacts
    <3>2. QED
      BY <1>2, <3>1 DEF SessionInv, Position, Found, Verified, Covered,
         CountAdvances, Holds
  <2>2. CASE v # w
    <3>1. txn'[v] = txn[v] /\ SessionInv(txn[v])
      BY <2>2, CommitFacts
    <3>2. Position(txn[v])' /\ Verified(txn[v])'
      BY <3>1, CommitFacts DEF SessionInv, Position, Verified, CountAdvances
    <3>3. QED
      BY <1>1, <2>2, <3>1, <3>2 DEF SessionInv, Kept
  <2>3. QED
    BY <2>1, <2>2
<1>5. ASSUME NEW v \in Worker, NEW u \in Worker, v # u
      PROVE  Apart(txn[v], txn[u])'
  <2>1. Apart(txn'[v], txn'[u])
    BY <1>3, <1>5, CommitFacts DEF Inv
  <2>2. QED
    BY <2>1 DEF Apart, Holds
<1>6. TypeOK'
  <2>1. /\ UNCHANGED <<now, inactive, ceremonies, counter>>
        /\ txn' \in [Worker -> Txn]
    BY CommitFacts
  <2>2. QED
    BY <1>1, <2>1 DEF Inv, TypeOK, Kept, Issued
<1>7. QED
  BY <1>1, <1>4, <1>5, <1>6 DEF Inv, Kept

-----------------------------------------------------------------------------
(* The theorems *)

\* Init establishes the invariant.
LEMMA Initially == Init => Inv
<1> SUFFICES ASSUME Init PROVE Inv
  OBVIOUS
<1>1. Idle \in Txn
  BY DEF Idle, Txn
<1>2. TypeOK
  BY <1>1 DEF Init, TypeOK, Stored, Issued
<1>3. TableInv
  BY DEF Init, TableInv, OneRowPerCredential, BuriedOver, Stored
<1>4. SessionInv(Idle)
  BY <1>1 DEF Idle, SessionInv, Position, Found, Verified, Covered, Holds
<1>5. Apart(Idle, Idle)
  BY DEF Idle, Apart, Holds
<1>6. QED
  BY <1>2, <1>3, <1>4, <1>5 DEF Init, Inv

\* Every step keeps it.
LEMMA Inductive == Inv /\ [Next]_vars => Inv'
<1> SUFFICES ASSUME Inv, [Next]_vars PROVE Inv'
  OBVIOUS
<1>1. CASE UNCHANGED vars
  <2>1. Made' = Made /\ inactive' = inactive
    BY <1>1 DEF vars, Made, Signed, Issued
  <2>2. TypeOK' /\ TableInv'
    BY <1>1, <2>1 DEF vars, Inv, TypeOK, TableInv, OneRowPerCredential,
       BuriedOver, Stored, Issued, RowsOf
  <2>3. QED
    BY <1>1, <2>1, <2>2, SessionsKept DEF vars, Inv
<1>2. CASE RegisterBegin \/ AuthenticateBegin \/ Sign \/ Deactivate \/ Tick
  BY <1>2, OutsideStep
<1>3. ASSUME NEW w \in Worker, Register(w) PROVE Inv'
  BY <1>3, StartRegisterStep, InsertStep, EndStep DEF Register, InsertConflicts
<1>4. ASSUME NEW w \in Worker, SignIn(w) PROVE Inv'
  BY <1>4, StartSignInStep, FindStep, AdvanceStep, LockStep, EndStep
     DEF SignIn, SignInRefused, AssertionRefused, UpdateCountGone
<1>5. ASSUME NEW w \in Worker, Delete(w) PROVE Inv'
  BY <1>5, StartDeleteStep, LockStep DEF Delete
<1>6. ASSUME NEW w \in Worker, Commit(w) \/ Crash(w) PROVE Inv'
  BY <1>6, CommitStep, EndStep
<1>7. QED
  BY <1>1, <1>2, <1>3, <1>4, <1>5, <1>6 DEF Next

\* Inv is an invariant of Passkey.
THEOREM Invariance == Spec => []Inv
  BY Initially, Inductive, PTL DEF Spec

\* TypeOK for every value of the constants.
THEOREM TypeCorrect == Spec => []TypeOK
<1>1. Inv => TypeOK
  BY DEF Inv
<1>2. QED
  BY <1>1, Invariance, PTL

\* However completions of one registration interleave with deletions and with
\* each other, a credential has one row.
THEOREM CredentialsUnique == Spec => []OneRowPerCredential
<1>1. Inv => OneRowPerCredential
  BY DEF Inv, TableInv
<1>2. QED
  BY <1>1, Invariance, PTL

\* The row that covered an assertion when it arrived signs nobody in: whatever
\* is committed in between, the count it reads from that row is no smaller.
THEOREM ReplaysSignNobodyIn == Spec => []ReplayNeverSignsIn
<1>1. Inv => ReplayNeverSignsIn
  <2> SUFFICES ASSUME Inv, NEW w \in Worker, txn[w].session,
                      txn[w].covered # None, txn[w].row = txn[w].covered
               PROVE  FALSE
    BY DEF ReplayNeverSignsIn
  <2>1. SessionInv(txn[w])
    BY DEF Inv
  <2>2. CountAdvances(txn[w])
    BY <2>1 DEF SessionInv, Position, Verified
  <2>3. 0 < txn[w].count /\ txn[w].count <= txn[w].read_count
    BY <2>1 DEF SessionInv, Covered
  <2>4. txn[w].count \in Nat /\ txn[w].read_count \in Nat
    BY <2>1 DEF SessionInv, Txn
  <2>5. QED
    BY <2>2, <2>3, <2>4 DEF CountAdvances
<1>2. QED
  BY <1>1, Invariance, PTL

\* A session is issued on a row that is stored and its user's.
THEOREM DeletedSignsNobodyIn == Spec => []DeletedNeverSignsIn
<1>1. Inv => DeletedNeverSignsIn
  BY DEF Inv, SessionInv, Position, Found, Holds, DeletedNeverSignsIn
<1>2. QED
  BY <1>1, Invariance, PTL

\* A sign-in that arrives after the deactivation gets no session.
THEOREM DeactivatedOut == Spec => []DeactivatedStaysOut
<1>1. Inv => DeactivatedStaysOut
  BY DEF Inv, SessionInv, Position, Verified, DeactivatedStaysOut
<1>2. QED
  BY <1>1, Invariance, PTL

\* A credential deleted after its ceremony never has a row again.
THEOREM DeletionIsFinal == Spec => []DeletedStaysDeleted
<1>1. Inv => DeletedStaysDeleted
  BY DEF Inv, TableInv, BuriedOver, DeletedStaysDeleted
<1>2. QED
  BY <1>1, Invariance, PTL

\* Only a commit of the owner's deletion removes a row, and no other request
\* holds it then.
THEOREM DeletionIsTheOwners == Spec => OnlyOwnerDeletes
<1> DEFINE Step == \A r \in Stored \ Stored' :
       /\ \A v \in Worker : ~(txn[v].row = r /\ txn[v].counted)
       /\ \E w \in Worker :
            /\ txn[w].deleted /\ txn[w].row = r
            /\ txn[w].user = passkey_credentials[r].user_id
<1>1. Inv /\ [Next]_vars => [Step]_vars
  <2> SUFFICES ASSUME Inv, [Next]_vars, NEW r \in Stored \ Stored'
               PROVE  /\ \A v \in Worker : ~(txn[v].row = r /\ txn[v].counted)
                      /\ \E w \in Worker :
                           /\ txn[w].deleted /\ txn[w].row = r
                           /\ txn[w].user = passkey_credentials[r].user_id
    OBVIOUS
  <2>1. PICK w \in Worker : Commit(w)
    <3>1. passkey_credentials' # passkey_credentials
      BY DEF Stored
    <3>2. QED
      BY <3>1 DEF Next, vars, Register, SignIn, Delete, StartRegister,
         InsertPasskey, InsertConflicts, StartSignIn, FindPasskey,
         SignInRefused, AssertionVerified, AssertionRefused, UpdateCount,
         UpdateCountGone, TouchUser, IssueSession, IssueFails, StartDelete,
         DeletePasskey, Crash, Advance, Refuse, RegisterBegin,
         AuthenticateBegin, Mint, Sign, Deactivate, Tick
  <2>2. txn[w].deleted /\ txn[w].row = r
    BY <2>1, CommitFacts
  <2>3. txn[w].user = passkey_credentials[r].user_id
    BY <2>1, <2>2, CommitFacts DEF SessionInv, Position, Found
  <2>4. ASSUME NEW v \in Worker PROVE ~(txn[v].row = r /\ txn[v].counted)
    <3>1. CASE v = w
      BY <2>2, <3>1 DEF Inv, SessionInv, Position
    <3>2. CASE v # w
      BY <2>2, <3>2 DEF Inv, Apart, Holds
    <3>3. QED
      BY <3>1, <3>2
  <2>5. QED
    BY <2>2, <2>3, <2>4
<1>2. QED
  BY <1>1, Invariance, PTL DEF Spec, OnlyOwnerDeletes
=============================================================================
