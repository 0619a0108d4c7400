------------------------------- MODULE Passkey -------------------------------
(***************************************************************************)
(* Passkeys: the two WebAuthn ceremonies (register, sign in) and the       *)
(* removal of a passkey.  A ceremony begins with a challenge inside a      *)
(* signed state token; nothing is stored for it, so an unexpired state can *)
(* be presented any number of times.  Completions and deletions are READ   *)
(* COMMITTED transactions of a worker each, one step per SQL statement.    *)
(*                                                                         *)
(* Every app shares one relying party here; the session that a sign-in     *)
(* issues is a refresh token of RefreshTokens.  A definition right before  *)
(* the one whose name its own extends is that definition with a fault, for *)
(* testing the properties.                                                 *)
(***************************************************************************)
EXTENDS Naturals

CONSTANTS
  User,        \* users.id
  Client,      \* app_clients.client_id
  Credential,  \* credential ids; an authenticator makes each of them once
  RowId,       \* passkey_credentials.id
  Challenge,   \* challenges; each is minted once and names its state token
  Worker,      \* gunicorn sync workers
  None,        \* "no value"
  TTL,         \* _STATE_TTL_SECONDS, in ticks
  MaxTime      \* bound on the clock

ASSUME NoneAssumption ==
  None \notin User \cup Client \cup Credential \cup RowId \cup Challenge
ASSUME TimeAssumption == TTL \in Nat /\ MaxTime \in Nat

VARIABLES
  now,                   \* the wall clock
  inactive,              \* users whose is_active is false
  passkey_credentials,   \* committed rows
  ceremonies,            \* state tokens issued, and what was signed for them
  counter,               \* the signature counter of each authenticator
  buried,                \* history: credentials deleted once the ceremony
                         \* that registered them was over
  txn                    \* the request each worker is serving

vars == <<now, inactive, passkey_credentials, ceremonies, counter, buried, txn>>

-----------------------------------------------------------------------------
Row == [user_id : User, credential_id : Credential, sign_count : Nat]

\* user belongs to the state of a registration, client to the state of a
\* sign-in.  cred and count are what the authenticator signed, if it has.
Ceremony == [purpose : {"register", "authenticate"}, user : User \cup {None},
             client : Client \cup {None}, exp : Nat,
             cred : Credential \cup {None}, count : Nat]

\* The session of a worker.  user and client authenticate the request, or
\* user is the owner of the passkey it looked up; row is the row it read or
\* inserted and read_count its sign_count.  inserted, counted, deleted and
\* touched are its writes.  History: the users barred, and the row that
\* already covered the presented count, when the request arrived.
Txn == [pc : {"idle", "inserting", "lookup", "asserting", "counting",
              "touching", "issuing", "deleting", "closing"},
        op : {"none", "register", "sign_in", "delete"},
        user : User \cup {None}, client : Client \cup {None},
        challenge : Challenge \cup {None}, cred : Credential \cup {None},
        row : RowId \cup {None}, count : Nat, read_count : Nat,
        inserted : BOOLEAN, counted : BOOLEAN, deleted : BOOLEAN,
        touched : BOOLEAN, session : BOOLEAN,
        barred : SUBSET User, covered : RowId \cup {None}]

Idle == [pc |-> "idle", op |-> "none", user |-> None, client |-> None,
         challenge |-> None, cred |-> None, row |-> None, count |-> 0,
         read_count |-> 0, inserted |-> FALSE, counted |-> FALSE,
         deleted |-> FALSE, touched |-> FALSE, session |-> FALSE,
         barred |-> {}, covered |-> None]

Stored == DOMAIN passkey_credentials
RowsOf(k) == {r \in Stored : passkey_credentials[r].credential_id = k}
Issued == DOMAIN ceremonies
Signed == {h \in Issued : ceremonies[h].cred # None}

Init ==
  /\ now = 0
  /\ inactive = {}
  /\ passkey_credentials = [r \in {} |-> None]
  /\ ceremonies = [h \in {} |-> None]
  /\ counter = [k \in Credential |-> 0]
  /\ buried = {}
  /\ txn = [w \in Worker |-> Idle]

-----------------------------------------------------------------------------
(* Ceremonies: the begin routes, and the authenticator *)

Mint(ceremony) ==
  /\ \E h \in Challenge \ Issued :
       ceremonies' = [g \in Issued \cup {h} |->
                        IF g = h THEN ceremony ELSE ceremonies[g]]
  /\ UNCHANGED <<now, inactive, passkey_credentials, counter, buried, txn>>

\* register_begin reads the user and the passkeys to exclude, and writes
\* nothing; the state token is issue_state's.
RegisterBegin ==
  \E u \in User :
    Mint([purpose |-> "register", user |-> u, client |-> None,
          exp |-> now + TTL, cred |-> None, count |-> 0])

AuthenticateBegin ==
  \E c \in Client :
    Mint([purpose |-> "authenticate", user |-> None, client |-> c,
          exp |-> now + TTL, cred |-> None, count |-> 0])

\* A registration makes a new credential; a sign-in uses any the person's
\* authenticators hold, also one that Knuckles has forgotten.  The counter is
\* 0 in authenticators that do not count, and else goes up with every use.
Made == {ceremonies[h].cred : h \in Signed}
Sign ==
  \E h \in Issued \ Signed, k \in Credential :
    \E count \in {counter[k] + 1} \cup {n \in {0} : counter[k] = 0} :
      /\ (k \notin Made) = (ceremonies[h].purpose = "register")
      /\ ceremonies' = [ceremonies EXCEPT ![h].cred = k, ![h].count = count]
      /\ counter' = [counter EXCEPT ![k] = count]
      /\ UNCHANGED <<now, inactive, passkey_credentials, buried, txn>>

-----------------------------------------------------------------------------
(* What a completion checks *)

Advance(w, x) ==
  /\ txn' = [txn EXCEPT ![w] = x]
  /\ UNCHANGED <<now, inactive, passkey_credentials, ceremonies, counter, buried>>

\* Refused before the first write, or a failed flush, which rolls back: the
\* teardown commits nothing.
Refuse(w) == Advance(w, Idle)

At(w, op, pc) == txn[w].op = op /\ txn[w].pc = pc

\* verify_state, then the binding to the caller.
StateExpiredNever(h) == FALSE
StateExpired(h) == ceremonies[h].exp <= now

StateValid(h, purpose) ==
  ceremonies[h].purpose = purpose /\ ~StateExpired(h)

BoundToCaller(x) ==
  IF x.op = "register" THEN ceremonies[x.challenge].user = x.user
                       ELSE ceremonies[x.challenge].client = x.client

\* verify_authentication_response: a counter that is in use must advance.
CountAdvancesOrRepeats(x) == x.count >= x.read_count
CountAdvances(x) ==
  x.count > x.read_count \/ (x.count = 0 /\ x.read_count = 0)

IsActiveIgnored(u) == TRUE
IsActive(u) == u \notin inactive

\* Another open transaction has updated or deleted the row.
RowLocked(w) ==
  \E v \in Worker \ {w} :
    txn[v].row = txn[w].row /\ (txn[v].counted \/ txn[v].deleted)

RowGoneNever(x) == FALSE
RowGone(x) == x.row \notin Stored

-----------------------------------------------------------------------------
(* register_complete *)

\* The completion is verified without reading the table; one that fails is
\* answered at once and changes nothing.
StartRegister(w) ==
  /\ txn[w].pc = "idle"
  /\ \E u \in User, h \in Signed :
       LET x == [Idle EXCEPT !.pc = "inserting", !.op = "register",
                             !.user = u, !.challenge = h,
                             !.cred = ceremonies[h].cred,
                             !.count = ceremonies[h].count]
       IN /\ StateValid(h, "register")
          /\ BoundToCaller(x)
          /\ Advance(w, x)

\* The unique index of credential_id makes an INSERT wait for an open
\* transaction that inserted the credential or deleted its row.
InsertWaits(w) ==
  \E v \in Worker \ {w} :
    txn[v].cred = txn[w].cred /\ (txn[v].inserted \/ txn[v].deleted)

TakenNever(k) == FALSE
Taken(k) == RowsOf(k) # {}

FreshRow(r) ==
  /\ r \notin Stored
  /\ \A v \in Worker : txn[v].row # r /\ txn[v].covered # r

\* create_passkey
InsertPasskey(w) ==
  /\ At(w, "register", "inserting")
  /\ ~InsertWaits(w)
  /\ ~Taken(txn[w].cred)
  /\ \E r \in RowId :
       /\ FreshRow(r)
       /\ Advance(w, [txn[w] EXCEPT !.pc = "closing", !.row = r,
                                    !.inserted = TRUE])

\* IntegrityError: the ceremony was already completed.
InsertConflicts(w) ==
  /\ At(w, "register", "inserting")
  /\ ~InsertWaits(w)
  /\ Taken(txn[w].cred)
  /\ Refuse(w)

-----------------------------------------------------------------------------
(* authenticate_complete *)

\* The row that makes the presented assertion a replay: it covers the count,
\* and no sign-in that read it earlier is still under way.
Covering(h) ==
  {r \in RowsOf(ceremonies[h].cred) :
     /\ 0 < ceremonies[h].count
     /\ ceremonies[h].count <= passkey_credentials[r].sign_count
     /\ \A v \in Worker : ~(txn[v].op = "sign_in" /\ txn[v].row = r)}

StartSignIn(w) ==
  /\ txn[w].pc = "idle"
  /\ \E c \in Client, h \in Signed :
       \E r \in IF Covering(h) = {} THEN {None} ELSE Covering(h) :
         Advance(w, [Idle EXCEPT !.pc = "lookup", !.op = "sign_in",
                                 !.client = c, !.challenge = h,
                                 !.cred = ceremonies[h].cred,
                                 !.count = ceremonies[h].count,
                                 !.barred = inactive, !.covered = r])

\* get_passkey_by_credential_id
FindPasskey(w) ==
  LET x == txn[w]
  IN /\ At(w, "sign_in", "lookup")
     /\ StateValid(x.challenge, "authenticate")
     /\ BoundToCaller(x)
     /\ \E r \in RowsOf(x.cred) :
          Advance(w, [x EXCEPT !.pc = "asserting", !.row = r,
                               !.user = passkey_credentials[r].user_id,
                               !.read_count = passkey_credentials[r].sign_count])

SignInRefused(w) ==
  LET x == txn[w]
  IN /\ At(w, "sign_in", "lookup")
     /\ \/ ~StateValid(x.challenge, "authenticate")
        \/ ~BoundToCaller(x)
        \/ RowsOf(x.cred) = {}
     /\ Refuse(w)

\* stored.user is loaded by a statement of its own; the assertion is verified
\* against the count that was read with the passkey.
AssertionVerified(w) ==
  /\ At(w, "sign_in", "asserting")
  /\ IsActive(txn[w].user)
  /\ CountAdvances(txn[w])
  /\ Advance(w, [txn[w] EXCEPT !.pc = "counting"])

AssertionRefused(w) ==
  /\ At(w, "sign_in", "asserting")
  /\ ~(IsActive(txn[w].user) /\ CountAdvances(txn[w]))
  /\ Refuse(w)

\* update_passkey_sign_count: UPDATE ... WHERE id = :id.
UpdateCount(w) ==
  /\ At(w, "sign_in", "counting")
  /\ ~RowLocked(w)
  /\ ~RowGone(txn[w])
  /\ Advance(w, [txn[w] EXCEPT !.pc = "touching", !.counted = TRUE])

\* StaleDataError: the UPDATE matched no row.
UpdateCountGone(w) ==
  /\ At(w, "sign_in", "counting")
  /\ ~RowLocked(w)
  /\ RowGone(txn[w])
  /\ Refuse(w)

UserLocked(u) == \E v \in Worker : txn[v].touched /\ txn[v].user = u

\* update_last_seen
TouchUser(w) ==
  /\ At(w, "sign_in", "touching")
  /\ ~UserLocked(txn[w].user)
  /\ Advance(w, [txn[w] EXCEPT !.pc = "issuing", !.touched = TRUE])

IssueSession(w) ==
  /\ At(w, "sign_in", "issuing")
  /\ Advance(w, [txn[w] EXCEPT !.pc = "closing", !.session = TRUE])

\* issue_access_token raises; the teardown commits the new count.
IssueFails(w) ==
  /\ At(w, "sign_in", "issuing")
  /\ Advance(w, [txn[w] EXCEPT !.pc = "closing"])

-----------------------------------------------------------------------------
(* DELETE /auth/passkey/<credential_id> *)

\* delete_passkey_for_user selects by user and credential; without a match
\* the answer is 404 and nothing changes.
RowsToDeleteOfAnyone(u, k) == RowsOf(k)
RowsToDelete(u, k) == {r \in RowsOf(k) : passkey_credentials[r].user_id = u}

StartDelete(w) ==
  /\ txn[w].pc = "idle"
  /\ \E u \in User, k \in Made : \E r \in RowsToDelete(u, k) :
       Advance(w, [Idle EXCEPT !.pc = "deleting", !.op = "delete",
                               !.user = u, !.cred = k, !.row = r])

\* DELETE ... WHERE id = :id; that it matched no row is only a warning.
DeletePasskey(w) ==
  /\ At(w, "delete", "deleting")
  /\ ~RowLocked(w)
  /\ Advance(w, [txn[w] EXCEPT !.pc = "closing",
                               !.deleted = txn[w].row \in Stored])

-----------------------------------------------------------------------------
(* Ends of requests, the operator, time *)

\* The table once the transaction x has committed.  An unchanged sign_count
\* is not part of the UPDATE.
RowsAfterOwnerless(x) ==
  [r \in (Stored \cup {q \in {x.row} : x.inserted})
           \ {q \in {x.row} : x.deleted} |->
     IF r = x.row /\ x.inserted
       THEN [user_id |-> None, credential_id |-> x.cred,
             sign_count |-> x.count]
       ELSE passkey_credentials[r]]
RowsAfter(x) ==
  [r \in (Stored \cup {q \in {x.row} : x.inserted})
           \ {q \in {x.row} : x.deleted} |->
     IF r = x.row /\ x.inserted
       THEN [user_id |-> x.user, credential_id |-> x.cred,
             sign_count |-> x.count]
     ELSE IF r = x.row /\ x.counted /\ x.count # x.read_count
       THEN [passkey_credentials[r] EXCEPT !.sign_count = x.count]
       ELSE passkey_credentials[r]]

\* No completion of the ceremony that made k can succeed any more.
RegistrationOver(k) ==
  /\ \A h \in Issued :
       ceremonies[h].purpose = "register" /\ ceremonies[h].cred = k =>
         ceremonies[h].exp <= now
  /\ \A v \in Worker : ~(At(v, "register", "inserting") /\ txn[v].cred = k)

\* session.commit(), then the response.
Commit(w) ==
  LET x == txn[w]
  IN /\ x.pc = "closing"
     /\ passkey_credentials' = RowsAfter(x)
     /\ buried' = buried \cup {k \in {x.cred} : x.deleted /\ RegistrationOver(k)}
     /\ txn' = [txn EXCEPT ![w] = Idle]
     /\ UNCHANGED <<now, inactive, ceremonies, counter>>

Crash(w) ==
  /\ txn[w].pc # "idle"
  /\ Advance(w, Idle)

\* The operator clears is_active; no code under knuckles/ does.
Deactivate ==
  \E u \in User \ inactive :
    /\ ~UserLocked(u)
    /\ inactive' = inactive \cup {u}
    /\ UNCHANGED <<now, passkey_credentials, ceremonies, counter, buried, txn>>

Tick ==
  /\ now < MaxTime
  /\ now' = now + 1
  /\ UNCHANGED <<inactive, passkey_credentials, ceremonies, counter, buried, txn>>

-----------------------------------------------------------------------------
Register(w) ==
  StartRegister(w) \/ InsertPasskey(w) \/ InsertConflicts(w)

SignIn(w) ==
  \/ StartSignIn(w) \/ FindPasskey(w) \/ SignInRefused(w)
  \/ AssertionVerified(w) \/ AssertionRefused(w)
  \/ UpdateCount(w) \/ UpdateCountGone(w) \/ TouchUser(w)
  \/ IssueSession(w) \/ IssueFails(w)

Delete(w) == StartDelete(w) \/ DeletePasskey(w)

Next ==
  \/ RegisterBegin \/ AuthenticateBegin \/ Sign \/ Deactivate \/ Tick
  \/ \E w \in Worker :
       Register(w) \/ SignIn(w) \/ Delete(w) \/ Commit(w) \/ Crash(w)

Spec == Init /\ [][Next]_vars

-----------------------------------------------------------------------------
(* Properties *)

\* Every variable keeps its shape.
TypeOK ==
  /\ now \in Nat
  /\ inactive \subseteq User
  /\ Stored \subseteq RowId /\ passkey_credentials \in [Stored -> Row]
  /\ Issued \subseteq Challenge /\ ceremonies \in [Issued -> Ceremony]
  /\ counter \in [Credential -> Nat]
  /\ buried \subseteq Credential
  /\ txn \in [Worker -> Txn]

\* A repeated completion never adds a second row for a credential, although
\* the state token is not consumed by the first.
OneRowPerCredential ==
  \A r, s \in Stored :
    passkey_credentials[r].credential_id = passkey_credentials[s].credential_id
      => r = s

\* An assertion that the stored count covered when it arrived, with no other
\* sign-in of the passkey under way, signs nobody in, whatever else happens
\* before its transaction ends.  (Sign-ins that overlap may store their counts
\* in either order, which is why the second condition is there.)
ReplayNeverSignsIn ==
  \A w \in Worker :
    txn[w].session /\ txn[w].covered # None => txn[w].row # txn[w].covered

\* A sign-in that is about to commit a session holds the row of its passkey,
\* still stored and still its user's: deleting a passkey ends sign-ins with it.
DeletedNeverSignsIn ==
  \A w \in Worker :
    txn[w].session =>
      /\ txn[w].row \in Stored
      /\ passkey_credentials[txn[w].row].user_id = txn[w].user

\* A sign-in that arrives after the account was deactivated gets no session.
DeactivatedStaysOut ==
  \A w \in Worker : txn[w].session => txn[w].user \notin txn[w].barred

\* A passkey deleted after its registration ceremony was over never returns.
\* (Within the ceremony's lifetime the same state can register it again.)
DeletedStaysDeleted == \A k \in buried : RowsOf(k) = {}

\* A row leaves the table only when its owner deletes it, and never while a
\* sign-in that has already counted on it is open.
OnlyOwnerDeletes ==
  [][\A r \in Stored \ Stored' :
       /\ \A v \in Worker : ~(txn[v].row = r /\ txn[v].counted)
       /\ \E w \in Worker :
            /\ txn[w].deleted /\ txn[w].row = r
            /\ txn[w].user = passkey_credentials[r].user_id]_vars
=============================================================================
