----------------------------- MODULE OAuthUpsert -----------------------------
(***************************************************************************)
(* Sign-in with Google or Apple: POST /v1/auth/{google,apple}/complete,    *)
(* which exchanges the code for a profile and finds or creates the user    *)
(* and the link of the identity (upsert_oauth_user).  The two providers    *)
(* differ only in how the profile is obtained.  Requests are READ          *)
(* COMMITTED transactions, one step per SQL statement.                     *)
(*                                                                         *)
(* A definition right before the one whose name its own extends is that    *)
(* definition with a fault, for testing the properties.                    *)
(***************************************************************************)
CONSTANTS
  Identity,  \* pairs of provider and provider_user_id
  Email,     \* addresses, lowercased
  User,      \* users.id
  LinkId,    \* user_oauth_providers.id
  Worker,    \* gunicorn sync workers
  None       \* "no value"

ASSUME NoneAssumption == None \notin Email \cup User \cup LinkId

VARIABLES
  users,                  \* committed rows
  user_oauth_providers,   \* committed rows
  profile,                \* the address the provider reports for an identity
  txn                     \* the request each worker is serving

vars == <<users, user_oauth_providers, profile, txn>>

-----------------------------------------------------------------------------
\* via_oauth is history: an OAuth completion created the user.
UserRow == [email : Email, is_active : BOOLEAN, via_oauth : BOOLEAN]
LinkRow == [identity : Identity, user_id : User]

\* The session of a worker.  new_user, new_link: it inserted user, link.
\* link_locked, user_locked: it updated their rows.  owners and barred are
\* history: the users the identity was linked to, and the deactivated users,
\* when the request arrived.
Txn == [pc : {"idle", "exchanging", "lookup", "owner", "refreshing", "finding",
              "creating", "linking", "touching", "issuing", "closing"},
        identity : Identity \cup {None}, email : Email \cup {None},
        user : User \cup {None}, link : LinkId \cup {None},
        new_user : BOOLEAN, new_link : BOOLEAN,
        link_locked : BOOLEAN, user_locked : BOOLEAN,
        session : BOOLEAN, owners : SUBSET User, barred : SUBSET User]

Idle == [pc |-> "idle", identity |-> None, email |-> None, user |-> None,
         link |-> None, new_user |-> FALSE, new_link |-> FALSE,
         link_locked |-> FALSE, user_locked |-> FALSE,
         session |-> FALSE, owners |-> {}, barred |-> {}]

Linked == DOMAIN user_oauth_providers
LinksOf(i) == {l \in Linked : user_oauth_providers[l].identity = i}
OwnersOf(i) == {user_oauth_providers[l].user_id : l \in LinksOf(i)}
Registered == DOMAIN users
KnownEmails == {users[u].email : u \in Registered}

IsActiveIgnored(u) == TRUE
IsActive(u) == users[u].is_active

Init ==
  /\ users = [u \in {} |-> None]
  /\ user_oauth_providers = [l \in {} |-> None]
  /\ profile \in [Identity -> Email]
  /\ txn = [w \in Worker |-> Idle]

Advance(w, x) ==
  /\ txn' = [txn EXCEPT ![w] = x]
  /\ UNCHANGED <<users, user_oauth_providers, profile>>

\* The error handlers answer before the first write; the teardown commits
\* nothing.
Refuse(w) == Advance(w, Idle)

-----------------------------------------------------------------------------
(* google_oauth.complete, apple_oauth.complete *)

StartComplete(w) ==
  /\ txn[w].pc = "idle"
  /\ \E i \in Identity :
       Advance(w, [Idle EXCEPT !.pc = "exchanging", !.identity = i,
                               !.owners = OwnersOf(i),
                               !.barred = {u \in Registered :
                                             ~users[u].is_active}])

\* The provider redeems the code and reports the profile.
Exchange(w) ==
  /\ txn[w].pc = "exchanging"
  /\ Advance(w, [txn[w] EXCEPT !.pc = "lookup",
                               !.email = profile[txn[w].identity]])

\* Bad state token, provider unreachable, code refused, profile unusable.
ExchangeFails(w) ==
  /\ txn[w].pc = "exchanging"
  /\ Refuse(w)

-----------------------------------------------------------------------------
(* upsert_oauth_user *)

\* get_oauth_provider (scalar_one_or_none).
LinkFound(w) ==
  /\ txn[w].pc = "lookup"
  /\ \E l \in Linked :
       /\ LinksOf(txn[w].identity) = {l}
       /\ Advance(w, [txn[w] EXCEPT !.pc = "owner", !.link = l,
                                    !.user = user_oauth_providers[l].user_id])

LinkMissingToEmail(x) == x.email \in KnownEmails \/ LinksOf(x.identity) = {}
LinkMissing(x) == LinksOf(x.identity) = {}

NoLinkFound(w) ==
  /\ txn[w].pc = "lookup"
  /\ LinkMissing(txn[w])
  /\ Advance(w, [txn[w] EXCEPT !.pc = "finding"])

\* MultipleResultsFound
LinkAmbiguous(w) ==
  /\ txn[w].pc = "lookup"
  /\ \E k, l \in LinksOf(txn[w].identity) : k # l
  /\ Refuse(w)

\* existing.user is loaded by a statement of its own.
OwnerActive(w) ==
  /\ txn[w].pc = "owner"
  /\ IsActive(txn[w].user)
  /\ Advance(w, [txn[w] EXCEPT !.pc = "refreshing"])

OwnerInactive(w) ==
  /\ txn[w].pc = "owner"
  /\ ~IsActive(txn[w].user)
  /\ Refuse(w)

\* Another open transaction has updated the link's row.
LinkLocked(w) ==
  \E v \in Worker \ {w} : txn[v].link_locked /\ txn[v].link = txn[w].link

\* update_oauth_tokens
RefreshLink(w) ==
  /\ txn[w].pc = "refreshing"
  /\ ~LinkLocked(w)
  /\ Advance(w, [txn[w] EXCEPT !.pc = "touching", !.link_locked = TRUE])

\* get_user_by_email
FindUser(w) ==
  /\ txn[w].pc = "finding"
  /\ \E u \in Registered :
       /\ users[u].email = txn[w].email
       /\ IsActive(u)
       /\ Advance(w, [txn[w] EXCEPT !.pc = "linking", !.user = u])

FindInactiveUser(w) ==
  /\ txn[w].pc = "finding"
  /\ \E u \in Registered : users[u].email = txn[w].email /\ ~IsActive(u)
  /\ Refuse(w)

FindNoUser(w) ==
  /\ txn[w].pc = "finding"
  /\ txn[w].email \notin KnownEmails
  /\ Advance(w, [txn[w] EXCEPT !.pc = "creating"])

\* The unique index of users.email makes an INSERT wait for an open
\* transaction that inserted the same address.
Inserting(e) == \E v \in Worker : txn[v].new_user /\ txn[v].email = e

FreshUser(u) == u \notin Registered /\ \A v \in Worker : txn[v].user # u
FreshLink(l) == l \notin Linked /\ \A v \in Worker : txn[v].link # l

\* create_user
CreateUser(w) ==
  /\ txn[w].pc = "creating"
  /\ txn[w].email \notin KnownEmails
  /\ ~Inserting(txn[w].email)
  /\ \E u \in User :
       /\ FreshUser(u)
       /\ Advance(w, [txn[w] EXCEPT !.pc = "linking", !.user = u,
                                    !.new_user = TRUE])

\* IntegrityError: the failed flush has rolled the transaction back.
CreateUserConflicts(w) ==
  /\ txn[w].pc = "creating"
  /\ txn[w].email \in KnownEmails
  /\ Advance(w, Idle)

\* create_oauth_provider: no constraint on the identity can refuse it.
LinkIdentity(w) ==
  /\ txn[w].pc = "linking"
  /\ \E l \in LinkId :
       /\ FreshLink(l)
       /\ Advance(w, [txn[w] EXCEPT !.pc = "touching", !.link = l,
                                    !.new_link = TRUE])

UserLocked(u) == \E v \in Worker : txn[v].user_locked /\ txn[v].user = u

\* update_last_seen
TouchUser(w) ==
  /\ txn[w].pc = "touching"
  /\ ~UserLocked(txn[w].user)
  /\ Advance(w, [txn[w] EXCEPT !.pc = "issuing", !.user_locked = TRUE])

IssueSession(w) ==
  /\ txn[w].pc = "issuing"
  /\ Advance(w, [txn[w] EXCEPT !.pc = "closing", !.session = TRUE])

\* issue_access_token raises; the teardown commits what was flushed.
IssueFails(w) ==
  /\ txn[w].pc = "issuing"
  /\ Advance(w, [txn[w] EXCEPT !.pc = "closing"])

-----------------------------------------------------------------------------
(* Ends of requests *)

UsersAfterSession(x) ==
  [u \in Registered \cup {v \in {x.user} : x.new_user /\ x.session} |->
     IF u = x.user /\ x.new_user
       THEN [email |-> x.email, is_active |-> TRUE, via_oauth |-> TRUE]
       ELSE users[u]]
UsersAfter(x) ==
  [u \in Registered \cup {v \in {x.user} : x.new_user} |->
     IF u = x.user /\ x.new_user
       THEN [email |-> x.email, is_active |-> TRUE, via_oauth |-> TRUE]
       ELSE users[u]]

LinksAfterSession(x) ==
  [l \in Linked \cup {k \in {x.link} : x.new_link /\ x.session} |->
     IF l = x.link /\ x.new_link
       THEN [identity |-> x.identity, user_id |-> x.user]
       ELSE user_oauth_providers[l]]
LinksAfter(x) ==
  [l \in Linked \cup {k \in {x.link} : x.new_link} |->
     IF l = x.link /\ x.new_link
       THEN [identity |-> x.identity, user_id |-> x.user]
       ELSE user_oauth_providers[l]]

\* session.commit(), then the response.
Commit(w) ==
  /\ txn[w].pc = "closing"
  /\ users' = UsersAfter(txn[w])
  /\ user_oauth_providers' = LinksAfter(txn[w])
  /\ txn' = [txn EXCEPT ![w] = Idle]
  /\ UNCHANGED profile

Crash(w) ==
  /\ txn[w].pc # "idle"
  /\ Advance(w, Idle)

-----------------------------------------------------------------------------
(* What else happens to users and identities *)

\* A magic-link redemption creates a user.
SignUpByMail ==
  \E e \in Email, u \in User :
    /\ e \notin KnownEmails
    /\ ~Inserting(e)
    /\ FreshUser(u)
    /\ users' = [v \in Registered \cup {u} |->
                   IF v = u THEN [email |-> e, is_active |-> TRUE,
                                  via_oauth |-> FALSE]
                            ELSE users[v]]
    /\ UNCHANGED <<user_oauth_providers, profile, txn>>

\* The operator clears is_active; no code under knuckles/ does.
Deactivate ==
  \E u \in Registered :
    /\ users[u].is_active
    /\ ~UserLocked(u)
    /\ users' = [users EXCEPT ![u].is_active = FALSE]
    /\ UNCHANGED <<user_oauth_providers, profile, txn>>

\* The person changes the address of the Google or Apple account.
ChangeProfile ==
  \E i \in Identity, e \in Email :
    /\ profile[i] # e
    /\ profile' = [profile EXCEPT ![i] = e]
    /\ UNCHANGED <<users, user_oauth_providers, txn>>

-----------------------------------------------------------------------------
Serve(w) ==
  \/ Exchange(w) \/ ExchangeFails(w)
  \/ LinkFound(w) \/ NoLinkFound(w) \/ LinkAmbiguous(w)
  \/ OwnerActive(w) \/ OwnerInactive(w) \/ RefreshLink(w)
  \/ FindUser(w) \/ FindInactiveUser(w) \/ FindNoUser(w)
  \/ CreateUser(w) \/ CreateUserConflicts(w) \/ LinkIdentity(w)
  \/ TouchUser(w) \/ IssueSession(w) \/ IssueFails(w)
  \/ Commit(w)

Next ==
  \/ SignUpByMail \/ Deactivate \/ ChangeProfile
  \/ \E w \in Worker : StartComplete(w) \/ Serve(w) \/ Crash(w)

Spec == Init /\ [][Next]_vars

-----------------------------------------------------------------------------
(* Properties *)

\* Every variable keeps its shape, and a link's user is a row (the foreign key).
TypeOK ==
  /\ Registered \subseteq User /\ users \in [Registered -> UserRow]
  /\ Linked \subseteq LinkId
  /\ user_oauth_providers \in [Linked -> LinkRow]
  /\ \A l \in Linked : user_oauth_providers[l].user_id \in Registered
  /\ profile \in [Identity -> Email]
  /\ txn \in [Worker -> Txn]

\* An identity that was linked when the completion arrived signs in to the
\* account it was linked to and gets no second link, whichever address the
\* provider reports by now and whoever owns that address.
LinkOutlivesEmail ==
  \A w \in Worker :
    txn[w].owners # {} =>
      /\ ~txn[w].new_link /\ ~txn[w].new_user
      /\ txn[w].session => txn[w].user \in txn[w].owners

\* A completion that arrives after the account was deactivated gets no
\* session for it.
DeactivatedStaysOut ==
  \A w \in Worker : txn[w].session => txn[w].user \notin txn[w].barred

\* Account and link commit together: an account created by a completion is
\* never left without a link, even when issuing its session failed.
NoUnlinkedAccount ==
  \A u \in Registered :
    users[u].via_oauth => \E l \in Linked : user_oauth_providers[l].user_id = u

\* A repeated sign-in updates the identity's link and does not duplicate it.
OneLinkPerIdentity ==
  \A k, l \in Linked :
    user_oauth_providers[k].identity = user_oauth_providers[l].identity => k = l
=============================================================================
