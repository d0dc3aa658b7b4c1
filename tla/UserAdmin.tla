----------------------------- MODULE UserAdmin -----------------------------
(***************************************************************************)
(* Accounts (internal/store/users_admin.go, users.go, savedviews.go): the  *)
(* administrator verbs, which run through writeSerializable and are        *)
(* retried, beside sign-ins and saved views, which read an account first   *)
(* and write it in a plain transaction later.                              *)
(*                                                                         *)
(* A serializable transaction is a snapshot, a decision on that snapshot   *)
(* and a commit that fails when what it read has changed.  On SQLite no    *)
(* other step falls between the snapshot and the commit.                   *)
(***************************************************************************)
EXTENDS Integers, FiniteSets

CONSTANTS Accounts,  \* app_user ids
          Persons,   \* identity-provider subjects
          None,      \* SQL NULL
          Calls,     \* concurrent HTTP requests
          Attempts,  \* writeSerializable's attempts
          MaxViews   \* bound on the saved views ever inserted

ASSUME UsersAssumption == IsFiniteSet(Accounts) /\ None \notin Accounts
ASSUME PersonsAssumption == None \notin Persons
ASSUME AttemptsAssumption == Attempts \in Nat \ {0}
ASSUME ViewsAssumption == MaxViews \in Nat

VARIABLES users,   \* the app_user table
          views,   \* the saved_view table: <<owner, id>>
          saved,   \* ids handed out so far; an id is never used again
          erased,  \* users whose ScrubUser committed
          raced,   \* of those, the ones a request of their own overlapped
          call     \* what each request holds in memory

accountVars == <<users, views, saved, erased, raced, call>>

(* "observer" stands for both roles without administration. *)
AccountRoles == {"administrator", "observer"}
UserRow == [exists : BOOLEAN, role : AccountRoles, active : BOOLEAN,
            subject : Persons \cup {None}, personal : BOOLEAN]
NoCall == [op |-> "idle"]

(* What an administrator asks for: a role, an activation state, an erasure. *)
Verb == [kind : {"role", "active", "scrub"}, user : Accounts, role : AccountRoles, active : BOOLEAN]
Request ==
  {NoCall}
  \cup [op : {"queued"}, verb : Verb, attempt : 1..Attempts]
  \cup [op : {"open"}, verb : Verb, attempt : 1..Attempts,
        row : UserRow, admins : SUBSET Accounts, seen : SUBSET (Accounts \X Nat)]
  \cup [op : {"signin"}, person : Persons, found : Accounts \cup {None}]
  \cup [op : {"saveview"}, user : Accounts]

AccountTypeOK ==
  /\ users \in [Accounts -> UserRow]
  /\ views \subseteq Accounts \X Nat
  /\ saved \in Nat
  /\ erased \subseteq Accounts
  /\ raced \subseteq erased
  /\ call \in [Calls -> Request]

----------------------------------------------------------------------------
ActiveAdministrators ==
  {u \in Accounts : users[u].exists /\ users[u].role = "administrator" /\ users[u].active}

(* refuseIfLastActiveAdministrator *)
LastAdministrator(admins) == Cardinality(admins) <= 1

(* The change is already there: no write, no audit row. *)
AlreadyDone(row, v) ==
  \/ v.kind = "role" /\ row.role = v.role
  \/ v.kind = "active" /\ row.active = v.active

(* The change takes an active administrator away. *)
Guarded(row, v) ==
  /\ row.role = "administrator" /\ row.active
  /\ v.kind = "active" => ~v.active

(* Mutant: the erasure leaves the identity provider's subject behind. *)
EffectKeepsSubject(row, v) ==
  CASE v.kind = "role"   -> [row EXCEPT !.role = v.role]
    [] v.kind = "active" -> [row EXCEPT !.active = v.active]
    [] v.kind = "scrub"  -> [row EXCEPT !.active = FALSE, !.personal = FALSE]

(* The UPDATE of SetUserRole, SetUserActive and ScrubUser. *)
Effect(row, v) ==
  CASE v.kind = "role"   -> [row EXCEPT !.role = v.role]
    [] v.kind = "active" -> [row EXCEPT !.active = v.active]
    [] v.kind = "scrub"  -> [row EXCEPT !.active = FALSE, !.subject = None, !.personal = FALSE]

(* Mutant: a plain write, at READ COMMITTED. *)
NeverConflicts(row, admins, v) == TRUE

(* sql.LevelSerializable.  The row it writes is unchanged since its snapshot; *)
(* and when the guard counted the administrators, none of them was removed    *)
(* since: that transaction counted this one's row too, a cycle of conflicts,  *)
(* which the engine breaks.  A concurrent addition does not conflict.         *)
Serializable(row, admins, v) ==
  /\ users[v.user] = row
  /\ Guarded(row, v) => admins \subseteq ActiveAdministrators

Finish(r) == call' = [call EXCEPT ![r] = NoCall]

----------------------------------------------------------------------------
Fresh == [exists |-> FALSE, role |-> "observer", active |-> TRUE,
          subject |-> None, personal |-> FALSE]

NewUser(subject) == [Fresh EXCEPT !.exists = TRUE, !.subject = subject, !.personal = TRUE]

(* ensureAdmin's seeded account: an observer, whom INV_ADMIN_USERS lets      *)
(* administer until somebody holds the role.                                 *)
AccountInit ==
  /\ \E root \in Accounts : users = [u \in Accounts |-> IF u = root THEN NewUser(None) ELSE Fresh]
  /\ views = {} /\ saved = 0 /\ erased = {} /\ raced = {}
  /\ call = [r \in Calls |-> NoCall]

(* CreateUser from the roster: a local account, always an observer. *)
CreateUser(u) ==
  /\ ~users[u].exists
  /\ users' = [users EXCEPT ![u] = NewUser(None)]
  /\ UNCHANGED <<views, saved, erased, raced, call>>

(* The read outside the transaction; SetUserRole and SetUserActive return   *)
(* there when nothing would change.                                         *)
AskFor(r, v) ==
  /\ call[r] = NoCall /\ users[v.user].exists
  /\ ~AlreadyDone(users[v.user], v)
  /\ call' = [call EXCEPT ![r] = [op |-> "queued", verb |-> v, attempt |-> 1]]
  /\ UNCHANGED <<users, views, saved, erased, raced>>

ViewsOf(u) == {w \in views : w[1] = u}

(* One attempt of writeSerializable begins: its snapshot is taken. *)
OpenTx(r) ==
  /\ call[r].op = "queued"
  /\ call' = [call EXCEPT ![r] =
       [op |-> "open", verb |-> call[r].verb, attempt |-> call[r].attempt,
        row |-> users[call[r].verb.user], admins |-> ActiveAdministrators,
        seen |-> IF call[r].verb.kind = "scrub" THEN ViewsOf(call[r].verb.user) ELSE {}]]
  /\ UNCHANGED <<users, views, saved, erased, raced>>

(* On the snapshot: the change was made by somebody else, or is refused. *)
NothingToCommit(row, admins, v) ==
  \/ AlreadyDone(row, v)
  \/ Guarded(row, v) /\ LastAdministrator(admins)

(* Requests that read u's account earlier and have still to write. *)
Pending(u) == {r \in Calls :
  \/ call[r].op = "signin" /\ call[r].found = u
  \/ call[r].op = "saveview" /\ call[r].user = u}

(* A request of u's own is under way, or inserted a view since the snapshot. *)
Overlapped(u, seen) == Pending(u) # {} \/ ViewsOf(u) \ seen # {}

(* The attempt ends: refused or nothing to do, or its UPDATE, the erasure's  *)
(* DELETE of saved views and the audit row commit together.  The DELETE sees *)
(* the snapshot's rows; a view inserted since, at READ COMMITTED and so      *)
(* without a conflict, stays.                                                *)
CommitTx(r) ==
  /\ call[r].op = "open"
  /\ LET v == call[r].verb
         row == call[r].row
         admins == call[r].admins
     IN \/ /\ NothingToCommit(row, admins, v)
           /\ UNCHANGED <<users, views, saved, erased, raced>>
        \/ /\ ~NothingToCommit(row, admins, v)
           /\ Serializable(row, admins, v)
           /\ users' = [users EXCEPT ![v.user] = Effect(users[v.user], v)]
           /\ IF v.kind = "scrub"
                THEN /\ views' = views \ call[r].seen
                     /\ erased' = erased \cup {v.user}
                     /\ raced' = IF Overlapped(v.user, call[r].seen)
                                   THEN raced \cup {v.user} ELSE raced
                     /\ UNCHANGED saved
                ELSE UNCHANGED <<views, saved, erased, raced>>
  /\ Finish(r)

(* Try again, or give up after the last attempt. *)
NextAttempt(r) ==
  IF call[r].attempt < Attempts
    THEN call' = [call EXCEPT ![r] =
           [op |-> "queued", verb |-> call[r].verb, attempt |-> call[r].attempt + 1]]
    ELSE Finish(r)

(* The engine aborts the attempt, because of a conflict or on suspicion. *)
AbortTx(r) ==
  /\ call[r].op = "open"
  /\ NextAttempt(r)
  /\ UNCHANGED <<users, views, saved, erased, raced>>

(* UpsertOIDCUser: GetUserBySubject, outside the transaction that writes. *)
BeginSignIn(r, p) ==
  /\ call[r] = NoCall
  /\ \E found \in Accounts \cup {None} :
       /\ IF \E u \in Accounts : users[u].subject = p
            THEN found # None /\ users[found].subject = p
            ELSE found = None
       /\ call' = [call EXCEPT ![r] = [op |-> "signin", person |-> p, found |-> found]]
  /\ UNCHANGED <<users, views, saved, erased, raced>>

(* updateOIDCUser: the claims are written to the row found, by its id. *)
SignInUpdate(r) ==
  /\ call[r].op = "signin" /\ call[r].found # None
  /\ users' = [users EXCEPT ![call[r].found].personal = TRUE]
  /\ Finish(r)
  /\ UNCHANGED <<views, saved, erased, raced>>

(* No row found: CreateUser, unless another sign-in took the subject (the    *)
(* unique index).                                                            *)
SignInCreate(r) ==
  /\ call[r].op = "signin" /\ call[r].found = None
  /\ \/ /\ \A u \in Accounts : users[u].subject # call[r].person
        /\ \E u \in Accounts :
             /\ ~users[u].exists
             /\ users' = [users EXCEPT ![u] = NewUser(call[r].person)]
     \/ /\ \E u \in Accounts : users[u].subject = call[r].person
        /\ UNCHANGED users
     \/ /\ \A u \in Accounts : users[u].exists   \* the bound on accounts
        /\ UNCHANGED users
  /\ Finish(r)
  /\ UNCHANGED <<views, saved, erased, raced>>

(* middleware.Authenticate accepts the session: the row by username, active. *)
BeginSaveView(r, u) ==
  /\ call[r] = NoCall
  /\ users[u].exists /\ users[u].active /\ users[u].personal
  /\ call' = [call EXCEPT ![r] = [op |-> "saveview", user |-> u]]
  /\ UNCHANGED <<users, views, saved, erased, raced>>

(* CreateSavedView's transaction: an INSERT for the user of the context,     *)
(* unless the view is not valid or the unique index on names refuses it.     *)
CreateSavedView(r) ==
  /\ call[r].op = "saveview"
  /\ \/ /\ saved < MaxViews
        /\ saved' = saved + 1
        /\ views' = views \cup {<<call[r].user, saved>>}
     \/ UNCHANGED <<views, saved>>
  /\ Finish(r)
  /\ UNCHANGED <<users, erased, raced>>

(* The distinct changes: fields a kind does not use are fixed. *)
Verbs ==
  {v \in Verb : /\ v.kind # "role" => v.role = "observer"
                /\ v.kind # "active" => ~v.active}

Step(r) ==
  \/ OpenTx(r) \/ CommitTx(r) \/ AbortTx(r)
  \/ SignInUpdate(r) \/ SignInCreate(r) \/ CreateSavedView(r)

AccountNext ==
  \/ \E u \in Accounts : CreateUser(u)
  \/ \E r \in Calls :
       \/ \E v \in Verbs : AskFor(r, v)
       \/ \E p \in Persons : BeginSignIn(r, p)
       \/ \E u \in Accounts : BeginSaveView(r, u)
       \/ Step(r)

AccountSpec == AccountInit /\ [][AccountNext]_accountVars

----------------------------------------------------------------------------
(* Properties *)

(* refuseIfLastActiveAdministrator: once there is an active administrator,   *)
(* no race of demotions, deactivations and erasures removes the last one.    *)
AdministratorRemains ==
  [][ActiveAdministrators # {} => ActiveAdministrators' # {}]_accountVars

(* ScrubUser is final where no request of that person overlaps its           *)
(* transaction: no later sign-in or saved view writes the erased person      *)
(* back, and no view of theirs is left.                                      *)
ErasureOutlivesLaterRequests ==
  \A u \in erased \ raced : ~users[u].personal /\ ViewsOf(u) = {}

(* "Scrub this account? It clears their name, email and password. ... This   *)
(* cannot be undone.": the details of an erased person never come back.      *)
ErasureIsFinal == \A u \in erased : ~users[u].personal

(* A scrub removes the person's saved views; the erased account owns none.   *)
NoViewsOfErased == \A u \in erased : ViewsOf(u) = {}

(* "would leave nobody able to administer invctl": no change takes away the  *)
(* last administrator who can still sign in (an erased account has neither   *)
(* username, password nor subject left).                                     *)
SomebodyCanAdminister ==
  [][ActiveAdministrators \ erased # {} => (ActiveAdministrators \ erased)' # {}]_accountVars
=============================================================================
