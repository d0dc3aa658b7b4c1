------------------------------- MODULE Access -------------------------------
(***************************************************************************)
(* Sessions and sign-in.  Every browser request goes through the chain of  *)
(* web/routes.go: the session is loaded by the cookie's token, the account *)
(* is looked up by the username the session holds, a gate lets the handler *)
(* run, and the session is written back when the handler has returned.     *)
(* Several requests of one browser are under way at once, each with its    *)
(* own copy of the session; administrators change accounts meanwhile; an   *)
(* OpenID sign-in goes out to the provider and comes back as a request     *)
(* that any browser may make, twice or never.                              *)
(*                                                                         *)
(* scs, the session library, and the provider are external and modelled    *)
(* from how the code uses them.  who, via, could, planted, ended, shared   *)
(* and an attempt's browser are history: no guard reads them.              *)
(***************************************************************************)
EXTENDS Integers, FiniteSets, Sequences

CONSTANTS
  Accounts,      \* app_user ids
  Given,         \* the accounts to begin with: id -> row, for some of Accounts
  AdminUsers,    \* INV_ADMIN_USERS: usernames that are administrators whatever their role
  Subjects,      \* people known to the OpenID provider
  Claimed,       \* preferred_username values the provider may assert
  Browsers,
  Requests,      \* request slots
  Routes,        \* the gates of the routes asked for
  Amendments,    \* what administrators may set: pairs <<field, value>>
  MaxTokens,     \* bound: session ids minted in one behaviour
  MaxAttempts,   \* bound: OpenID sign-ins begun
  MaxRequests,   \* bound: requests made
  MaxAmends      \* bound: changes made by administrators

Roles == {"administrator", "project_owner", "observer"}
Sources == {"local", "ldap", "oidc"}
Tokens == 1 .. MaxTokens
Attempts == 1 .. MaxAttempts
Gates == {"read", "write", "cost", "admin"}

NoRow == [exists |-> FALSE]
NoSession == [user |-> "", flow |-> 0, who |-> "", via |-> 0]
Absent == [user |-> "", flow |-> -1, who |-> "", via |-> 0]
Idle == [pc |-> "idle"]

Names == Claimed \cup {Given[a].name : a \in DOMAIN Given}
Row == [exists : {TRUE}, name : Names, source : Sources, active : BOOLEAN, role : Roles,
        costs : BOOLEAN, subject : Subjects \cup {""}]
Session == [user : Names \cup {""}, flow : -1 .. MaxAttempts, who : Accounts \cup {""}, via : 0 .. MaxAttempts]

(* app_user is unique by username, and by subject where there is one; an    *)
(* administrator sets a role, the active mark and the costs mark.           *)
ASSUME AccessAssumption ==
  /\ DOMAIN Given \subseteq Accounts /\ Routes \subseteq Gates
  /\ \A n \in {MaxTokens, MaxAttempts, MaxRequests, MaxAmends} : n \in Nat
  /\ "" \notin Accounts /\ "" \notin Subjects
  /\ \A x \in DOMAIN Given : Given[x] \in Row
  /\ \A x, y \in DOMAIN Given :
       \/ Given[x].name = Given[y].name
       \/ Given[x].subject # "" /\ Given[x].subject = Given[y].subject
       => x = y
  /\ Amendments \subseteq ({"role"} \X Roles) \cup ({"active", "costs"} \X BOOLEAN)

VARIABLES
  account,    \* the app_user table
  store,      \* the sessions table: [Tokens -> session data, or Absent]
  cookie,     \* [Browsers -> the token the browser sends, 0 when it has none]
  attempt,    \* [Attempts -> what the provider knows of a sign-in begun]
  req,        \* [Requests -> request under way]
  minted,     \* session ids minted so far
  begun,      \* OpenID sign-ins begun so far
  made,       \* requests made so far
  amended,    \* administrators' changes so far
  planted,    \* session ids that were given to a browser before it signed in
  ended,      \* session ids signed out
  shared      \* those of which another request held a copy at that moment

vars == <<account, store, cookie, attempt, req, minted, begun, made, amended, planted, ended, shared>>

----------------------------------------------------------------------------
(* Accounts *)

Named(name) == {a \in Accounts : account[a].exists /\ account[a].name = name}
WithSubject(s) == {a \in Accounts : account[a].exists /\ account[a].subject = s}
GetUserByUsername(name) == CHOOSE a \in Named(name) : TRUE

(* The Authorizer's three questions.  Each asks again whether the row is    *)
(* active; the environment's list of administrators overrides the role.     *)
isAdministrator(row) == row.name \in AdminUsers \/ row.role = "administrator"
IsAdministrator(row) == row.active /\ isAdministrator(row)
CanWrite(row) == row.active /\ (isAdministrator(row) \/ row.role = "project_owner")
CanSeeCosts(row) == row.active /\ (isAdministrator(row) \/ row.costs)

(* RequireAuth, RequireWrite, RequireCostVisibility, RequireAdministrator   *)
(* as routes.go stacks them; row is the request's copy of the account.      *)
Passes(row, gate) ==
  CASE gate = "read"  -> TRUE
    [] gate = "write" -> CanWrite(row)
    [] gate = "cost"  -> CanWrite(row) /\ CanSeeCosts(row)
    [] gate = "admin" -> IsAdministrator(row)

GatesOf(name, rows) ==
  {g \in Gates : \E a \in Accounts : /\ rows[a].exists /\ rows[a].name = name /\ rows[a].active
                                     /\ Passes(rows[a], g)}

(* Requests under way note what their account could have done meanwhile.    *)
Noted(q, rows) ==
  IF q.pc = "idle" \/ q.named = "" THEN q
  ELSE [q EXCEPT !.could = @ \cup GatesOf(q.named, rows)]

Noting(rows) == [r \in Requests |-> Noted(req[r], rows)]

(* SetUserRole, SetUserActive, SetUserCosts, made elsewhere (UserAdmin has  *)
(* their races).                                                            *)
Amend(a, field, value) ==
  /\ amended < MaxAmends
  /\ account[a].exists
  /\ LET rows == [account EXCEPT ![a] = [@ EXCEPT ![field] = value]]
     IN /\ rows # account
        /\ account' = rows
        /\ req' = Noting(rows)
  /\ amended' = amended + 1
  /\ UNCHANGED <<store, cookie, attempt, minted, begun, made, planted, ended, shared>>

----------------------------------------------------------------------------
(* The session around a request *)

(* Session data without its user, and with another sign-in under way. *)
Anonymous(data) == [user |-> "", flow |-> data.flow, who |-> "", via |-> 0]
WithFlow(data, n) == [user |-> data.user, flow |-> n, who |-> data.who, via |-> data.via]

(* LoadAndSave, coming in.  A session found is marked to be written back    *)
(* whatever the handler does, because an idle timeout is set; an unknown    *)
(* token, or none, begins an empty session that has no token yet.           *)
Loaded(token) ==
  IF token # 0 /\ store[token] # Absent
  THEN [token |-> token, data |-> store[token], status |-> "modified"]
  ELSE [token |-> 0, data |-> NoSession, status |-> "unmodified"]

Arrive(r, b, ask) ==
  /\ req[r].pc = "idle"
  /\ made < MaxRequests
  /\ LET s == Loaded(cookie[b])
     IN req' = [req EXCEPT ![r] =
          [pc |-> "authenticate", browser |-> b, ask |-> ask, token |-> s.token,
           data |-> s.data, status |-> s.status, user |-> "", row |-> NoRow,
           named |-> s.data.user, could |-> GatesOf(s.data.user, account), acted |-> ""]]
  /\ made' = made + 1
  /\ UNCHANGED <<account, store, cookie, attempt, minted, begun, amended, planted, ended, shared>>

(* Mutant: the account is found, whether it is active is not asked. *)
AuthenticateInactive(r) ==
  /\ req[r].pc = "authenticate"
  /\ LET name == req[r].data.user
         found == name # "" /\ Named(name) # {}
         a == GetUserByUsername(name)
     IN req' = [req EXCEPT ![r].pc = "handle",
                           ![r].user = IF found THEN a ELSE "",
                           ![r].row = IF found THEN account[a] ELSE NoRow]
  /\ UNCHANGED <<account, store, cookie, attempt, minted, begun, made, amended, planted, ended, shared>>

(* Authenticate: an account that is gone or inactive is taken out of the    *)
(* session and the request goes on as anonymous; otherwise the row read     *)
(* here is the one every later check of this request looks at.              *)
Authenticate(r) ==
  /\ req[r].pc = "authenticate"
  /\ LET name == req[r].data.user
         found == name # "" /\ \E a \in Named(name) : account[a].active
         a == GetUserByUsername(name)
     IN req' = [req EXCEPT ![r].pc = "handle",
                           ![r].user = IF found THEN a ELSE "",
                           ![r].row = IF found THEN account[a] ELSE NoRow,
                           ![r].data = IF found THEN @ ELSE Anonymous(@),
                           ![r].status = IF found \/ name = "" THEN @ ELSE "modified"]
  /\ UNCHANGED <<account, store, cookie, attempt, minted, begun, made, amended, planted, ended, shared>>

(* LoadAndSave, going out: a modified session is written under its token,   *)
(* whatever another request made of that row meanwhile, and the cookie set. *)
Commit(r) ==
  /\ req[r].pc = "commit"
  /\ LET q == req[r]
         fresh == q.token = 0
         token == IF fresh THEN minted + 1 ELSE q.token
     IN /\ q.status = "modified" /\ fresh => minted < MaxTokens
        /\ store' = IF q.status = "modified" THEN [store EXCEPT ![token] = q.data] ELSE store
        /\ cookie' = CASE q.status = "modified"  -> [cookie EXCEPT ![q.browser] = token]
                       [] q.status = "destroyed" -> [cookie EXCEPT ![q.browser] = 0]
                       [] OTHER                  -> cookie
        /\ minted' = IF q.status = "modified" /\ fresh THEN minted + 1 ELSE minted
        /\ planted' = IF q.status = "modified" /\ fresh THEN planted \cup {token} ELSE planted
  /\ req' = [req EXCEPT ![r] = Idle]
  /\ UNCHANGED <<account, attempt, begun, made, amended, ended, shared>>

(* The lifetime of a session runs out. *)
Expire(t) ==
  /\ store[t] # Absent
  /\ store' = [store EXCEPT ![t] = Absent]
  /\ UNCHANGED <<account, cookie, attempt, req, minted, begun, made, amended, planted, ended, shared>>

----------------------------------------------------------------------------
(* The handlers *)

(* A handler behind a gate: without a user it redirects to the login page,  *)
(* and a refusal changes nothing.                                           *)
Guarded(r) ==
  /\ req[r].pc = "handle" /\ req[r].ask.kind \in Gates
  /\ LET ok == req[r].user # "" /\ Passes(req[r].row, req[r].ask.kind)
     IN req' = [req EXCEPT ![r].pc = "commit", ![r].acted = IF ok THEN req[r].ask.kind ELSE ""]
  /\ UNCHANGED <<account, store, cookie, attempt, minted, begun, made, amended, planted, ended, shared>>

(* Mutant: the session id is kept across the sign-in. *)
SignedInKeepingTheToken(r, a, rows, via) ==
  LET old == req[r].token
  IN /\ minted < MaxTokens
     /\ minted' = IF old = 0 THEN minted + 1 ELSE minted
     /\ store' = store
     /\ req' = [Noting(rows) EXCEPT ![r].pc = "commit", ![r].status = "modified",
                  ![r].token = IF old = 0 THEN minted + 1 ELSE old,
                  ![r].data = [user |-> rows[a].name, who |-> a, via |-> via,
                               flow |-> IF via = 0 THEN req[r].data.flow ELSE 0]]

(* RenewToken, then Put: the row of the old id is deleted, the session goes *)
(* on under an id nobody has seen, and the username is put into it.         *)
SignedIn(r, a, rows, via) ==
  LET old == req[r].token
  IN /\ minted < MaxTokens
     /\ minted' = minted + 1
     /\ store' = IF old = 0 THEN store ELSE [store EXCEPT ![old] = Absent]
     /\ req' = [Noting(rows) EXCEPT ![r].pc = "commit", ![r].status = "modified",
                  ![r].token = minted + 1,
                  ![r].data = [user |-> rows[a].name, who |-> a, via |-> via,
                               flow |-> IF via = 0 THEN req[r].data.flow ELSE 0]]

NewAccount(name, source, subject) ==
  [exists |-> TRUE, name |-> name, source |-> source, active |-> TRUE, role |-> "observer",
   costs |-> FALSE, subject |-> subject]

(* LocalAuthenticator, then the directory; right says the password is.      *)
LocalAccepts(name, right) ==
  /\ right
  /\ \E a \in Named(name) : account[a].active /\ account[a].source = "local"

(* UpsertLDAPUser after a bind: the directory's own account, or a new one;  *)
(* an account of another source with that name is a refusal.                *)
DirectoryAccepts(name, right) ==
  /\ right
  /\ \A a \in Named(name) : account[a].source = "ldap" /\ account[a].active

(* Chain.Authenticate: the first of the two that accepts. *)
AcceptedBy(name, right) ==
  IF LocalAccepts(name, right) THEN "local"
  ELSE IF DirectoryAccepts(name, right) THEN "ldap"
  ELSE "none"

Login(r) ==
  /\ req[r].pc = "handle" /\ req[r].ask.kind = "login"
  /\ LET name == req[r].ask.name
         by == AcceptedBy(name, req[r].ask.right)
         taken == {a \in Accounts : account[a].exists}
     IN \/ /\ by # "none" /\ Named(name) # {}
           /\ SignedIn(r, GetUserByUsername(name), account, 0)
           /\ UNCHANGED account
        \/ /\ by = "ldap" /\ Named(name) = {} /\ taken # Accounts
           /\ LET a == CHOOSE x \in Accounts \ taken : TRUE
                  rows == [account EXCEPT ![a] = NewAccount(name, "ldap", "")]
              IN account' = rows /\ SignedIn(r, a, rows, 0)
        \/ /\ by = "none"
           /\ req' = [req EXCEPT ![r].pc = "commit"]
           /\ UNCHANGED <<account, store, minted>>
  /\ UNCHANGED <<cookie, attempt, begun, made, amended, planted, ended, shared>>

SignedOut(r) ==
  LET t == req[r].token
      copied == \E s \in Requests \ {r} : req[s].pc # "idle" /\ req[s].token = t
  IN /\ ended' = ended \cup ({t} \ {0})
     /\ shared' = IF copied THEN shared \cup ({t} \ {0}) ELSE shared

(* Mutant: the cookie is dropped and the row stays. *)
LogoutOfCookieOnly(r) ==
  /\ req[r].pc = "handle" /\ req[r].ask.kind = "logout"
  /\ SignedOut(r)
  /\ req' = [req EXCEPT ![r].pc = "commit", ![r].token = 0, ![r].data = NoSession,
                        ![r].status = "destroyed"]
  /\ UNCHANGED <<account, store, cookie, attempt, minted, begun, made, amended, planted>>

(* Logout: Destroy deletes the row at once. *)
Logout(r) ==
  /\ req[r].pc = "handle" /\ req[r].ask.kind = "logout"
  /\ store' = IF req[r].token = 0 THEN store ELSE [store EXCEPT ![req[r].token] = Absent]
  /\ SignedOut(r)
  /\ req' = [req EXCEPT ![r].pc = "commit", ![r].token = 0, ![r].data = NoSession,
                        ![r].status = "destroyed"]
  /\ UNCHANGED <<account, cookie, attempt, minted, begun, made, amended, planted>>

(* OIDCStart: state, nonce and verifier are put into the session together,  *)
(* so one number stands for the three.                                      *)
OIDCStart(r) ==
  /\ req[r].pc = "handle" /\ req[r].ask.kind = "start"
  /\ begun < MaxAttempts
  /\ begun' = begun + 1
  /\ attempt' = [attempt EXCEPT ![begun + 1] =
       [code |-> "none", subject |-> "", name |-> "", browser |-> req[r].browser]]
  /\ req' = [req EXCEPT ![r].pc = "commit", ![r].status = "modified",
                        ![r].data = WithFlow(@, begun + 1)]
  /\ UNCHANGED <<account, store, cookie, minted, made, amended, planted, ended, shared>>

(* The provider: somebody signs in there and a code is issued for them.     *)
Consent(n, s, name) ==
  /\ n <= begun /\ attempt[n].code = "none"
  /\ attempt' = [attempt EXCEPT ![n].code = "issued", ![n].subject = s, ![n].name = name]
  /\ UNCHANGED <<account, store, cookie, req, minted, begun, made, amended, planted, ended, shared>>

(* The state the URL carries is the session's, and with it the verifier the *)
(* provider asks for and the nonce of the id token.                         *)
CallbackMatches(data, n) == data.flow # 0 /\ data.flow = n

(* UpsertOIDCUser: by subject, else a name nobody has; the rows it leaves   *)
(* and the account, "" when it refuses.                                     *)
UpsertOIDCUser(s, name) ==
  LET own == WithSubject(s)
      taken == {a \in Accounts : account[a].exists}
      a == IF own # {} THEN CHOOSE x \in own : TRUE ELSE CHOOSE x \in Accounts \ taken : TRUE
  IN IF Named(name) \ own # {} \/ (own = {} /\ taken = Accounts)
     THEN [who |-> "", rows |-> account]
     ELSE [who |-> a,
           rows |-> [account EXCEPT ![a] =
              IF own # {} THEN [account[a] EXCEPT !.name = name]
              ELSE NewAccount(name, "oidc", s)]]

(* Exchange: a code is spent once, at a provider that can be reached. *)
Exchange(n, up) == up /\ attempt[n].code = "issued"

(* OIDCCallback: what the session held is read, then removed, then compared *)
(* and the code spent at the provider, which may be out of reach.           *)
OIDCCallback(r, up) ==
  /\ req[r].pc = "handle" /\ req[r].ask.kind = "callback"
  /\ LET n == req[r].ask.attempt
         matches == CallbackMatches(req[r].data, n)
         spends == matches /\ Exchange(n, up)
         claim == UpsertOIDCUser(attempt[n].subject, attempt[n].name)
         a == claim.who
         cleared == [req EXCEPT ![r].data = WithFlow(@, 0), ![r].status =
                       IF req[r].data.flow # 0 THEN "modified" ELSE @]
     IN /\ attempt' = IF spends THEN [attempt EXCEPT ![n].code = "spent"] ELSE attempt
        /\ account' = IF spends THEN claim.rows ELSE account
        /\ IF spends /\ a # "" /\ claim.rows[a].active
           THEN SignedIn(r, a, claim.rows, n)
           ELSE req' = [cleared EXCEPT ![r].pc = "commit"] /\ UNCHANGED <<store, minted>>
  /\ UNCHANGED <<cookie, begun, made, amended, planted, ended, shared>>

----------------------------------------------------------------------------

(* What a browser may ask for; a callback URL is anybody's to open. *)
Asks ==
  [kind : Routes \cup {"logout", "start"}]
  \cup [kind : {"login"}, name : Names, right : BOOLEAN]
  \cup [kind : {"callback"}, attempt : Attempts]

Init ==
  /\ account = [a \in Accounts |-> IF a \in DOMAIN Given THEN Given[a] ELSE NoRow]
  /\ store = [t \in Tokens |-> Absent]
  /\ cookie = [b \in Browsers |-> 0]
  /\ attempt = [n \in Attempts |-> [code |-> "none", subject |-> "", name |-> "", browser |-> ""]]
  /\ req = [r \in Requests |-> Idle]
  /\ minted = 0 /\ begun = 0 /\ made = 0 /\ amended = 0
  /\ planted = {} /\ ended = {} /\ shared = {}

Serve(r) ==
  \/ Authenticate(r) \/ Guarded(r) \/ Login(r) \/ Logout(r) \/ OIDCStart(r)
  \/ \E up \in BOOLEAN : OIDCCallback(r, up)
  \/ Commit(r)

Next ==
  \/ \E r \in Requests, b \in Browsers, ask \in Asks : Arrive(r, b, ask)
  \/ \E r \in Requests : Serve(r)
  \/ \E n \in Attempts, s \in Subjects, name \in Claimed : Consent(n, s, name)
  \/ \E a \in Accounts, change \in Amendments : Amend(a, change[1], change[2])
  \/ \E t \in Tokens : Expire(t)

Spec == Init /\ [][Next]_vars

----------------------------------------------------------------------------
(* Properties *)

(* Types: rows, session data and requests have their shapes. *)
TypeOK ==
  /\ \A a \in Accounts : account[a].exists => /\ account[a].role \in Roles
                                              /\ account[a].source \in Sources
  /\ store \in [Tokens -> Session]
  /\ cookie \in [Browsers -> 0 .. MaxTokens]
  /\ \A r \in Requests : req[r].pc \in {"idle", "authenticate", "handle", "commit"}
  /\ planted \subseteq Tokens /\ ended \subseteq Tokens /\ shared \subseteq ended

(* A handler runs for a request only if, at some moment since the request   *)
(* arrived, the account its session names was active and would have passed  *)
(* the route's gate: the row a request is judged by is never older than the *)
(* request (middleware.Authenticate reads it anew each time, and RequireAuth *)
(* asks nothing more).                                                      *)
GateIsRecent ==
  \A r \in Requests :
    req[r].pc = "commit" /\ req[r].acted # "" => req[r].acted \in req[r].could

(* A session that names a user goes under an id that was minted by that     *)
(* sign-in, and if it was an OpenID sign-in the browser that holds the id   *)
(* is the one that began it (Login and OIDCCallback: RenewToken, state).    *)
SignInIsItsOwn ==
  \A t \in Tokens : store[t] # Absent /\ store[t].user # "" =>
    /\ t \notin planted
    /\ \A b \in Browsers : cookie[b] = t /\ store[t].via # 0 => attempt[store[t].via].browser = b

(* Once a sign-out has answered, its session is gone for good, provided no  *)
(* other request had already loaded it (Logout: Destroy).                   *)
SignOutHolds ==
  \A t \in ended \ shared : /\ store[t] = Absent
                            /\ \A r \in Requests : req[r].pc # "idle" => req[r].token # t

(* Not so: a sign-out ends the session whatever else is under way.  A       *)
(* request that loaded the session before it was destroyed writes it back   *)
(* when it ends, because the idle timeout marks every session modified.     *)
SignOutIsFinal == \A t \in ended : store[t] = Absent

(* Not so: a session acts for the account that signed in.  It holds the     *)
(* username, and a username given up at the provider may become another     *)
(* account's.                                                               *)
SessionKeepsItsAccount ==
  \A r \in Requests : req[r].pc = "commit" /\ req[r].acted # "" => req[r].user = req[r].data.who
=============================================================================
