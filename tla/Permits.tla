------------------------------ MODULE Permits ------------------------------
(***************************************************************************)
(* Write authority.  A request loads its user once, resolves a permit from *)
(* the database in separate reads (the projects the user is assigned to,   *)
(* then the assets, services and circuits linked to them), and runs one    *)
(* write transaction under it; every row the transaction logs is held      *)
(* against the permit (tx.authorize).  Other requests change the           *)
(* assignments, links, projects and roles meanwhile, and the permit is     *)
(* never looked at again: auth/permit.go, domain/role.go, and the writers  *)
(* in store/projects.go and store/user_projects.go.                        *)
(*                                                                         *)
(* A transaction is one step: what two of them do to one another is the    *)
(* subject of Writes.  held and linked are history, kept while a permit is *)
(* being resolved.                                                         *)
(***************************************************************************)
EXTENDS Integers, FiniteSets, Sequences

CONSTANTS
  Users,        \* accounts
  Projects,
  Kind,         \* entity id -> "asset", "service" or "circuit"
  Given,        \* entity ids that exist to begin with; the others may be minted
  Role,         \* the roles to begin with: user -> role
  Assigned,     \* the assignments to begin with: pairs <<user, project>>
  Owned,        \* the links to begin with: pairs <<project, entity>>, all "owns"
  Requests,     \* request slots
  Operations,   \* the routes requests are made to
  MaxRequests   \* bound: requests made in one behaviour

Entities == DOMAIN Kind
KindsInOrder == <<"asset", "service", "circuit">>
Roles == {"administrator", "project_owner", "observer"}

(* ScopeClassOf: what a project owner may ever hold is an asset, a service  *)
(* or a circuit; the three link tables have a rule of their own; everything *)
(* else (projects, assignments, accounts) is the administrator's.           *)
ScopeClassOf(type) ==
  CASE type = "entity" -> "project_linked"
    [] type = "link"   -> "link_row"
    [] OTHER           -> "estate_config"

ASSUME PermitsAssumption ==
  /\ \A e \in Entities : Kind[e] \in {"asset", "service", "circuit"}
  /\ Given \subseteq Entities
  /\ Role \in [Users -> Roles]
  /\ Assigned \subseteq Users \X Projects
  /\ Owned \subseteq Projects \X Given
  /\ \A o1, o2 \in Owned : o1[2] = o2[2] => o1 = o2
  /\ MaxRequests \in Nat

VARIABLES
  role,       \* app_user.role
  live,       \* projects whose lifecycle is not retired
  assigned,   \* active user_project rows: <<user, project>>
  link,       \* [Projects \X Entities -> relation of the active link row, or "none"]
  exists,     \* entities that have a row
  req,        \* [Requests -> request]
  made        \* requests made so far

vars == <<role, live, assigned, link, exists, req, made>>

NoPermit == [all |-> FALSE, projects |-> {}, entities |-> {}]
Idle == [pc |-> "idle"]

Linked(p) == {e \in Entities : link[<<p, e>>] # "none"}
LiveLinks(projects, rows) ==
  {pe \in Projects \X Entities : rows[pe] # "none" /\ pe[1] \in projects}

----------------------------------------------------------------------------
(* Covers, the whole of authorization inside a transaction.  A link row is  *)
(* covered when the permit holds its project and covers its entity.         *)

(* Mutant: the link-row rule asks for the project alone. *)
CoversByProjectOnly(permit, type, p, e) ==
  \/ permit.all
  \/ ScopeClassOf(type) = "project_linked" /\ e \in permit.entities
  \/ ScopeClassOf(type) = "link_row" /\ p \in permit.projects

Covers(permit, type, p, e) ==
  \/ permit.all
  \/ ScopeClassOf(type) = "project_linked" /\ e \in permit.entities
  \/ ScopeClassOf(type) = "link_row" /\ p \in permit.projects /\ e \in permit.entities

(* PermitHoldsProject, asked before anything is minted. *)
PermitHoldsProject(permit, p) == permit.all \/ p \in permit.projects

(* The permit the transaction of a create in a project runs under: the one  *)
(* project and the id just minted, nothing of the caller's own scope.       *)
txPermit(p, e) == [all |-> FALSE, projects |-> {p}, entities |-> {e}]

----------------------------------------------------------------------------
(* Resolving the permit *)

(* ProjectsForUser: active assignments to projects that are not retired.    *)
ProjectsForUser(u) == {p \in live : <<u, p>> \in assigned}

(* Mutant: the link's lifecycle is filtered, its project's is not. *)
entityIDsForProjectsRetiredToo(ps, kind) ==
  {e \in UNION {Linked(p) : p \in ps} : Kind[e] = kind}

(* entityIDsForProjects: entities of one table actively linked, owned or    *)
(* used, to projects of the list that are not retired at this moment.       *)
entityIDsForProjects(ps, kind) ==
  {e \in UNION {Linked(p) : p \in ps \cap live} : Kind[e] = kind}

(* What a request asks for: the operation, and the rows it names. *)
Asks ==
  [op : {"WriteEntity"} \cap Operations, u : {""}, p : {""}, e : Entities, v : {""}]
  \cup [op : {"CreateInProject"} \cap Operations, u : {""}, p : Projects, e : Entities, v : {"owns"}]
  \cup [op : {"LinkProject"} \cap Operations, u : {""}, p : Projects, e : Entities, v : {"owns", "uses"}]
  \cup [op : {"retireLink"} \cap Operations, u : {""}, p : Projects, e : Entities, v : {""}]
  \cup [op : {"AssignProject", "ReleaseProject"} \cap Operations, u : Users, p : Projects, e : {""}, v : {""}]
  \cup [op : {"RetireProject"} \cap Operations, u : {""}, p : Projects, e : {""}, v : {""}]
  \cup [op : {"UpdateProject"} \cap Operations, u : {""}, p : Projects, e : {""}, v : {"active", "retired"}]
  \cup [op : {"SetUserRole"} \cap Operations, u : Users, p : {""}, e : {""}, v : Roles]

(* Routes that only an administrator reaches (writeAdminOnly). *)
AdminOnly == {"SetUserRole", "AssignProject", "ReleaseProject"}

(* CanWrite and RequireAdministrator: the gate in front of the handler.     *)
(* The break-glass names of INV_ADMIN_USERS are left out.                   *)
Admitted(u, op) ==
  \/ role[u] = "administrator"
  \/ role[u] = "project_owner" /\ op \notin AdminOnly

(* The session middleware loads the user and the gate lets the request      *)
(* through; an administrator's permit needs no reads.  A request the gate   *)
(* refuses changes nothing and is not a step.                               *)
Begin(r, u, ask) ==
  /\ req[r].pc = "idle"
  /\ made < MaxRequests
  /\ Admitted(u, ask.op)
  /\ ask.op = "CreateInProject" <=> (ask.e # "" /\ ask.e \notin exists)
  /\ \A s \in Requests \ {r} : req[s].pc # "idle" =>
       ~(ask.op = "CreateInProject" /\ req[s].ask.op = "CreateInProject" /\ req[s].ask.e = ask.e)
  /\ req' = [req EXCEPT ![r] =
       [pc |-> IF role[u] = "administrator" THEN "tx" ELSE "projects",
        user |-> u, ask |-> ask, next |-> 1,
        permit |-> [NoPermit EXCEPT !.all = role[u] = "administrator"],
        held |-> ProjectsForUser(u), linked |-> LiveLinks(live, link)]]
  /\ made' = made + 1
  /\ UNCHANGED <<role, live, assigned, link, exists>>

ReadProjects(r) ==
  /\ req[r].pc = "projects"
  /\ req' = [req EXCEPT
       ![r].permit = [all |-> @.all, projects |-> ProjectsForUser(req[r].user), entities |-> {}],
       ![r].pc = "entities"]
  /\ UNCHANGED <<role, live, assigned, link, exists, made>>

(* AssetIDsForProjects, ServiceIDsForProjects and CircuitIDsForProjects, one *)
(* read each, in that order.                                                 *)
ReadEntities(r) ==
  /\ req[r].pc = "entities"
  /\ LET ids == entityIDsForProjects(req[r].permit.projects, KindsInOrder[req[r].next])
     IN req' = [req EXCEPT
          ![r].permit = [all |-> @.all, projects |-> @.projects, entities |-> @.entities \cup ids],
          ![r].next = @ + 1,
          ![r].pc = IF req[r].next = Len(KindsInOrder) THEN "tx" ELSE "entities"]
  /\ UNCHANGED <<role, live, assigned, link, exists, made>>

----------------------------------------------------------------------------
(* The transactions.  Each says what it leaves of the tables when the       *)
(* permit covers what it logs; the caller checks that.                      *)

(* checkOwnerFree, and the partial unique index behind it. *)
OwnerFree(p, e) == \A q \in Projects \ {p} : link[<<q, e>>] # "owns"

WriteEntity(k, permit) ==
  /\ k.e \in exists
  /\ Covers(permit, "entity", k.p, k.e)
  /\ UNCHANGED <<role, live, assigned, link, exists>>

(* CreateAssetInProject, CreateServiceInProject, CreateCircuitInProject.    *)
(* The project's own lifecycle is not asked for.                            *)
CreateInProject(k, permit) ==
  /\ PermitHoldsProject(permit, k.p)
  /\ Covers(txPermit(k.p, k.e), "entity", k.p, k.e)
  /\ Covers(txPermit(k.p, k.e), "link", k.p, k.e)
  /\ exists' = exists \cup {k.e}
  /\ link' = [link EXCEPT ![<<k.p, k.e>>] = "owns"]
  /\ UNCHANGED <<role, live, assigned>>

(* LinkProjectAsset, LinkProjectService, LinkProjectCircuit: an upsert.     *)
LinkProject(k, permit) ==
  /\ k.e \in exists
  /\ k.v = "owns" => OwnerFree(k.p, k.e)
  /\ Covers(permit, "link", k.p, k.e)
  /\ link' = [link EXCEPT ![<<k.p, k.e>>] = k.v]
  /\ UNCHANGED <<role, live, assigned, exists>>

(* A link already retired is left, and nothing is logged or authorized.     *)
retireLink(k, permit) ==
  /\ link[<<k.p, k.e>>] # "none" => Covers(permit, "link", k.p, k.e)
  /\ link' = [link EXCEPT ![<<k.p, k.e>>] = "none"]
  /\ UNCHANGED <<role, live, assigned, exists>>

AssignProject(k, permit) ==
  /\ <<k.u, k.p>> \notin assigned => Covers(permit, "user_project", k.p, k.e)
  /\ assigned' = assigned \cup {<<k.u, k.p>>}
  /\ UNCHANGED <<role, live, link, exists>>

ReleaseProject(k, permit) ==
  /\ <<k.u, k.p>> \in assigned => Covers(permit, "user_project", k.p, k.e)
  /\ assigned' = assigned \ {<<k.u, k.p>>}
  /\ UNCHANGED <<role, live, link, exists>>

(* releaseLinks, called for project_asset and project_service only. *)
releaseLinks(p) ==
  [pe \in Projects \X Entities |->
     IF pe[1] = p /\ Kind[pe[2]] # "circuit" THEN "none" ELSE link[pe]]

RetireProject(k, permit) ==
  /\ k.p \in live => /\ Covers(permit, "project", k.p, k.e)
                     /\ \A e \in Linked(k.p) : Kind[e] # "circuit" => Covers(permit, "link", k.p, e)
  /\ live' = live \ {k.p}
  /\ link' = IF k.p \in live THEN releaseLinks(k.p) ELSE link
  /\ UNCHANGED <<role, assigned, exists>>

(* The edit form offers every lifecycle, so it retires a project without    *)
(* releasing its links, and takes a retired one back into service.          *)
UpdateProject(k, permit) ==
  /\ Covers(permit, "project", k.p, k.e)
  /\ live' = IF k.v = "retired" THEN live \ {k.p} ELSE live \cup {k.p}
  /\ UNCHANGED <<role, assigned, link, exists>>

(* SetUserRole: the last administrator keeps the role (UserAdmin has the    *)
(* whole of it).                                                            *)
SetUserRole(k, permit) ==
  /\ Covers(permit, "app_user", k.p, k.e)
  /\ k.v = "administrator" \/ \E u \in Users \ {k.u} : role[u] = "administrator"
  /\ role' = [role EXCEPT ![k.u] = k.v]
  /\ UNCHANGED <<live, assigned, link, exists>>

Transaction(k, permit) ==
  \/ k.op = "WriteEntity"     /\ WriteEntity(k, permit)
  \/ k.op = "CreateInProject" /\ CreateInProject(k, permit)
  \/ k.op = "LinkProject"     /\ LinkProject(k, permit)
  \/ k.op = "retireLink"      /\ retireLink(k, permit)
  \/ k.op = "AssignProject"   /\ AssignProject(k, permit)
  \/ k.op = "ReleaseProject"  /\ ReleaseProject(k, permit)
  \/ k.op = "RetireProject"   /\ RetireProject(k, permit)
  \/ k.op = "UpdateProject"   /\ UpdateProject(k, permit)
  \/ k.op = "SetUserRole"     /\ SetUserRole(k, permit)

(* History: what has been true at some moment since the request began, for  *)
(* a request that is still resolving its permit.                            *)
Witness(s) ==
  IF s.pc \notin {"projects", "entities"} THEN s
  ELSE [s EXCEPT !.held = @ \cup {p \in live' : <<s.user, p>> \in assigned'},
                 !.linked = @ \cup LiveLinks(live', link')]

Commit(r) ==
  /\ req[r].pc = "tx"
  /\ Transaction(req[r].ask, req[r].permit)
  /\ req' = [s \in Requests |-> IF s = r THEN Idle ELSE Witness(req[s])]
  /\ UNCHANGED made

(* The transaction refuses, or the client is gone: nothing is written. *)
GiveUp(r) ==
  /\ req[r].pc # "idle"
  /\ req' = [req EXCEPT ![r] = Idle]
  /\ UNCHANGED <<role, live, assigned, link, exists, made>>

Init ==
  /\ role = Role
  /\ live = Projects
  /\ assigned = Assigned
  /\ link = [pe \in Projects \X Entities |-> IF pe \in Owned THEN "owns" ELSE "none"]
  /\ exists = Given
  /\ req = [r \in Requests |-> Idle]
  /\ made = 0

Next ==
  \E r \in Requests :
    \/ \E u \in Users, ask \in Asks : Begin(r, u, ask)
    \/ ReadProjects(r)
    \/ ReadEntities(r)
    \/ Commit(r)
    \/ GiveUp(r)

Spec == Init /\ [][Next]_vars

----------------------------------------------------------------------------
Permit == [all : BOOLEAN, projects : SUBSET Projects, entities : SUBSET Entities]

(* The tables and the requests in flight keep their shape: every link has a *)
(* relation or is released, and every permit names known projects and ids.  *)
TypeOK ==
  /\ role \in [Users -> Roles]
  /\ live \subseteq Projects
  /\ assigned \subseteq Users \X Projects
  /\ link \in [Projects \X Entities -> {"none", "owns", "uses"}]
  /\ exists \subseteq Entities
  /\ made \in 0..MaxRequests
  /\ \A r \in Requests : req[r].pc # "idle" =>
       /\ req[r].pc \in {"projects", "entities", "tx"}
       /\ req[r].user \in Users /\ req[r].permit \in Permit
       /\ req[r].next \in 1..(Len(KindsInOrder) + 1)

(* A permit is never older than its request.  When the transaction starts,  *)
(* each project in the permit was, at some moment since the request began,  *)
(* assigned to the user and not retired, and each entity it covers was, at  *)
(* such a moment, actively linked to one of those projects while that       *)
(* project was not retired: auth.Permit resolves per request, and what was  *)
(* withdrawn before the request began is gone from it.                      *)
PermitIsRecent ==
  \A r \in Requests : req[r].pc = "tx" =>
    /\ req[r].permit.projects \subseteq req[r].held
    /\ \A e \in req[r].permit.entities :
         \E p \in req[r].permit.projects : <<p, e>> \in req[r].linked

(* What a project owner may write when resolved at one moment. *)
Reach(u) == UNION {Linked(p) : p \in ProjectsForUser(u)}

(* No project owner widens anyone's scope.  An entity that existed comes    *)
(* into somebody's reach only by an administrator's request, or by one of   *)
(* a user who held a project it was linked to since that request began:     *)
(* the two-hop escalation (link any asset into my project, write it with    *)
(* the next request) that the link-row rule of Covers is there to refuse.   *)
NoEscalation ==
  [][\A u \in Users : \A e \in (Reach(u)' \ Reach(u)) \cap exists :
       \E r \in Requests :
         /\ req[r].pc = "tx" /\ req'[r].pc = "idle"
         /\ \/ req[r].permit.all
            \/ \E p \in req[r].held : <<p, e>> \in req[r].linked]_vars

(* RetireProject's contract: the retirement releases the project's links,   *)
(* so that another project can own what it owned.  (The code releases two   *)
(* of the three tables.)                                                    *)
RetirementReleasesLinks ==
  [][\A p \in live \ live' : \A e \in Entities : link'[<<p, e>>] # "owns"]_vars
=============================================================================
