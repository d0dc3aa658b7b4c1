--------------------------- MODULE PermitsProofs ---------------------------
(***************************************************************************)
(* Who may do what.  A write permit, proved for any number of users,       *)
(* projects, entities and concurrent requests: a permit is never older than*)
(* its request, and no project owner widens anyone's reach.  And the       *)
(* accounts, for any number of them, of persons, requests and attempts: an *)
(* active administrator is always left, and an erasure outlives every      *)
(* request that starts after it.                                           *)
(*                                                                         *)
(* The invariant of the permits says of a request what its reads have      *)
(* collected so far: while it resolves its permit the history (held, linked)*)
(* contains the tables of this moment, so that whatever the next read      *)
(* returns is in it.                                                       *)
(***************************************************************************)
EXTENDS Permits, UserAdmin, FiniteSetTheorems, TLAPS

(* What was read is in the history. *)
Grounded(q) ==
  /\ q.permit.projects \subseteq q.held
  /\ \A e \in q.permit.entities : \E p \in q.permit.projects : <<p, e>> \in q.linked

(* The history of a request that still reads has the present tables in it. *)
Current(q, lv, as, ln) ==
  /\ {p \in lv : <<q.user, p>> \in as} \subseteq q.held
  /\ LiveLinks(lv, ln) \subseteq q.linked

Reading(q) == q.pc \in {"projects", "entities"}

InvOf(q, lv, as, ln) ==
  /\ q.pc \in {"idle", "projects", "entities", "tx"}
  /\ Reading(q) => Current(q, lv, as, ln)
  /\ q.pc = "projects" => q.permit.entities = {}
  /\ q.pc \in {"entities", "tx"} => Grounded(q)

(* The id of a create under way is nobody's, and no other create has it. *)
Minting(q) == q.pc # "idle" /\ q.ask.op = "CreateInProject"

MintsApart(rq, ex) ==
  /\ \A r \in Requests : Minting(rq[r]) => rq[r].ask.e \notin ex
  /\ \A r, s \in Requests : Minting(rq[r]) /\ Minting(rq[s]) /\ r # s => rq[r].ask.e # rq[s].ask.e

(* A request that edits a project names one. *)
Known(q) == q.pc # "idle" /\ q.ask.op = "UpdateProject" => q.ask.p \in Projects

PermitInv ==
  /\ live \subseteq Projects
  /\ DOMAIN req = Requests
  /\ link = [pe \in Projects \X Entities |-> link[pe]]
  /\ \A r \in Requests : InvOf(req[r], live, assigned, link)
  /\ MintsApart(req, exists)
  /\ \A r \in Requests : Known(req[r])

----------------------------------------------------------------------------
(* The history of a request only grows, and nothing else of it changes. *)
LEMMA WitnessGrows ==
  ASSUME NEW q
  PROVE  /\ Witness(q).pc = q.pc /\ Witness(q).permit = q.permit /\ Witness(q).user = q.user
         /\ Witness(q).ask = q.ask
         /\ ~Reading(q) => Witness(q) = q
         /\ Reading(q) =>
              /\ Witness(q).held = q.held \cup {p \in live' : <<q.user, p>> \in assigned'}
              /\ Witness(q).linked = q.linked \cup LiveLinks(live', link')
<1>1. CASE Reading(q)
  <2>1. Witness(q) = [q EXCEPT !.held = @ \cup {p \in live' : <<q.user, p>> \in assigned'},
                               !.linked = @ \cup LiveLinks(live', link')]
    BY <1>1 DEF Witness, Reading
  <2> QED
    BY <1>1, <2>1
<1>2. CASE ~Reading(q)
  BY <1>2 DEF Witness, Reading
<1> QED
  BY <1>1, <1>2

(* So it goes on containing the tables, whatever a transaction makes of them. *)
LEMMA WitnessKeeps ==
  ASSUME NEW q, NEW lv, NEW as, NEW ln, InvOf(q, lv, as, ln)
  PROVE  InvOf(Witness(q), live', assigned', link')
<1> DEFINE w == Witness(q)
<1>1. /\ w.pc = q.pc /\ w.permit = q.permit /\ w.user = q.user
      /\ Reading(q) => /\ w.held = q.held \cup {p \in live' : <<q.user, p>> \in assigned'}
                       /\ w.linked = q.linked \cup LiveLinks(live', link')
      /\ ~Reading(q) => w = q
  BY WitnessGrows
<1> HIDE DEF w
<1>2. CASE Reading(q)
  <2>1. Current(w, live', assigned', link')
    BY <1>1, <1>2 DEF Current
  <2>2. q.pc = "entities" => Grounded(w)
    BY <1>1, <1>2 DEF InvOf, Grounded
  <2> QED
    BY <1>1, <1>2, <2>1, <2>2 DEF InvOf, Reading, w
<1>3. CASE ~Reading(q)
  BY <1>1, <1>3 DEF InvOf, Reading, w
<1> QED
  BY <1>2, <1>3

----------------------------------------------------------------------------
LEMMA InitPermitInv == Init => PermitInv
<1> SUFFICES ASSUME Init PROVE PermitInv
  OBVIOUS
<1>1. \A r \in Requests : req[r].pc = "idle"
  BY DEF Init, Idle
<1>2. \A r \in Requests : InvOf(req[r], live, assigned, link)
  BY <1>1 DEF InvOf, Reading
<1>3. MintsApart(req, exists)
  BY <1>1 DEF MintsApart, Minting
<1>4. \A r \in Requests : Known(req[r])
  BY <1>1 DEF Known
<1> QED
  BY <1>2, <1>3, <1>4 DEF Init, PermitInv

LEMMA BeginKeeps ==
  ASSUME PermitInv, NEW r \in Requests, NEW u \in Users, NEW ask \in Asks, Begin(r, u, ask)
  PROVE  PermitInv'
<1> DEFINE q == [pc |-> IF role[u] = "administrator" THEN "tx" ELSE "projects",
                 user |-> u, ask |-> ask, next |-> 1,
                 permit |-> [NoPermit EXCEPT !.all = role[u] = "administrator"],
                 held |-> ProjectsForUser(u), linked |-> LiveLinks(live, link)]
<1>1. /\ req' = [req EXCEPT ![r] = q]
      /\ live' = live /\ assigned' = assigned /\ link' = link /\ exists' = exists
  BY DEF Begin
<1>2. /\ q.pc = (IF role[u] = "administrator" THEN "tx" ELSE "projects")
      /\ q.user = u /\ q.ask = ask /\ q.held = ProjectsForUser(u) /\ q.linked = LiveLinks(live, link)
  OBVIOUS
<1>3. q.permit.projects = {} /\ q.permit.entities = {}
  <2>1. q.permit = [NoPermit EXCEPT !.all = role[u] = "administrator"]
    OBVIOUS
  <2> HIDE DEF q
  <2> QED
    BY <2>1 DEF NoPermit
<1> HIDE DEF q
<1>4. InvOf(q, live, assigned, link)
  BY <1>2, <1>3 DEF InvOf, Reading, Current, Grounded, ProjectsForUser
<1>5. DOMAIN req' = Requests /\ req'[r] = q /\ \A s \in Requests \ {r} : req'[s] = req[s]
  BY <1>1 DEF PermitInv
<1>6. \A s \in Requests : InvOf(req'[s], live, assigned, link)
  BY <1>4, <1>5 DEF PermitInv
<1>7. MintsApart(req', exists)
  <2>1. Minting(q) => ask.op = "CreateInProject" /\ q.ask.e = ask.e
    BY <1>2 DEF Minting
  <2>2. ask.op = "CreateInProject" =>
          /\ ask.e \notin exists
          /\ \A s \in Requests \ {r} : Minting(req[s]) => req[s].ask.e # ask.e
    BY DEF Begin, Minting
  <2> QED
    BY <1>5, <2>1, <2>2 DEF MintsApart, PermitInv
<1>8. Known(q)
  BY <1>2 DEF Known, Asks
<1> QED
  BY <1>1, <1>5, <1>6, <1>7, <1>8 DEF PermitInv

LEMMA ReadProjectsKeeps ==
  ASSUME PermitInv, NEW r \in Requests, ReadProjects(r)
  PROVE  PermitInv'
<1>1. /\ DOMAIN req' = Requests /\ \A s \in Requests \ {r} : req'[s] = req[s]
      /\ req'[r].pc = "entities" /\ req'[r].user = req[r].user /\ req'[r].ask = req[r].ask
      /\ req'[r].held = req[r].held /\ req'[r].linked = req[r].linked
      /\ req'[r].permit.projects = ProjectsForUser(req[r].user) /\ req'[r].permit.entities = {}
      /\ live' = live /\ assigned' = assigned /\ link' = link /\ exists' = exists
  BY DEF ReadProjects, PermitInv
<1>2. req[r].pc = "projects" /\ InvOf(req[r], live, assigned, link)
  BY DEF ReadProjects, PermitInv
<1>3. InvOf(req'[r], live, assigned, link)
  BY <1>1, <1>2 DEF InvOf, Reading, Current, Grounded, ProjectsForUser
<1>4. MintsApart(req', exists)
  <2>1. \A s \in Requests : req'[s].ask = req[s].ask /\ (Minting(req'[s]) => Minting(req[s]))
    BY <1>1, <1>2 DEF Minting
  <2> QED
    BY <2>1 DEF MintsApart, PermitInv
<1>5. Known(req'[r])
  BY <1>1, <1>2 DEF Known, PermitInv
<1> QED
  BY <1>1, <1>3, <1>4, <1>5 DEF PermitInv

LEMMA ReadEntitiesKeeps ==
  ASSUME PermitInv, NEW r \in Requests, ReadEntities(r)
  PROVE  PermitInv'
<1> DEFINE ids == entityIDsForProjects(req[r].permit.projects, KindsInOrder[req[r].next])
<1>1. /\ DOMAIN req' = Requests /\ \A s \in Requests \ {r} : req'[s] = req[s]
      /\ req'[r].pc \in {"entities", "tx"}
      /\ req'[r].user = req[r].user /\ req'[r].ask = req[r].ask
      /\ req'[r].held = req[r].held /\ req'[r].linked = req[r].linked
      /\ req'[r].permit.projects = req[r].permit.projects
      /\ req'[r].permit.entities = req[r].permit.entities \cup ids
      /\ live' = live /\ assigned' = assigned /\ link' = link /\ exists' = exists
  <2> HIDE DEF ids
  <2>1. /\ DOMAIN req = Requests
        /\ req' = [req EXCEPT
             ![r].permit = [all |-> @.all, projects |-> @.projects, entities |-> @.entities \cup ids],
             ![r].next = @ + 1,
             ![r].pc = IF req[r].next = Len(KindsInOrder) THEN "tx" ELSE "entities"]
    <3>1. DOMAIN req = Requests
      BY DEF PermitInv
    <3> QED
      BY <3>1, Zenon DEF ReadEntities, ids
  <2>2. live' = live /\ assigned' = assigned /\ link' = link /\ exists' = exists
    BY DEF ReadEntities
  <2> QED
    BY <2>1, <2>2
<1>2. req[r].pc = "entities" /\ InvOf(req[r], live, assigned, link)
  BY DEF ReadEntities, PermitInv
<1>3. \A e \in ids : \E p \in req[r].permit.projects : <<p, e>> \in req[r].linked
  <2> SUFFICES ASSUME NEW e \in ids PROVE \E p \in req[r].permit.projects : <<p, e>> \in req[r].linked
    OBVIOUS
  <2>1. PICK p \in req[r].permit.projects \cap live : e \in Linked(p)
    BY DEF entityIDsForProjects
  <2>2. e \in Entities /\ link[<<p, e>>] # "none" /\ p \in Projects
    BY <2>1 DEF Linked, PermitInv
  <2>3. <<p, e>> \in LiveLinks(live, link)
    BY <2>1, <2>2 DEF LiveLinks
  <2> QED
    BY <1>2, <2>1, <2>3 DEF InvOf, Reading, Current
<1> HIDE DEF ids
<1>4. InvOf(req'[r], live, assigned, link)
  BY <1>1, <1>2, <1>3 DEF InvOf, Reading, Current, Grounded
<1>5. MintsApart(req', exists)
  <2>1. \A s \in Requests : req'[s].ask = req[s].ask /\ (Minting(req'[s]) => Minting(req[s]))
    BY <1>1, <1>2 DEF Minting
  <2> QED
    BY <2>1 DEF MintsApart, PermitInv
<1>6. Known(req'[r])
  BY <1>1, <1>2 DEF Known, PermitInv
<1> QED
  BY <1>1, <1>4, <1>5, <1>6 DEF PermitInv

(* What a transaction may do to the tables, without its permit: projects stay *)
(* projects, and the one id that may begin to exist is the one being minted.  *)
LEMMA TransactionShape ==
  ASSUME PermitInv, NEW k, NEW permit, Transaction(k, permit),
         k.op = "UpdateProject" => k.p \in Projects
  PROVE  /\ live' \subseteq Projects
         /\ link' = [pe \in Projects \X Entities |-> link'[pe]]
         /\ exists' = exists \/ (k.op = "CreateInProject" /\ exists' = exists \cup {k.e})
<1>1. live \subseteq Projects /\ link = [pe \in Projects \X Entities |-> link[pe]]
  BY DEF PermitInv
<1>2. CASE k.op = "WriteEntity" /\ WriteEntity(k, permit)
  BY <1>1, <1>2 DEF WriteEntity
<1>3. CASE k.op = "CreateInProject" /\ CreateInProject(k, permit)
  BY <1>1, <1>3 DEF CreateInProject
<1>4. CASE k.op = "LinkProject" /\ LinkProject(k, permit)
  BY <1>1, <1>4 DEF LinkProject
<1>5. CASE k.op = "retireLink" /\ retireLink(k, permit)
  BY <1>1, <1>5 DEF retireLink
<1>6. CASE k.op = "AssignProject" /\ AssignProject(k, permit)
  BY <1>1, <1>6 DEF AssignProject
<1>7. CASE k.op = "ReleaseProject" /\ ReleaseProject(k, permit)
  BY <1>1, <1>7 DEF ReleaseProject
<1>8. CASE k.op = "RetireProject" /\ RetireProject(k, permit)
  <2>1. releaseLinks(k.p) = [pe \in Projects \X Entities |-> releaseLinks(k.p)[pe]]
    BY DEF releaseLinks
  <2> QED
    BY <1>1, <1>8, <2>1 DEF RetireProject
<1>9. CASE k.op = "UpdateProject" /\ UpdateProject(k, permit)
  BY <1>1, <1>9 DEF UpdateProject
<1>10. CASE k.op = "SetUserRole" /\ SetUserRole(k, permit)
  BY <1>1, <1>10 DEF SetUserRole
<1> QED
  BY <1>2, <1>3, <1>4, <1>5, <1>6, <1>7, <1>8, <1>9, <1>10 DEF Transaction

LEMMA CommitKeeps ==
  ASSUME PermitInv, NEW r \in Requests, Commit(r)
  PROVE  PermitInv'
<1>1. /\ req[r].pc = "tx" /\ Transaction(req[r].ask, req[r].permit)
      /\ req' = [s \in Requests |-> IF s = r THEN Idle ELSE Witness(req[s])]
  BY DEF Commit
<1>2. req[r].ask.op = "UpdateProject" => req[r].ask.p \in Projects
  BY <1>1 DEF PermitInv, Known
<1>3. /\ live' \subseteq Projects /\ link' = [pe \in Projects \X Entities |-> link'[pe]]
      /\ \/ exists' = exists
         \/ req[r].ask.op = "CreateInProject" /\ exists' = exists \cup {req[r].ask.e}
  BY <1>1, <1>2, TransactionShape
<1>4. /\ DOMAIN req' = Requests /\ req'[r] = Idle
      /\ \A s \in Requests \ {r} : req'[s] = Witness(req[s])
  BY <1>1
<1>5. \A s \in Requests \ {r} : req'[s].pc = req[s].pc /\ req'[s].ask = req[s].ask
  BY <1>4, WitnessGrows
<1>6. req'[r].pc = "idle"
  BY <1>4 DEF Idle
<1>7. \A s \in Requests : InvOf(req'[s], live', assigned', link')
  <2> TAKE s \in Requests
  <2>1. CASE s = r
    BY <1>6, <2>1 DEF InvOf, Reading
  <2>2. CASE s # r
    <3>1. InvOf(req[s], live, assigned, link)
      BY DEF PermitInv
    <3>2. InvOf(Witness(req[s]), live', assigned', link')
      BY <3>1, WitnessKeeps
    <3> QED
      BY <1>4, <2>2, <3>2
  <2> QED
    BY <2>1, <2>2
<1>8. MintsApart(req', exists')
  <2>1. Minting(req[r]) <=> req[r].ask.op = "CreateInProject"
    BY <1>1 DEF Minting
  <2>2. ~Minting(req'[r])
    BY <1>6 DEF Minting
  <2>3. \A s \in Requests \ {r} : /\ Minting(req'[s]) <=> Minting(req[s])
                                  /\ req'[s].ask = req[s].ask
    BY <1>5 DEF Minting
  <2>4. MintsApart(req, exists)
    BY DEF PermitInv
  <2> QED
    BY <1>3, <2>1, <2>2, <2>3, <2>4 DEF MintsApart
<1>9. \A s \in Requests : Known(req'[s])
  <2>1. \A s \in Requests : Known(req[s])
    BY DEF PermitInv
  <2> QED
    BY <1>5, <1>6, <2>1 DEF Known
<1> QED
  BY <1>3, <1>4, <1>7, <1>8, <1>9 DEF PermitInv

LEMMA GiveUpKeeps ==
  ASSUME PermitInv, NEW r \in Requests, GiveUp(r)
  PROVE  PermitInv'
<1>1. /\ DOMAIN req' = Requests /\ \A s \in Requests \ {r} : req'[s] = req[s]
      /\ req'[r].pc = "idle"
      /\ live' = live /\ assigned' = assigned /\ link' = link /\ exists' = exists
  BY DEF GiveUp, PermitInv, Idle
<1>2. InvOf(req'[r], live, assigned, link) /\ Known(req'[r])
  BY <1>1 DEF InvOf, Reading, Known
<1>3. MintsApart(req', exists)
  <2>1. ~Minting(req'[r])
    BY <1>1 DEF Minting
  <2> QED
    BY <1>1, <2>1 DEF MintsApart, PermitInv
<1> QED
  BY <1>1, <1>2, <1>3 DEF PermitInv

LEMMA NextPermitInv == PermitInv /\ [Next]_vars => PermitInv'
<1> SUFFICES ASSUME PermitInv, [Next]_vars PROVE PermitInv'
  OBVIOUS
<1>1. CASE UNCHANGED vars
  BY <1>1 DEF vars, PermitInv, MintsApart
<1>2. CASE Next
  BY <1>2, BeginKeeps, ReadProjectsKeeps, ReadEntitiesKeeps, CommitKeeps, GiveUpKeeps DEF Next
<1> QED
  BY <1>1, <1>2

(* A permit is never older than its request: what auth.Permit collected in    *)
(* four separate reads was true at some moment since the request began,       *)
(* whatever assignments, links and projects were changed between the reads.   *)
THEOREM PermitAlwaysRecent == Spec => []PermitIsRecent
<1>1. PermitInv => PermitIsRecent
  BY DEF PermitInv, InvOf, Grounded, PermitIsRecent
<1> QED
  BY <1>1, InitPermitInv, NextPermitInv, PTL DEF Spec

----------------------------------------------------------------------------
(* Somebody's reach grows only by a link, an assignment or a project that     *)
(* comes back into service.                                                   *)
LEMMA ReachGrowth ==
  ASSUME NEW u, NEW e, e \in Reach(u)', e \notin Reach(u)
  PROVE  \E p \in live' : /\ e \in Entities /\ <<u, p>> \in assigned' /\ link'[<<p, e>>] # "none"
                          /\ p \notin live \/ <<u, p>> \notin assigned \/ link[<<p, e>>] = "none"
<1>1. PICK p : p \in live' /\ <<u, p>> \in assigned' /\ e \in Entities /\ link'[<<p, e>>] # "none"
  BY DEF Reach, ProjectsForUser, Linked
<1>2. ~(p \in live /\ <<u, p>> \in assigned /\ link[<<p, e>>] # "none")
  BY <1>1 DEF Reach, ProjectsForUser, Linked
<1> QED
  BY <1>1, <1>2

(* The transaction of a permit that brings an existing entity into reach:     *)
(* the permit is an administrator's, or covers the entity.                    *)
LEMMA WideningIsCovered ==
  ASSUME PermitInv, NEW k, NEW permit, Transaction(k, permit),
         k.op = "CreateInProject" => k.e \notin exists,
         NEW u, NEW e \in exists, e \in Reach(u)', e \notin Reach(u)
  PROVE  permit.all \/ e \in permit.entities
<1>1. PICK p \in live' :
        /\ e \in Entities /\ <<u, p>> \in assigned' /\ link'[<<p, e>>] # "none"
        /\ p \notin live \/ <<u, p>> \notin assigned \/ link[<<p, e>>] = "none"
  BY ReachGrowth
<1>2. link = [pe \in Projects \X Entities |-> link[pe]]
  BY DEF PermitInv
<1>3. CASE k.op = "WriteEntity" /\ WriteEntity(k, permit)
  BY <1>1, <1>3 DEF WriteEntity
<1>4. CASE k.op = "CreateInProject" /\ CreateInProject(k, permit)
  <2>1. <<p, e>> # <<k.p, k.e>>
    BY <1>4
  <2>2. link'[<<p, e>>] = link[<<p, e>>]
    BY <1>2, <1>4, <2>1 DEF CreateInProject
  <2> QED
    BY <1>1, <1>4, <2>2 DEF CreateInProject
<1>5. CASE k.op = "LinkProject" /\ LinkProject(k, permit)
  <2>1. live' = live /\ assigned' = assigned /\ link' = [link EXCEPT ![<<k.p, k.e>>] = k.v]
    BY <1>5 DEF LinkProject
  <2>2. <<p, e>> = <<k.p, k.e>>
    BY <1>1, <1>2, <2>1
  <2>3. e = k.e
    BY <2>2
  <2> QED
    BY <1>5, <2>3 DEF LinkProject, Covers, ScopeClassOf
<1>6. CASE k.op = "retireLink" /\ retireLink(k, permit)
  <2>1. live' = live /\ assigned' = assigned /\ link' = [link EXCEPT ![<<k.p, k.e>>] = "none"]
    BY <1>6 DEF retireLink
  <2> QED
    BY <1>1, <1>2, <2>1
<1>7. CASE k.op = "AssignProject" /\ AssignProject(k, permit)
  <2>1. live' = live /\ link' = link /\ assigned' = assigned \cup {<<k.u, k.p>>}
    BY <1>7 DEF AssignProject
  <2>2. <<k.u, k.p>> \notin assigned
    BY <1>1, <2>1
  <2> QED
    BY <1>7, <2>2 DEF AssignProject, Covers, ScopeClassOf
<1>8. CASE k.op = "ReleaseProject" /\ ReleaseProject(k, permit)
  BY <1>1, <1>8 DEF ReleaseProject
<1>9. CASE k.op = "RetireProject" /\ RetireProject(k, permit)
  <2>1. /\ live' = live \ {k.p} /\ assigned' = assigned
        /\ link' = link \/ link' = releaseLinks(k.p)
    BY <1>9 DEF RetireProject
  <2>2. link'[<<p, e>>] = link[<<p, e>>] \/ link'[<<p, e>>] = "none"
    <3>1. CASE <<p, e>> \in Projects \X Entities
      BY <2>1, <3>1 DEF releaseLinks
    <3>2. p \in Projects
      BY <2>1 DEF PermitInv
    <3> QED
      BY <1>1, <3>1, <3>2
  <2> QED
    BY <1>1, <2>1, <2>2
<1>10. CASE k.op = "UpdateProject" /\ UpdateProject(k, permit)
  BY <1>10 DEF UpdateProject, Covers, ScopeClassOf
<1>11. CASE k.op = "SetUserRole" /\ SetUserRole(k, permit)
  BY <1>1, <1>11 DEF SetUserRole
<1> QED
  BY <1>3, <1>4, <1>5, <1>6, <1>7, <1>8, <1>9, <1>10, <1>11 DEF Transaction

(* No project owner widens anyone's scope: an entity that existed comes into  *)
(* somebody's reach only by the transaction of an administrator, or of a user *)
(* who held it, by a project, at some moment since that request began (the    *)
(* link-row rule of Covers, with a permit that may be stale by then).         *)
THEOREM NobodyEscalates == Spec => NoEscalation
<1> DEFINE Sanctioned ==
      \A u \in Users : \A e \in (Reach(u)' \ Reach(u)) \cap exists :
        \E r \in Requests :
          /\ req[r].pc = "tx" /\ req'[r].pc = "idle"
          /\ \/ req[r].permit.all
             \/ \E p \in req[r].held : <<p, e>> \in req[r].linked
<1>1. PermitInv /\ [Next]_vars => [Sanctioned]_vars
  <2> SUFFICES ASSUME PermitInv, Next, NEW u \in Users,
                      NEW e \in exists, e \in Reach(u)', e \notin Reach(u)
               PROVE  \E r \in Requests :
                        /\ req[r].pc = "tx" /\ req'[r].pc = "idle"
                        /\ \/ req[r].permit.all
                           \/ \E p \in req[r].held : <<p, e>> \in req[r].linked
    OBVIOUS
  <2>1. PICK p \in live' :
          /\ e \in Entities /\ <<u, p>> \in assigned' /\ link'[<<p, e>>] # "none"
          /\ p \notin live \/ <<u, p>> \notin assigned \/ link[<<p, e>>] = "none"
    BY ReachGrowth
  <2>2. PICK r \in Requests : Commit(r)
    BY <2>1 DEF Next, Begin, ReadProjects, ReadEntities, GiveUp
  <2>3. /\ req[r].pc = "tx" /\ Transaction(req[r].ask, req[r].permit)
        /\ req'[r] = Idle
    BY <2>2 DEF Commit
  <2>4. req[r].ask.op = "CreateInProject" => req[r].ask.e \notin exists
    BY <2>3 DEF PermitInv, MintsApart, Minting
  <2>5. req[r].permit.all \/ e \in req[r].permit.entities
    BY <2>3, <2>4, WideningIsCovered
  <2>6. Grounded(req[r])
    BY <2>3 DEF PermitInv, InvOf
  <2> QED
    BY <2>3, <2>5, <2>6 DEF Grounded, Idle
<1> QED
  BY <1>1, InitPermitInv, NextPermitInv, PTL DEF Spec, NoEscalation
----------------------------------------------------------------------------
(* The accounts. *)

LEMMA IdleType == NoCall \in Request
BY DEF Request

LEMMA FreshType == Fresh \in UserRow
BY DEF Fresh, UserRow, AccountRoles

LEMMA EffectType ==
  ASSUME NEW row \in UserRow, NEW v \in Verb PROVE Effect(row, v) \in UserRow
<1>1. v.kind \in {"role", "active", "scrub"} /\ v.role \in AccountRoles /\ v.active \in BOOLEAN
  BY DEF Verb
<1>2. CASE v.kind = "role"
  BY <1>1, <1>2 DEF Effect, UserRow
<1>3. CASE v.kind = "active"
  BY <1>1, <1>3 DEF Effect, UserRow
<1>4. CASE v.kind = "scrub"
  BY <1>4 DEF Effect, UserRow
<1> QED
  BY <1>1, <1>2, <1>3, <1>4

LEMMA NewUserType ==
  ASSUME NEW p \in Persons \cup {None} PROVE NewUser(p) \in UserRow
BY FreshType DEF NewUser, UserRow

(* What an open transaction holds. *)
LEMMA OpenFields ==
  ASSUME AccountTypeOK, NEW r \in Calls, call[r].op = "open"
  PROVE  /\ call[r].verb \in Verb /\ call[r].verb.user \in Accounts
         /\ call[r].row \in UserRow /\ call[r].admins \in SUBSET Accounts
         /\ call[r].attempt \in 1..Attempts
BY DEF AccountTypeOK, Request, NoCall, Verb

LEMMA NextAttemptType ==
  ASSUME AccountTypeOK, NEW r \in Calls, call[r].op = "open", NextAttempt(r)
  PROVE  call' \in [Calls -> Request]
<1>1. CASE call[r].attempt < Attempts
  <2>1. call[r].attempt + 1 \in 1..Attempts
    BY <1>1, OpenFields, AttemptsAssumption
  <2>2. [op |-> "queued", verb |-> call[r].verb, attempt |-> call[r].attempt + 1] \in Request
    BY <2>1, OpenFields DEF Request
  <2> QED
    BY <1>1, <2>2 DEF NextAttempt, AccountTypeOK
<1>2. CASE ~(call[r].attempt < Attempts)
  BY <1>2, IdleType DEF NextAttempt, Finish, AccountTypeOK
<1> QED
  BY <1>1, <1>2

LEMMA TypeStep == AccountTypeOK /\ [AccountNext]_accountVars => AccountTypeOK'
<1> SUFFICES ASSUME AccountTypeOK, [AccountNext]_accountVars PROVE AccountTypeOK'
  OBVIOUS
<1>1. ASSUME NEW u \in Accounts, CreateUser(u) PROVE AccountTypeOK'
  BY <1>1, NewUserType DEF CreateUser, AccountTypeOK
<1>2. ASSUME NEW r \in Calls, NEW v \in Verbs, AskFor(r, v) PROVE AccountTypeOK'
  <2>1. [op |-> "queued", verb |-> v, attempt |-> 1] \in Request
    BY AttemptsAssumption DEF Verbs, Request
  <2> QED
    BY <1>2, <2>1 DEF AskFor, AccountTypeOK
<1>3. ASSUME NEW r \in Calls, NEW p \in Persons, BeginSignIn(r, p) PROVE AccountTypeOK'
  BY <1>3 DEF BeginSignIn, AccountTypeOK, Request
<1>4. ASSUME NEW r \in Calls, NEW u \in Accounts, BeginSaveView(r, u) PROVE AccountTypeOK'
  BY <1>4 DEF BeginSaveView, AccountTypeOK, Request
<1>5. ASSUME NEW r \in Calls, OpenTx(r) PROVE AccountTypeOK'
  <2>1. call[r].verb \in Verb /\ call[r].verb.user \in Accounts /\ call[r].attempt \in 1..Attempts
    BY <1>5 DEF OpenTx, AccountTypeOK, Request, NoCall, Verb
  <2>2. users[call[r].verb.user] \in UserRow /\ ActiveAdministrators \in SUBSET Accounts
    BY <2>1 DEF AccountTypeOK, ActiveAdministrators
  <2> DEFINE seen == IF call[r].verb.kind = "scrub" THEN ViewsOf(call[r].verb.user) ELSE {}
  <2>4. seen \in SUBSET (Accounts \X Nat)
    BY DEF AccountTypeOK, ViewsOf
  <2>3. [op |-> "open", verb |-> call[r].verb, attempt |-> call[r].attempt,
         row |-> users[call[r].verb.user], admins |-> ActiveAdministrators,
         seen |-> seen] \in Request
    <3> HIDE DEF seen
    <3> QED
      BY <2>1, <2>2, <2>4 DEF Request
  <2> QED
    BY <1>5, <2>3 DEF OpenTx, AccountTypeOK
<1>6. ASSUME NEW r \in Calls, CommitTx(r) PROVE AccountTypeOK'
  <2>1. call[r].op = "open" /\ Finish(r)
    BY <1>6 DEF CommitTx
  <2>2. /\ call[r].verb.user \in Accounts
        /\ Effect(users[call[r].verb.user], call[r].verb) \in UserRow
    BY <2>1, OpenFields, EffectType DEF AccountTypeOK
  <2>3. users' \in [Accounts -> UserRow]
    BY <1>6, <2>2 DEF CommitTx, AccountTypeOK
  <2>4. /\ views' \subseteq Accounts \X Nat /\ saved' \in Nat
        /\ erased' \subseteq Accounts /\ raced' \subseteq erased'
    BY <1>6, <2>2 DEF CommitTx, AccountTypeOK
  <2> QED
    BY <2>1, <2>3, <2>4, IdleType DEF Finish, AccountTypeOK
<1>7. ASSUME NEW r \in Calls, AbortTx(r) PROVE AccountTypeOK'
  BY <1>7, NextAttemptType DEF AbortTx, AccountTypeOK
<1>8. ASSUME NEW r \in Calls, SignInUpdate(r) PROVE AccountTypeOK'
  <2>1. call[r].found \in Accounts
    BY <1>8 DEF SignInUpdate, AccountTypeOK, Request, NoCall
  <2> QED
    BY <1>8, <2>1, IdleType DEF SignInUpdate, Finish, AccountTypeOK, UserRow
<1>9. ASSUME NEW r \in Calls, SignInCreate(r) PROVE AccountTypeOK'
  <2>1. call[r].person \in Persons
    BY <1>9 DEF SignInCreate, AccountTypeOK, Request, NoCall
  <2>2. NewUser(call[r].person) \in UserRow
    BY <2>1, NewUserType
  <2>3. users' \in [Accounts -> UserRow]
    BY <1>9, <2>2 DEF SignInCreate, AccountTypeOK
  <2> QED
    BY <1>9, <2>3, IdleType DEF SignInCreate, Finish, AccountTypeOK
<1>10. ASSUME NEW r \in Calls, CreateSavedView(r) PROVE AccountTypeOK'
  <2>1. call[r].user \in Accounts
    BY <1>10 DEF CreateSavedView, AccountTypeOK, Request, NoCall
  <2>2. views' \subseteq Accounts \X Nat /\ saved' \in Nat
    BY <1>10, <2>1 DEF CreateSavedView, AccountTypeOK
  <2> QED
    BY <1>10, <2>2, IdleType DEF CreateSavedView, Finish, AccountTypeOK
<1>11. CASE UNCHANGED accountVars
  BY <1>11 DEF accountVars, AccountTypeOK
<1>12. CASE AccountNext
  BY <1>1, <1>2, <1>3, <1>4, <1>5, <1>6, <1>7, <1>8, <1>9, <1>10, <1>12 DEF AccountNext, Step
<1> QED
  BY <1>11, <1>12

LEMMA InitType == AccountInit => AccountTypeOK
<1> SUFFICES ASSUME AccountInit PROVE AccountTypeOK
  OBVIOUS
<1>2. users \in [Accounts -> UserRow]
  BY FreshType, NewUserType DEF AccountInit
<1>3. call \in [Calls -> Request]
  BY IdleType DEF AccountInit
<1> QED
  BY <1>2, <1>3 DEF AccountInit, AccountTypeOK

(* Every variable of the account model keeps its type. *)
THEOREM AccountTypeCorrect == AccountSpec => []AccountTypeOK
BY InitType, TypeStep, PTL DEF AccountSpec

----------------------------------------------------------------------------
(* Somebody else is left when more than one administrator was counted. *)
LEMMA AnotherAdministrator ==
  ASSUME NEW admins \in SUBSET Accounts, NEW u \in Accounts, ~LastAdministrator(admins)
  PROVE  \E w \in admins : w # u
<1> SUFFICES ASSUME \A w \in admins : w = u PROVE FALSE
  OBVIOUS
<1>1. admins \subseteq {u}
  OBVIOUS
<1>2. IsFiniteSet({u}) /\ Cardinality({u}) = 1
  BY FS_Singleton
<1>3. Cardinality(admins) \in Nat /\ Cardinality(admins) <= 1
  BY <1>1, <1>2, FS_Subset, FS_CardinalityType
<1> QED
  BY <1>3 DEF LastAdministrator

(* A committing transaction leaves an administrator: the one it removes was  *)
(* counted beside another, who is still there.                               *)
LEMMA CommitKeepsAdministrator ==
  ASSUME AccountTypeOK, ActiveAdministrators # {}, NEW r \in Calls, CommitTx(r)
  PROVE  ActiveAdministrators' # {}
<1> DEFINE v == call[r].verb
           row == call[r].row
           admins == call[r].admins
<1>1. /\ v \in Verb /\ v.user \in Accounts /\ row \in UserRow /\ admins \in SUBSET Accounts
      /\ v.kind \in {"role", "active", "scrub"}
  BY OpenFields DEF CommitTx, Verb
<1>2. CASE UNCHANGED users
  BY <1>2 DEF ActiveAdministrators
<1>3. CASE /\ ~NothingToCommit(row, admins, v) /\ Serializable(row, admins, v)
           /\ users' = [users EXCEPT ![v.user] = Effect(users[v.user], v)]
  <2>1. \A w \in ActiveAdministrators : w # v.user => w \in ActiveAdministrators'
    BY <1>1, <1>3 DEF ActiveAdministrators, AccountTypeOK
  <2>2. CASE Guarded(row, v)
    <3>1. ~LastAdministrator(admins) /\ admins \subseteq ActiveAdministrators
      BY <1>3, <2>2 DEF NothingToCommit, Serializable
    <3>2. PICK w \in admins : w # v.user
      BY <1>1, <3>1, AnotherAdministrator
    <3> QED
      BY <2>1, <3>1, <3>2
  <2>3. CASE ~Guarded(row, v)
    <3>1. PICK w \in ActiveAdministrators : TRUE
      OBVIOUS
    <3>2. w # v.user
      BY <1>1, <1>3, <2>3, <3>1
      DEF Guarded, NothingToCommit, AlreadyDone, Serializable, ActiveAdministrators, Verb, UserRow
    <3> QED
      BY <2>1, <3>1, <3>2
  <2> QED
    BY <2>2, <2>3
<1> QED
  BY <1>2, <1>3 DEF CommitTx

LEMMA AdministratorStep ==
  AccountTypeOK /\ [AccountNext]_accountVars /\ ActiveAdministrators # {} => ActiveAdministrators' # {}
<1> SUFFICES ASSUME AccountTypeOK, ActiveAdministrators # {}, [AccountNext]_accountVars
             PROVE  ActiveAdministrators' # {}
  OBVIOUS
<1>1. ASSUME NEW u \in Accounts, CreateUser(u) PROVE ActiveAdministrators' # {}
  BY <1>1 DEF CreateUser, AccountTypeOK, ActiveAdministrators
<1>2. ASSUME NEW r \in Calls, SignInUpdate(r) PROVE ActiveAdministrators' # {}
  <2>1. call[r].found \in Accounts
    BY <1>2 DEF SignInUpdate, AccountTypeOK, Request, NoCall
  <2>2. \A u \in Accounts : /\ users'[u].exists = users[u].exists
                         /\ users'[u].role = users[u].role
                         /\ users'[u].active = users[u].active
    BY <1>2, <2>1 DEF SignInUpdate, AccountTypeOK, UserRow
  <2> QED
    BY <2>2 DEF ActiveAdministrators
<1>3. ASSUME NEW r \in Calls, SignInCreate(r) PROVE ActiveAdministrators' # {}
  BY <1>3 DEF SignInCreate, AccountTypeOK, ActiveAdministrators
<1>4. CASE UNCHANGED users
  BY <1>4 DEF ActiveAdministrators
<1>5. CASE UNCHANGED accountVars
  BY <1>4, <1>5 DEF accountVars
<1>6. CASE AccountNext
  BY <1>1, <1>2, <1>3, <1>4, <1>6, CommitKeepsAdministrator
  DEF AccountNext, Step, AskFor, BeginSignIn, BeginSaveView, OpenTx, AbortTx, CreateSavedView
<1> QED
  BY <1>5, <1>6

(* refuseIfLastActiveAdministrator under writeSerializable: for any number   *)
(* of accounts and of racing requests, the last active administrator stays.  *)
THEOREM AdministratorAlwaysRemains == AccountSpec => AdministratorRemains
<1>1. AccountTypeOK /\ [AccountNext]_accountVars
      => [ActiveAdministrators # {} => ActiveAdministrators' # {}]_accountVars
  BY AdministratorStep
<1> QED
  BY <1>1, InitType, TypeStep, PTL DEF AccountSpec, AdministratorRemains

----------------------------------------------------------------------------
(* An erased account nobody was using when it was erased: nothing resolves   *)
(* to it any more.                                                           *)
Gone(u) ==
  /\ users[u].exists /\ users[u].subject = None /\ ~users[u].personal
  /\ ViewsOf(u) = {}
  /\ Pending(u) = {}

(* A change is only ever asked for of an account that exists. *)
VerbsName == \A r \in Calls :
  call[r].op \in {"queued", "open"} => users[call[r].verb.user].exists

ErasureInv == VerbsName /\ \A u \in erased \ raced : Gone(u)

LEMMA ErasureStep == AccountTypeOK /\ ErasureInv /\ [AccountNext]_accountVars => ErasureInv'
<1> SUFFICES ASSUME AccountTypeOK, ErasureInv, [AccountNext]_accountVars PROVE ErasureInv'
  OBVIOUS
<1>a. erased \subseteq Accounts /\ users \in [Accounts -> UserRow]
  BY DEF AccountTypeOK
<1>1. ASSUME NEW u \in Accounts, CreateUser(u) PROVE ErasureInv'
  <2>1. VerbsName'
    BY <1>1 DEF CreateUser, ErasureInv, VerbsName, AccountTypeOK, Request, Verb, NoCall, UserRow, NewUser, Fresh
  <2>2. \A w \in erased \ raced : w # u
    BY <1>1 DEF CreateUser, ErasureInv, Gone
  <2> QED
    BY <1>1, <1>a, <2>1, <2>2 DEF CreateUser, ErasureInv, Gone, ViewsOf, Pending
<1>2. ASSUME NEW r \in Calls, NEW v \in Verbs, AskFor(r, v) PROVE ErasureInv'
  <2>1. VerbsName'
    BY <1>2 DEF AskFor, ErasureInv, VerbsName, AccountTypeOK
  <2> QED
    BY <1>2, <2>1 DEF AskFor, ErasureInv, Gone, ViewsOf, Pending, AccountTypeOK
<1>3. ASSUME NEW r \in Calls, NEW p \in Persons, BeginSignIn(r, p) PROVE ErasureInv'
  <2>1. PICK found \in Accounts \cup {None} :
          /\ found # None => users[found].subject = p
          /\ call' = [call EXCEPT ![r] = [op |-> "signin", person |-> p, found |-> found]]
    BY <1>3, UsersAssumption DEF BeginSignIn
  <2>2. VerbsName'
    BY <1>3, <2>1 DEF BeginSignIn, ErasureInv, VerbsName, AccountTypeOK
  <2>3. \A w \in erased \ raced : w # found
    BY <1>a, <2>1, PersonsAssumption, UsersAssumption DEF ErasureInv, Gone
  <2> QED
    BY <1>3, <2>1, <2>2, <2>3 DEF BeginSignIn, ErasureInv, Gone, ViewsOf, Pending, AccountTypeOK
<1>4. ASSUME NEW r \in Calls, NEW u \in Accounts, BeginSaveView(r, u) PROVE ErasureInv'
  <2>1. VerbsName'
    BY <1>4 DEF BeginSaveView, ErasureInv, VerbsName, AccountTypeOK
  <2>2. \A w \in erased \ raced : w # u
    BY <1>4 DEF BeginSaveView, ErasureInv, Gone
  <2> QED
    BY <1>4, <2>1, <2>2 DEF BeginSaveView, ErasureInv, Gone, ViewsOf, Pending, AccountTypeOK
<1>5. ASSUME NEW r \in Calls, OpenTx(r) PROVE ErasureInv'
  <2>1. VerbsName'
    BY <1>5 DEF OpenTx, ErasureInv, VerbsName, AccountTypeOK
  <2> QED
    BY <1>5, <2>1 DEF OpenTx, ErasureInv, Gone, ViewsOf, Pending, AccountTypeOK
<1>6. ASSUME NEW r \in Calls, CommitTx(r) PROVE ErasureInv'
  <2> DEFINE v == call[r].verb
  <2>1. call[r].op = "open" /\ Finish(r) /\ v \in Verb /\ v.user \in Accounts
    BY <1>6, OpenFields DEF CommitTx
  <2>2. \A w \in Accounts : Pending(w)' \subseteq Pending(w)
    BY <2>1 DEF Finish, Pending, AccountTypeOK, NoCall
  <2>3. /\ users[v.user].exists
        /\ v.kind \in {"role", "active", "scrub"}
        /\ users[v.user] \in UserRow
    BY <2>1, <1>a DEF ErasureInv, VerbsName, Verb
  <2>4. CASE UNCHANGED <<users, views, saved, erased, raced>>
    <3>1. VerbsName'
      BY <2>1, <2>4 DEF ErasureInv, VerbsName, Finish, AccountTypeOK, NoCall
    <3> QED
      BY <2>2, <2>4, <3>1, <1>a DEF ErasureInv, Gone, ViewsOf
  <2>5. CASE /\ users' = [users EXCEPT ![v.user] = Effect(users[v.user], v)]
             /\ IF v.kind = "scrub"
                  THEN /\ views' = views \ call[r].seen
                       /\ erased' = erased \cup {v.user}
                       /\ raced' = IF Overlapped(v.user, call[r].seen)
                                     THEN raced \cup {v.user} ELSE raced
                       /\ UNCHANGED saved
                  ELSE UNCHANGED <<views, saved, erased, raced>>
    <3> DEFINE row == users[v.user]
               new == Effect(users[v.user], v)
    <3>1. /\ new.exists
          /\ v.kind = "scrub" => new.subject = None /\ ~new.personal
          /\ v.kind # "scrub" => new.subject = row.subject /\ new.personal = row.personal
      <4>1. CASE v.kind = "role"
        BY <4>1, <2>3 DEF Effect, UserRow
      <4>2. CASE v.kind = "active"
        BY <4>2, <2>3 DEF Effect, UserRow
      <4>3. CASE v.kind = "scrub"
        BY <4>3, <2>3 DEF Effect, UserRow
      <4> QED
        BY <2>3, <4>1, <4>2, <4>3
    <3>2. \A w \in Accounts : users'[w] = IF w = v.user THEN new ELSE users[w]
      BY <2>5, <2>1, <1>a
    <3>3. VerbsName'
      <4>1. \A w \in Accounts : users[w].exists => users'[w].exists
        BY <3>1, <3>2
      <4> QED
        BY <4>1, <2>1 DEF ErasureInv, VerbsName, Finish, AccountTypeOK, NoCall, Request, Verb
    <3>4. ASSUME NEW u \in erased' \ raced' PROVE Gone(u)'
      <4>0. u \in Accounts
        BY <2>5, <1>a, <2>1
      <4>1. CASE u = v.user /\ v.kind = "scrub"
        <5>1. Pending(u) = {} /\ ViewsOf(u) \ call[r].seen = {}
          BY <4>1, <2>5, <3>4 DEF Overlapped
        <5>2. ViewsOf(u)' = {}
          BY <4>1, <5>1, <2>5 DEF ViewsOf
        <5> QED
          BY <4>0, <4>1, <5>1, <5>2, <2>2, <3>1, <3>2 DEF Gone
      <4>2. CASE ~(u = v.user /\ v.kind = "scrub")
        <5>1. u \in erased \ raced
          BY <4>2, <2>5, <3>4
        <5>2. ViewsOf(u)' = {}
          BY <5>1, <2>5 DEF ViewsOf, ErasureInv, Gone
        <5> QED
          BY <4>0, <4>2, <5>1, <5>2, <2>2, <3>1, <3>2 DEF ErasureInv, Gone
      <4> QED
        BY <4>1, <4>2
    <3> QED
      BY <3>3, <3>4 DEF ErasureInv
  <2> QED
    BY <1>6, <2>4, <2>5 DEF CommitTx
<1>7. ASSUME NEW r \in Calls, AbortTx(r) PROVE ErasureInv'
  <2>1. VerbsName'
    BY <1>7 DEF AbortTx, NextAttempt, Finish, NoCall, ErasureInv, VerbsName, AccountTypeOK
  <2> QED
    BY <1>7, <2>1 DEF AbortTx, NextAttempt, Finish, NoCall, ErasureInv, Gone, ViewsOf, Pending, AccountTypeOK
<1>8. ASSUME NEW r \in Calls, SignInUpdate(r) PROVE ErasureInv'
  <2>1. call[r].found \in Accounts
    BY <1>8 DEF SignInUpdate, AccountTypeOK, Request, NoCall
  <2>2. VerbsName'
    BY <1>8, <2>1, <1>a DEF SignInUpdate, Finish, NoCall, ErasureInv, VerbsName, AccountTypeOK, UserRow
  <2>3. \A w \in erased \ raced : w # call[r].found
    BY <1>8 DEF SignInUpdate, ErasureInv, Gone, ViewsOf, Pending
  <2> QED
    BY <1>8, <1>a, <2>1, <2>2, <2>3 DEF SignInUpdate, Finish, NoCall, ErasureInv, Gone, ViewsOf, Pending, AccountTypeOK
<1>9. ASSUME NEW r \in Calls, SignInCreate(r) PROVE ErasureInv'
  <2>1. \A u \in Accounts : users[u].exists => users'[u] = users[u]
    BY <1>9, <1>a DEF SignInCreate
  <2>2. VerbsName'
    BY <1>9, <2>1, <1>a DEF SignInCreate, Finish, NoCall, ErasureInv, VerbsName, AccountTypeOK, Request, Verb
  <2> QED
    BY <1>9, <1>a, <2>1, <2>2 DEF SignInCreate, Finish, NoCall, ErasureInv, Gone, ViewsOf, Pending, AccountTypeOK
<1>10. ASSUME NEW r \in Calls, CreateSavedView(r) PROVE ErasureInv'
  <2>1. VerbsName'
    BY <1>10 DEF CreateSavedView, Finish, NoCall, ErasureInv, VerbsName, AccountTypeOK
  <2>2. \A w \in erased \ raced : w # call[r].user
    BY <1>10 DEF CreateSavedView, ErasureInv, Gone, ViewsOf, Pending
  <2> QED
    BY <1>10, <2>1, <2>2 DEF CreateSavedView, Finish, NoCall, ErasureInv, Gone, ViewsOf, Pending, AccountTypeOK
<1>11. CASE UNCHANGED accountVars
  BY <1>11 DEF accountVars, ErasureInv, VerbsName, Gone, ViewsOf, Pending
<1>12. CASE AccountNext
  BY <1>1, <1>2, <1>3, <1>4, <1>5, <1>6, <1>7, <1>8, <1>9, <1>10, <1>12 DEF AccountNext, Step
<1> QED
  BY <1>11, <1>12

(* ScrubUser: a person erased while no request of their own overlapped the   *)
(* transaction is never written back and owns no view, whatever else is      *)
(* under way.                                                                *)
THEOREM ErasureOutlives == AccountSpec => []ErasureOutlivesLaterRequests
<1>1. AccountInit => ErasureInv
  BY DEF AccountInit, ErasureInv, VerbsName, NoCall
<1>2. ErasureInv => ErasureOutlivesLaterRequests
  BY DEF ErasureInv, Gone, ErasureOutlivesLaterRequests
<1> QED
  BY <1>1, <1>2, InitType, TypeStep, ErasureStep, PTL DEF AccountSpec
=============================================================================
