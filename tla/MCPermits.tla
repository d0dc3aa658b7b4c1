----------------------------- MODULE MCPermits -----------------------------
(***************************************************************************)
(* TLC instance of who may do what: accounts (UserAdmin) and the scope of  *)
(* their permits (Permits).  The two share no state, so a behaviour is one *)
(* of either, with the other at rest.                                      *)
(***************************************************************************)
EXTENDS Permits, UserAdmin, TLC

CONSTANTS admin, ann, ben, front, back, db, line, shop

(* An administrator and two project owners, two projects, an asset and a    *)
(* circuit that exist, and a service that may be created.                   *)
MCUsers == {admin, ann, ben}
MCProjects == {front, back}
MCKind == (db :> "asset") @@ (line :> "circuit") @@ (shop :> "service")
MCGiven == {db, line}
MCRole == (admin :> "administrator") @@ (ann :> "project_owner") @@ (ben :> "observer")
MCAssigned == {<<ann, front>>}
MCOwned == {<<front, db>>}

(* The calls of either are the same two requests. *)
Symmetry == Permutations(Requests) \cup Permutations(Accounts)

VARIABLE part

PeopleInit == part \in {"accounts", "scope"} /\ AccountInit /\ Init

PeopleNext ==
  /\ UNCHANGED part
  /\ \/ part = "accounts" /\ AccountNext /\ UNCHANGED vars
     \/ part = "scope" /\ Next /\ UNCHANGED accountVars

PeopleSpec == PeopleInit /\ [][PeopleNext]_<<part, accountVars, vars>>
=============================================================================
