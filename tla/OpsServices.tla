---------------------------- MODULE OpsServices ----------------------------
(***************************************************************************)
(* Catalogue: the write operations of internal/store on services, their    *)
(* instances and runtimes, endpoints, backend pools, routes and            *)
(* dependencies, as StoreOp records.                                       *)
(***************************************************************************)
EXTENDS StoreOp

(* services.go: team_id is the column of its own *)
CreateService == [Create EXCEPT !.from = {"life", "body", "own"}, !.index = TRUE]
CreateServiceInProject == CreateService
UpdateService ==
  [Update EXCEPT !.from = {"body", "own", "life"},
    !.sets = {"body", "own", "life"}, !.index = TRUE]
RetireService == BlindRetire
CreateInstance == Create
UpdateInstance == [Update EXCEPT !.refuse = {"retired"}, !.needs = "outside"]
RetireInstance == BlindRetire

(* The runtime of an instance: INSERT ... ON CONFLICT DO UPDATE, and a        *)
(* snapshot logged every time.                                               *)
SetRuntimeSystemd ==
  [Upsert EXCEPT !.log = "snapshot", !.before = "none", !.bumps = FALSE]
SetRuntimeContainer == SetRuntimeSystemd
SetRuntimeWindows == SetRuntimeSystemd
SetRuntimeK8s == SetRuntimeSystemd

(* deps.go *)
CreateEndpoint == Create
UpdateEndpoint ==
  [Update EXCEPT !.refuse = {"retired"}, !.needs = "outside",
    !.sets = {"body", "life"}]
RetireEndpoint == [HeldRetire EXCEPT !.sticky = FALSE, !.log = "fixed"]
CreateBackendPool == Create
AddBackendMember == Create
UpdateBackendPool == Update
RetireBackendPool == HeldRetire
CreateRoute == Create
UpdateRoute == Update
RetireRoute == HeldRetire

(* The provider must be live; data classes are the set, verified_by and      *)
(* verified_at the column of its own, written back from the row read before. *)
CreateDependency ==
  [Create EXCEPT !.from = {"life", "body", "set"}, !.tx = "serializable",
    !.needs = "inside"]
(* requireLiveProvider reads the lifecycle of the route's frontend endpoint, *)
(* never that of the route.                                                  *)
CreateDependencyOnRoute == [CreateDependency EXCEPT !.needs = "no"]
UpdateDependency ==
  [Update EXCEPT !.from = {"body", "set"}, !.sets = Columns,
    !.tx = "serializable", !.needs = "inside", !.sticky = TRUE]
RetireDependency == BlindRetire
(* Written by id alone; the diff is taken from the row read before. *)
VerifyDependency == [Update EXCEPT !.guard = "none", !.from = {"own"}, !.sets = {"own"}]
=============================================================================
