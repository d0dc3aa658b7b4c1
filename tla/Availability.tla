---------------------------- MODULE Availability ----------------------------
(***************************************************************************)
(* Statuses and the availability policy of internal/domain/service.go,     *)
(* which a service applies to its instances and a forwarder group to its   *)
(* members.  Statuses are their ranks; an instance is a record with an id, *)
(* a role and a shard (InstanceHealth), and those that are alive are a     *)
(* subset of those that are configured.                                    *)
(***************************************************************************)
EXTENDS Integers, FiniteSets

CONSTANTS Services,
          None  \* an empty column, nobody

OK == 0
Degraded == 1
Down == 2
Statuses == OK..Down

(* Status.Worse, Status.Better *)
Worse(a, b) == IF b > a THEN b ELSE a
Better(a, b) == IF b < a THEN b ELSE a

Policy ==
  [kind : {"standalone", "quorum", "active_active", "active_passive", "sharded"},
   min : Nat, auto : BOOLEAN]

(* AvailabilityPolicy.Evaluate when some instances are left and some are not *)
PartialLoss(p, all, alive) ==
  CASE p.kind = "standalone"    -> OK
    [] p.kind = "quorum"        -> IF Cardinality(alive) < Cardinality(all) \div 2 + 1 THEN Down ELSE OK
    [] p.kind = "active_active" -> IF Cardinality(alive) < (IF p.min > 0 THEN p.min ELSE 1) THEN Degraded ELSE OK
    [] p.kind = "active_passive" ->
         IF \A i \in all : i.role # "primary" THEN Degraded
         ELSE IF \E i \in alive : i.role = "primary" THEN OK
         ELSE IF \A i \in alive : i.role # "standby" THEN Down
         ELSE IF p.auto THEN OK ELSE Degraded
    [] p.kind = "sharded" ->
         IF \E i \in all : \A k \in alive : k.shard # i.shard THEN Degraded ELSE OK

(* AvailabilityPolicy.Evaluate *)
Evaluate(p, all, alive) ==
  IF alive = all THEN OK
  ELSE IF alive = {} THEN Down
  ELSE PartialLoss(p, all, alive)
=============================================================================
