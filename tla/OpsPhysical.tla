---------------------------- MODULE OpsPhysical ----------------------------
(***************************************************************************)
(* Catalogue: the write operations of internal/store on environments,      *)
(* clusters, cable bundles, hardware, device-type components and power, as *)
(* StoreOp records.                                                        *)
(***************************************************************************)
EXTENDS StoreOp

(* A withdrawal by id alone whose diff is computed from the row read before, *)
(* with no early return for a row that is already withdrawn.                 *)
RetireAnyway == [BlindRetire EXCEPT !.skip = {}, !.log = "diff"]

(* assets.go: the environments of an asset are the set.  The tree is         *)
(* Containment's matter, the topology that goes with an asset Cabling's.     *)
UpdateAsset ==
  [Update EXCEPT !.from = {"body", "life", "set"},
    !.sets = {"body", "life", "set"}, !.index = TRUE]
RetireAsset == [BlindRetire EXCEPT !.tx = "serializable"]

(* assets.go: environments *)
CreateEnvironment == [Create EXCEPT !.index = TRUE]
(* CreateEnvironment for the code of a retired environment: the row comes     *)
(* back with the new columns, and the early return skips the search document. *)
reactivateRetiredEnvironment ==
  [Restore EXCEPT !.before = "inside", !.gate = "inside", !.from = {"life", "body"},
    !.sets = {"life", "body"}, !.log = "diff"]
UpdateEnvironment == [Update EXCEPT !.index = TRUE]
RetireEnvironment == [Retire EXCEPT !.index = TRUE]

(* clusters.go *)
CreateCluster == [Create EXCEPT !.index = TRUE]
UpdateCluster == [Update EXCEPT !.index = TRUE]
RetireCluster == [HeldRetire EXCEPT !.holders = "members"]
SetClusterMembers == Assign

(* cable_bundles.go *)
CreateBundle == [Create EXCEPT !.index = TRUE]
UpdateBundle == [Update EXCEPT !.index = TRUE]
RetireBundle == Retire
SetBundleMembers == [Assign EXCEPT !.tx = "serializable", !.refuse = {"retired"}]

(* hardware.go *)
CreateManufacturer == Create
UpdateManufacturer ==
  [Update EXCEPT !.from = {"body", "life"}, !.sets = {"body", "life"}]
RetireManufacturer == [RetireAnyway EXCEPT !.held = "outside"]
CreateDeviceType == [Create EXCEPT !.index = TRUE, !.needs = "inside"]
UpdateDeviceType ==
  [Update EXCEPT !.from = {"body", "life"}, !.sets = {"body", "life"},
    !.index = TRUE]
RetireDeviceType == RetireAnyway

(* device_type_components.go *)
CreateDeviceTypeComponents == Create
UpdateDeviceTypeComponent == Update
RetireDeviceTypeComponent == [BlindRetire EXCEPT !.log = "diff"]

(* power.go, power_sources.go *)
CreatePowerSource == Create
UpdatePowerSource == [Update EXCEPT !.sets = {"body", "life"}]
RetirePowerSource == [RetireAnyway EXCEPT !.held = "outside"]
CreatePowerPanel == [Create EXCEPT !.needs = "inside"]
UpdatePowerPanel == [Update EXCEPT !.needs = "inside", !.sets = {"body", "life"}]
retirePanelRow == RetireAnyway
RetirePowerPanel == [retirePanelRow EXCEPT !.held = "outside"]
CreatePowerFeed == [Create EXCEPT !.needs = "inside"]
UpdatePowerFeed == [Update EXCEPT !.sets = {"body", "life"}]
retireFeedRow == RetireAnyway
RetirePowerFeed == [retireFeedRow EXCEPT !.held = "outside"]
CreatePowerInput == [Create EXCEPT !.needs = "inside"]
UpdatePowerInput == [Update EXCEPT !.needs = "inside", !.sets = {"body", "life"}]
retireInputRow == RetireAnyway
=============================================================================
