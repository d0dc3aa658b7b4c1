----------------------------- MODULE OpsNetwork -----------------------------
(***************************************************************************)
(* Catalogue: the write operations of internal/store on addresses, VLANs,  *)
(* wireless LANs, first-hop redundancy groups, L2VPNs, registries,         *)
(* circuits and the reachability model, as StoreOp records.                *)
(***************************************************************************)
EXTENDS StoreOp

(* ipranges.go *)
CreateIPRange == [Create EXCEPT !.index = TRUE]
UpdateIPRange == [Update EXCEPT !.index = TRUE]
RetireIPRange == Retire

(* l2vpn.go *)
CreateL2VPN == [Create EXCEPT !.index = TRUE]
UpdateL2VPN == [Update EXCEPT !.index = TRUE]
RetireL2VPN == HeldRetire
CreateL2VPNTermination == Create
RetireL2VPNTermination == Retire

(* vlans.go: a prefix on the VLAN holds it whatever its lifecycle *)
CreateVLAN == [Create EXCEPT !.index = TRUE]
UpdateVLAN == [Update EXCEPT !.index = TRUE]
RetireVLAN == [HeldRetire EXCEPT !.holders = "any"]
CreateVLANGroup == Create
UpdateVLANGroup == Update
RetireVLANGroup == HeldRetire
SetInterfaceVLANs == Assign

(* wireless.go *)
CreateWirelessLAN == [Create EXCEPT !.index = TRUE]
UpdateWirelessLAN == [Update EXCEPT !.index = TRUE]
RetireWirelessLAN == [HeldRetire EXCEPT !.holders = "taken"]
SetInterfaceWLANs == Assign

(* fhrp.go: fhrp_group_id is the address's column of its own.  AssignVIP     *)
(* releases the group's earlier address the same way.                        *)
CreateFHRPGroup == [Create EXCEPT !.index = TRUE]
UpdateFHRPGroup == [Update EXCEPT !.index = TRUE]
RetireFHRPGroup == [HeldRetire EXCEPT !.holders = "refers"]
SetFHRPMembers == Assign
AssignVIP ==
  [Update EXCEPT !.guard = "read", !.refuse = {"retired"}, !.skip = {"same"},
    !.from = {"own"}, !.sets = {"own"}]

(* registry.go *)
CreateAggregate == [Create EXCEPT !.index = TRUE]
UpdateAggregate == [Update EXCEPT !.index = TRUE]
RetireAggregate == Retire
CreateRIR == Create
UpdateRIR == Update
RetireRIR == HeldRetire
CreateASN == [Create EXCEPT !.index = TRUE]
UpdateASN == [Update EXCEPT !.index = TRUE]
RetireASN == Retire

(* circuits.go: the circuits of a provider are counted with the row *)
CreateCircuit == [Create EXCEPT !.index = TRUE]
CreateCircuitInProject == CreateCircuit
UpdateCircuit == [Update EXCEPT !.index = TRUE]
RetireCircuit == Retire
CreateProvider == Create
UpdateProvider == Update
RetireProvider == [Retire EXCEPT !.held = "outside"]
CreateCircuitTermination == Create
RetireCircuitTermination == Retire

(* network.go: ports and cables; whether a port is taken is Cabling's matter. *)
(* The withdrawal of a cable does not move row_version.                       *)
CreateInterface ==
  [Create EXCEPT !.exists = "revive", !.refuse = {"active"}, !.before = "inside",
    !.guard = "read", !.log = "diff"]
UpdateInterface == Update
RetireInterface == [Retire EXCEPT !.held = "inside"]
CreateLink == [Create EXCEPT !.tx = "serializable", !.needs = "inside"]
UpdateLink == Update
RetireLink == [BlindRetire EXCEPT !.bumps = FALSE]

(* network.go: addresses and prefixes *)
CreateIPAddress == Create
UpdateIPAddress == Update
RetireIPAddress == [Retire EXCEPT !.refuse = {"own"}, !.held = "inside"]
CreatePrefix == [Create EXCEPT !.index = TRUE, !.needs = "inside"]
(* The same INSERT, for the VLAN it names: nothing asks whether that is live. *)
CreatePrefixOnVLAN == [CreatePrefix EXCEPT !.needs = "no"]
UpdatePrefix == [Update EXCEPT !.index = TRUE]
RetirePrefix == [Retire EXCEPT !.held = "outside"]
(* The same withdrawal, for the reservations inside the network. *)
RetirePrefixOfRanges == [RetirePrefix EXCEPT !.held = "inside"]

(* reach.go: no statement of a withdrawal moves row_version *)
CreateNetGroup == Create
UpdateNetGroup == Update
RetireNetGroup ==
  [BlindRetire EXCEPT !.tx = "serializable", !.cascade = TRUE, !.bumps = FALSE]
AddNetGroupMember == [Upsert EXCEPT !.bumps = FALSE]
RetireNetGroupMember ==
  [BlindRetire EXCEPT !.before = "none", !.skip = {}, !.guard = "live",
    !.bumps = FALSE]
CreateNetUplink == [Create EXCEPT !.tx = "serializable"]
RetireNetUplink == [BlindRetire EXCEPT !.bumps = FALSE]
CreateNetAttachment == [Create EXCEPT !.tx = "serializable"]
RetireNetAttachment == [BlindRetire EXCEPT !.bumps = FALSE]
CreateNetAnchor == Create
UpdateNetAnchor == [Update EXCEPT !.needs = "inside"]
RetireNetAnchor == [BlindRetire EXCEPT !.bumps = FALSE]
=============================================================================
