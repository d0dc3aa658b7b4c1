--------------------------- MODULE OpsGovernance ---------------------------
(***************************************************************************)
(* Catalogue: the write operations of internal/store on certificates,      *)
(* identities, tags, teams, views, journal, vocabularies, custom fields,   *)
(* projects, costs, ownership and health overrides, as StoreOp records.    *)
(* An operation of the same name in the source is the one described.       *)
(***************************************************************************)
EXTENDS StoreOp

(* certificates.go: SANs are the set *)
CreateCertificate == [Create EXCEPT !.from = Columns \ {"own"}, !.index = TRUE]
UpdateCertificate ==
  [Update EXCEPT !.from = {"body", "life", "set"},
    !.sets = {"body", "life", "set"}, !.index = TRUE]
RetireCertificate == BlindRetire
deployCertificate ==
  [Upsert EXCEPT !.skip = {"same"}, !.gate = "inside", !.bumps = FALSE,
    !.log = "fixed"]
undeployCertificate ==
  [BlindRetire EXCEPT !.before = "none", !.skip = {}, !.guard = "live",
    !.bumps = FALSE]

(* identities.go: last_rotated is the column of its own *)
CreateIdentity == [Create EXCEPT !.index = TRUE]
UpdateIdentity == [Update EXCEPT !.index = TRUE]
RetireIdentity == Retire
RecordIdentityRotation ==
  [Update EXCEPT !.guard = "none", !.refuse = {"retired"}, !.skip = {"same"},
    !.from = {"own"}, !.sets = {"own"}]
(* The list is read from the reader pool, the documents written later. *)
ReindexIdentities ==
  [Update EXCEPT !.guard = "none", !.from = {}, !.sets = {}, !.bumps = FALSE,
    !.index = TRUE, !.log = "none"]

(* tags.go *)
CreateTag == Create
UpdateTag == Update
RetireTag == [Retire EXCEPT !.log = "fixed"]
RestoreTag == Restore

(* entitytags.go: the set of tags of an entity; the version of the form is   *)
(* checked by the UPDATE of the entity.                                      *)
setEntityTags ==
  [Assign EXCEPT !.guard = "form", !.before = "inside", !.needs = "inside"]

(* bulk_tags.go: the tags of an entity are read, and set with one more *)
applyTagToOne == [setEntityTags EXCEPT !.delta = TRUE]

(* teams.go *)
CreateTeam == [Create EXCEPT !.index = TRUE]
UpdateTeam ==
  [Update EXCEPT !.from = {"body", "life"}, !.sets = {"body", "life"},
    !.index = TRUE]
RetireTeam == [BlindRetire EXCEPT !.index = TRUE]

(* savedviews.go, journal.go *)
CreateSavedView == Create
UpdateSavedView == Update
RetireSavedView == [BlindRetire EXCEPT !.log = "diff"]
CreateJournalEntry == Create
UpdateJournalEntry == [Update EXCEPT !.before = "inside"]
RetireJournalEntry ==
  [BlindRetire EXCEPT !.before = "inside", !.gate = "inside", !.log = "diff"]

(* vocabulary.go, inflation.go *)
UpsertVocabularyTerm == [Upsert EXCEPT !.bumps = FALSE]
SetInflationRate == Upsert

(* customfields.go: the options of a field are the set *)
CreateCustomField == [Create EXCEPT !.needs = "inside"]
(* An edit that keeps the owning team (a new owner must be active). *)
UpdateCustomField == [Update EXCEPT !.tx = "serializable", !.sticky = TRUE]
RetireCustomField == [Retire EXCEPT !.log = "fixed"]
RestoreCustomField == Restore
SetCustomFieldOptions == [Assign EXCEPT !.guard = "form"]

(* customvalues.go: the values of an entity are the set.  A field that the   *)
(* submission does not name is left alone, one that is blank is cleared.     *)
SetCustomValues ==
  [Assign EXCEPT !.tx = "serializable", !.guard = "form", !.before = "inside", !.partial = TRUE]

(* occupancy.go, storage.go, costs.go, reprice.go: the last day of a price    *)
(* (valid_until) is the column of its own.                                   *)
SetOccupants ==
  [Assign EXCEPT !.before = "inside", !.refuse = {"retired"}, !.bumps = FALSE]
(* One claim on a pool is the column of its own. *)
SetStorageClaim ==
  [SetOccupants EXCEPT !.act = "update", !.needs = "outside", !.from = {"own"},
    !.sets = {"own"}]
addCost == Create
updateCost ==
  [Update EXCEPT !.refuse = {"retired"}, !.from = {"body", "own"},
    !.sets = {"body", "own", "life"}]
retireCost == BlindRetire
SetCostConsumers == [Assign EXCEPT !.before = "inside", !.bumps = FALSE]
reprice ==
  [Update EXCEPT !.guard = "read", !.refuse = {"retired"}, !.from = {"own"},
    !.sets = {"own"}]

(* projects.go: releaseLinks retires the links in the same transaction *)
CreateProject == [Create EXCEPT !.index = TRUE]
UpdateProject ==
  [Update EXCEPT !.before = "inside", !.from = {"body", "own", "life"},
    !.sets = {"body", "own", "life"}, !.index = TRUE]
RetireProject ==
  [BlindRetire EXCEPT !.before = "inside", !.gate = "inside", !.cascade = TRUE,
    !.log = "diff"]
LinkProjectAsset == [Upsert EXCEPT !.tx = "serializable", !.bumps = FALSE]
LinkProjectService == [Upsert EXCEPT !.tx = "serializable", !.bumps = FALSE]
LinkProjectCircuit == [Upsert EXCEPT !.tx = "serializable", !.bumps = FALSE]
retireLink ==
  [BlindRetire EXCEPT !.before = "inside", !.gate = "inside", !.bumps = FALSE]

(* user_projects.go *)
AssignProject ==
  [Create EXCEPT !.exists = "revive", !.before = "inside", !.gate = "inside",
    !.skip = {"active"}]
ReleaseProject == [BlindRetire EXCEPT !.before = "inside", !.gate = "inside"]

(* team_reassignment.go, bulk_ownership.go: team_id is the column of its own *)
reassignEntity ==
  [Update EXCEPT !.guard = "same", !.skip = {"same"}, !.from = {"own"},
    !.sets = {"own"}, !.log = "fixed"]
assignOneEntity == reassignEntity

(* overrides.go: one active override per entity; one that ran out makes way,  *)
(* as if cleared.                                                             *)
CreateHealthOverride ==
  [Create EXCEPT !.tx = "serializable", !.exists = "revive", !.before = "inside",
    !.gate = "inside", !.refuse = {"active"}, !.bumps = FALSE]
saveOverride ==
  [Update EXCEPT !.before = "inside", !.guard = "none",
    !.sets = {"body", "life"}, !.bumps = FALSE]
AmendHealthOverride ==
  [saveOverride EXCEPT !.gate = "inside", !.refuse = {"retired"}]
ClearHealthOverride ==
  [saveOverride EXCEPT !.act = "retire", !.gate = "inside",
    !.refuse = {"retired"}, !.from = {"life"}]
=============================================================================
