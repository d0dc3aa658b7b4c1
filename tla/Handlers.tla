------------------------------ MODULE Handlers ------------------------------
(***************************************************************************)
(* The POST handlers of internal/web/handlers: each is the operation of    *)
(* internal/store it calls, with what becomes of a refused form.  A        *)
(* handler without a version in its form, or that answers a refusal with   *)
(* an error page or a redirect, is its operation as it stands.  Pages says   *)
(* which page draws the form.                                              *)
(***************************************************************************)
EXTENDS OpsGovernance, OpsNetwork, OpsServices, OpsPhysical, Pages

(* identities.go: The page overlays what was typed on the identity read      *)
(* again.                                                                    *)
IdentityCreate == CreateIdentity
IdentityUpdate == Drawn(renderIdentityWith, Fresh(UpdateIdentity))
IdentityRetire == RetireIdentity
IdentityRecordRotation == RecordIdentityRotation

(* certificates.go: Only the names come back as they were typed. *)
CertificateCreate == CreateCertificate
CertificateUpdate ==
  Drawn(renderCertificate, [UpdateCertificate EXCEPT !.invalid = {"names"}])
CertificateRetire == RetireCertificate
CertificateDeployAsset == deployCertificate
CertificateUndeployAsset == undeployCertificate
CertificateDeployService == deployCertificate
CertificateUndeployService == undeployCertificate

(* tags.go *)
TagCreate == CreateTag
TagUpdate == Drawn(renderTagList, Kept(UpdateTag))
TagRetire == RetireTag
TagRestore == RestoreTag

(* entitytags.go *)
postEntityTags == Drawn(loadEntityTagsPanel, Kept(setEntityTags))
AssetTags == postEntityTags
ServiceTags == postEntityTags
ProjectTags == postEntityTags

(* bulk_tags.go: one entity at a time, with the version of the list *)
bulkApplyTag == Drawn(ServiceList, applyTagToOne)

(* customvalues.go *)
postCustomFields == Drawn(loadCustomFieldsPanel, Kept(SetCustomValues))
AssetCustomFields == postCustomFields
ServiceCustomFields == postCustomFields

(* customfields.go *)
CustomFieldCreate == CreateCustomField
CustomFieldUpdate == Drawn(renderCustomFieldList, Kept(UpdateCustomField))
CustomFieldRetire == RetireCustomField
CustomFieldRestore == RestoreCustomField
CustomFieldOptions == Drawn(enrichOptions, Kept(SetCustomFieldOptions))

(* teams.go *)
TeamCreate == CreateTeam
TeamUpdate == Drawn(renderTeam, Reloaded(UpdateTeam))
TeamRetire == RetireTeam

(* ownership_assign.go: Each entity named is claimed on its own. *)
OwnershipAssign == assignOneEntity

(* projects.go: A number or a field that does not parse: renderProject;      *)
(* what the store refuses: renderProjectWith and the project read again.     *)
ProjectCreate == CreateProject
ProjectUpdate ==
  Drawn(renderProjectWith, [UpdateProject EXCEPT !.stale = "fresh", !.invalid = {"reload", "fresh"}])
ProjectRetire == RetireProject
ProjectAssetLink == LinkProjectAsset
ProjectAssetRetire == retireLink
ProjectServiceLink == LinkProjectService
ProjectServiceRetire == retireLink
ProjectCircuitLink == LinkProjectCircuit
ProjectCircuitRetire == retireLink

(* costs.go: An invalid line is shown again as stored (afterCostEdit). *)
CostAddToAsset == addCost
CostEditOnAsset == Drawn(renderAssetDetail, Reloaded(updateCost))
CostRetireOnAsset == retireCost
CostRepriceOnAsset == reprice
CostConsumersOnAsset == SetCostConsumers
CostAddToService == addCost
CostEditOnService == Drawn(renderServiceDetail, Reloaded(updateCost))
CostRetireOnService == retireCost
CostRepriceOnService == reprice
CostAddToProject == addCost
CostEditOnProject == Drawn(renderProjectWith, Reloaded(updateCost))
CostRetireOnProject == retireCost
CostRepriceOnProject == reprice
CostAddToCircuit == addCost
CostEditOnCircuit == Drawn(renderCircuitDetail, Reloaded(updateCost))
CostRetireOnCircuit == retireCost
CostRepriceOnCircuit == reprice

(* users.go *)
UserAssignProject == AssignProject
UserReleaseProject == ReleaseProject

(* savedviews.go: The form carries no version: it is that of the view just   *)
(* read.                                                                     *)
SavedViewCreate == CreateSavedView
SavedViewRename == [UpdateSavedView EXCEPT !.guard = "read"]
SavedViewRetire == RetireSavedView

(* journal.go: A refusal is a message on the page of the entity. *)
JournalCreate == CreateJournalEntry
JournalUpdate == UpdateJournalEntry
JournalRetire == RetireJournalEntry

(* vocabularies.go *)
VocabularyUpsert == UpsertVocabularyTerm

(* inflation.go *)
InflationSet == SetInflationRate

(* health.go *)
HealthOverrideCreate == CreateHealthOverride
HealthOverrideAmend == AmendHealthOverride
HealthOverrideClear == ClearHealthOverride

(* network.go *)
InterfaceCreate == CreateInterface
InterfaceUpdate == Drawn(renderAssetDetail, Kept(UpdateInterface))
InterfaceRetire == RetireInterface
LinkCreate == CreateLink
LinkUpdate == Drawn(renderAssetDetail, Kept(UpdateLink))
LinkRetire == RetireLink
IPAddressUpdate == Drawn(renderAssetDetail, Kept(UpdateIPAddress))
IPAddressRetire == RetireIPAddress
PrefixUpdate == Drawn(renderPrefixes, Kept(UpdatePrefix))
PrefixRetire == RetirePrefix
IPAddressCreate == CreateIPAddress
PrefixCreate == CreatePrefix

(* ipranges.go *)
IPRangeCreate == CreateIPRange
IPRangeUpdate == Drawn(renderPrefixes, Kept(UpdateIPRange))
IPRangeRetire == RetireIPRange

(* vlans.go: AddPortToVLAN and RemovePortFromVLAN: the port's VLANs are      *)
(* read, and set again.                                                      *)
VLANCreate == CreateVLAN
VLANUpdate == Drawn(renderVLANs, Kept(UpdateVLAN))
VLANRetire == RetireVLAN
VLANGroupUpdate == Drawn(renderVLANs, Kept(UpdateVLANGroup))
VLANGroupRetire == RetireVLANGroup
VLANPortAdd == [SetInterfaceVLANs EXCEPT !.delta = TRUE]
VLANPortRemove == [SetInterfaceVLANs EXCEPT !.delta = TRUE]

(* wireless.go: AddRadioToWLAN and RemoveRadioFromWLAN, likewise. *)
WirelessCreate == CreateWirelessLAN
WirelessUpdate == Drawn(renderWireless, Kept(UpdateWirelessLAN))
WirelessRetire == RetireWirelessLAN
WirelessRadioAdd == [SetInterfaceWLANs EXCEPT !.delta = TRUE]
WirelessRadioRemove == [SetInterfaceWLANs EXCEPT !.delta = TRUE]

(* fhrp.go: The members are read, one is added, changed or left out, and     *)
(* the list is set.                                                          *)
FHRPCreate == CreateFHRPGroup
FHRPUpdate == Drawn(renderFHRPDetail, Kept(UpdateFHRPGroup))
FHRPRetire == RetireFHRPGroup
FHRPMemberAdd == [SetFHRPMembers EXCEPT !.delta = TRUE]
FHRPMemberUpdate == [SetFHRPMembers EXCEPT !.delta = TRUE]
FHRPMemberRemove == [SetFHRPMembers EXCEPT !.delta = TRUE]
FHRPVIPAssign == AssignVIP

(* l2vpn.go *)
L2VPNCreate == CreateL2VPN
L2VPNUpdate == Drawn(renderL2VPNs, Kept(UpdateL2VPN))
L2VPNRetire == RetireL2VPN
L2VPNAttach == CreateL2VPNTermination
L2VPNDetach == RetireL2VPNTermination

(* registry.go *)
AggregateCreate == CreateAggregate
AggregateUpdate == Drawn(renderRegistry, Kept(UpdateAggregate))
AggregateRetire == RetireAggregate
RIRUpdate == Drawn(renderRegistry, Kept(UpdateRIR))
RIRRetire == RetireRIR
ASNCreate == CreateASN
ASNUpdate == Drawn(renderRegistry, Kept(UpdateASN))
ASNRetire == RetireASN

(* circuits.go *)
CircuitCreateInProject == CreateCircuitInProject
CircuitCreate == CreateCircuit
CircuitUpdate == Drawn(renderCircuitDetail, Kept(UpdateCircuit))
CircuitRetire == RetireCircuit
CircuitLand == CreateCircuitTermination
CircuitLift == RetireCircuitTermination
ProviderCreate == CreateProvider
ProviderUpdate == Drawn(renderCircuits, Kept(UpdateProvider))
ProviderRetire == RetireProvider

(* reach.go *)
NetworkGroupCreate == CreateNetGroup
NetworkGroupMemberCreate == AddNetGroupMember
NetworkUplinkCreate == CreateNetUplink
NetworkAttachmentCreate == CreateNetAttachment
NetworkAnchorCreate == CreateNetAnchor

(* reach_repair.go *)
NetworkGroupUpdate == Drawn(renderNetGroupDetail, Kept(UpdateNetGroup))
NetworkGroupRetire == RetireNetGroup
NetworkGroupMemberRetire == RetireNetGroupMember
NetworkUplinkRetire == RetireNetUplink
NetworkAttachmentRetire == RetireNetAttachment
NetworkAnchorUpdate == Drawn(buildNetworkListPage, Kept(UpdateNetAnchor))
NetworkAnchorRetire == RetireNetAnchor

(* services.go: forms.go: f.RowVersion is that of the service read again. *)
ServiceCreate == CreateService
ServiceCreateInProject == CreateServiceInProject
ServiceUpdate == Drawn(newServiceEditForm, Fresh(UpdateService))
ServiceRetire == RetireService
InstanceCreate == CreateInstance
EndpointCreate == CreateEndpoint
InstanceRetire == RetireInstance
EndpointUpdate == Drawn(newEndpointEditForm, Kept(UpdateEndpoint))
EndpointRetire == RetireEndpoint
InstanceUpdate == Drawn(renderServiceDetail, Kept(UpdateInstance))

(* deps.go *)
DependencyCreate == CreateDependency
DependencyCreateOnRoute == CreateDependencyOnRoute
DependencyUpdate == Drawn(openDepEditor, Kept(UpdateDependency))
DependencyRetire == RetireDependency
DependencyVerify == VerifyDependency
BackendPoolUpdate == Drawn(renderServiceDetail, Kept(UpdateBackendPool))
BackendPoolRetire == RetireBackendPool
RouteUpdate == Drawn(renderServiceDetail, Kept(UpdateRoute))
RouteRetire == RetireRoute

(* assets.go: A height that is no number answers with a blank form for a     *)
(* new asset.                                                                *)
AssetUpdate ==
  Drawn(newAssetEditForm, [UpdateAsset EXCEPT !.stale = "kept", !.invalid = {"kept", "page"}])
AssetRetire == RetireAsset
EnvironmentCreate == CreateEnvironment
AssetStorageClaim == SetStorageClaim
AssetOccupants == SetOccupants
EnvironmentUpdate == Drawn(renderEnvironmentsWith, Kept(UpdateEnvironment))
EnvironmentRetire == RetireEnvironment

(* clusters.go: A refusal is an error page. *)
ClusterCreate == CreateCluster
ClusterUpdate == Drawn(ClusterDetail, UpdateCluster)
ClusterSetHosts == SetClusterMembers
ClusterRetire == RetireCluster

(* bundles.go: The page emits the version of the bundle read again. *)
BundleCreate == CreateBundle
BundleUpdate == Drawn(renderBundleDetail, Fresh(UpdateBundle))
BundleSetMembers == SetBundleMembers
BundleRetire == RetireBundle

(* hardware.go *)
ManufacturerCreate == CreateManufacturer
ManufacturerUpdate == Drawn(renderCataloguePage, Reloaded(UpdateManufacturer))
ManufacturerRetire == RetireManufacturer
DeviceTypeCreate == CreateDeviceType
DeviceTypeUpdate == Drawn(renderCataloguePage, Reloaded(UpdateDeviceType))
DeviceTypeRetire == RetireDeviceType

(* device_type_components.go *)
DeviceTypeComponentCreate == CreateDeviceTypeComponents
DeviceTypeComponentUpdate == Drawn(renderCataloguePage, Kept(UpdateDeviceTypeComponent))
DeviceTypeComponentRetire == RetireDeviceTypeComponent

(* power.go *)
PowerInputCreate == CreatePowerInput
PowerInputUpdate == Drawn(renderAssetDetail, Kept(UpdatePowerInput))
PowerInputRetire == retireInputRow
PowerSourceCreate == CreatePowerSource
PowerSourceUpdate == Drawn(renderPower, Kept(UpdatePowerSource))
PowerSourceRetire == RetirePowerSource
PowerPanelCreate == CreatePowerPanel
PowerPanelUpdate == Drawn(renderPower, KeptIfInvalid(UpdatePowerPanel))
PowerPanelRetire == RetirePowerPanel
PowerFeedCreate == CreatePowerFeed
PowerFeedUpdate == Drawn(renderPower, Kept(UpdatePowerFeed))
PowerFeedRetire == RetirePowerFeed
=============================================================================
