------------------------------ MODULE MCWrites ------------------------------
(***************************************************************************)
(* TLC instance of Writes: every scenario pairs the operations of one kind *)
(* of row with those of the rows that refer to it.                         *)
(***************************************************************************)
EXTENDS WriteRules, Handlers

Catalogue ==
  [certificate |-> [parent |-> [CertificateUpdate |-> CertificateUpdate,
                               CertificateRetire |-> CertificateRetire],
     child |-> [CertificateDeployAsset |-> CertificateDeployAsset,
                CertificateUndeployAsset |-> CertificateUndeployAsset]],
   served |-> [parent |-> [CertificateUpdate |-> CertificateUpdate,
                          CertificateRetire |-> CertificateRetire],
     child |-> [CertificateDeployService |-> CertificateDeployService,
                CertificateUndeployService |-> CertificateUndeployService]],
   sans |-> [parent |-> <<>>,
     child |-> [CertificateCreate |-> CertificateCreate,
                CertificateUpdate |-> CertificateUpdate,
                CertificateRetire |-> CertificateRetire]],
   identity |-> [parent |-> <<>>,
     child |-> [IdentityCreate |-> IdentityCreate, IdentityUpdate |-> IdentityUpdate,
                IdentityRetire |-> IdentityRetire,
                IdentityRecordRotation |-> IdentityRecordRotation,
                ReindexIdentities |-> ReindexIdentities]],
   tag |-> [parent |-> [TagUpdate |-> TagUpdate, TagRetire |-> TagRetire,
                       TagRestore |-> TagRestore],
     child |-> [ServiceTags |-> ServiceTags, bulkApplyTag |-> bulkApplyTag,
                ServiceUpdate |-> ServiceUpdate]],
   assettag |-> [parent |-> [TagRetire |-> TagRetire, TagRestore |-> TagRestore],
     child |-> [AssetTags |-> AssetTags, AssetUpdate |-> AssetUpdate]],
   projecttag |-> [parent |-> [TagRetire |-> TagRetire, TagRestore |-> TagRestore],
     child |-> [ProjectTags |-> ProjectTags, ProjectUpdate |-> ProjectUpdate]],
   newtag |-> [parent |-> <<>>,
     child |-> [TagCreate |-> TagCreate, TagUpdate |-> TagUpdate, TagRetire |-> TagRetire,
                TagRestore |-> TagRestore]],
   team |-> [parent |-> <<>>,
     child |-> [TeamCreate |-> TeamCreate, TeamUpdate |-> TeamUpdate,
                TeamRetire |-> TeamRetire]],
   ownership |-> [parent |-> <<>>,
     child |-> [ServiceCreate |-> ServiceCreate,
                ServiceCreateInProject |-> ServiceCreateInProject,
                ServiceUpdate |-> ServiceUpdate, ServiceRetire |-> ServiceRetire,
                reassignEntity |-> reassignEntity, OwnershipAssign |-> OwnershipAssign]],
   values |-> [parent |-> <<>>,
     child |-> [ServiceCustomFields |-> ServiceCustomFields, ServiceUpdate |-> ServiceUpdate,
                ServiceRetire |-> ServiceRetire]],
   assetvalues |-> [parent |-> <<>>,
     child |-> [AssetCustomFields |-> AssetCustomFields, AssetUpdate |-> AssetUpdate,
                AssetRetire |-> AssetRetire]],
   view |-> [parent |-> <<>>,
     child |-> [SavedViewCreate |-> SavedViewCreate, SavedViewRename |-> SavedViewRename,
                SavedViewRetire |-> SavedViewRetire]],
   journal |-> [parent |-> <<>>,
     child |-> [JournalCreate |-> JournalCreate, JournalUpdate |-> JournalUpdate,
                JournalRetire |-> JournalRetire]],
   vocabulary |-> [parent |-> <<>>,
     child |-> [VocabularyUpsert |-> VocabularyUpsert]],
   inflation |-> [parent |-> <<>>,
     child |-> [InflationSet |-> InflationSet]],
   customfield |-> [parent |-> [TeamRetire |-> TeamRetire],
     child |-> [CustomFieldCreate |-> CustomFieldCreate,
                CustomFieldUpdate |-> CustomFieldUpdate,
                CustomFieldRetire |-> CustomFieldRetire,
                CustomFieldRestore |-> CustomFieldRestore,
                CustomFieldOptions |-> CustomFieldOptions]],
   occupants |-> [parent |-> <<>>,
     child |-> [AssetOccupants |-> AssetOccupants]],
   claim |-> [parent |-> <<>>,
     child |-> [AssetStorageClaim |-> AssetStorageClaim]],
   cost |-> [parent |-> <<>>,
     child |-> [CostAddToAsset |-> CostAddToAsset, CostEditOnAsset |-> CostEditOnAsset,
                CostRetireOnAsset |-> CostRetireOnAsset,
                CostRepriceOnAsset |-> CostRepriceOnAsset,
                CostConsumersOnAsset |-> CostConsumersOnAsset]],
   servicecost |-> [parent |-> <<>>,
     child |-> [CostAddToService |-> CostAddToService,
                CostEditOnService |-> CostEditOnService,
                CostRetireOnService |-> CostRetireOnService,
                CostRepriceOnService |-> CostRepriceOnService]],
   projectcost |-> [parent |-> <<>>,
     child |-> [CostAddToProject |-> CostAddToProject,
                CostEditOnProject |-> CostEditOnProject,
                CostRetireOnProject |-> CostRetireOnProject,
                CostRepriceOnProject |-> CostRepriceOnProject]],
   circuitcost |-> [parent |-> <<>>,
     child |-> [CostAddToCircuit |-> CostAddToCircuit,
                CostEditOnCircuit |-> CostEditOnCircuit,
                CostRetireOnCircuit |-> CostRetireOnCircuit,
                CostRepriceOnCircuit |-> CostRepriceOnCircuit]],
   project |-> [parent |-> [ProjectUpdate |-> ProjectUpdate, ProjectRetire |-> ProjectRetire],
     child |-> [ProjectAssetLink |-> ProjectAssetLink,
                ProjectAssetRetire |-> ProjectAssetRetire]],
   serviceinproject |-> [parent |-> [ProjectRetire |-> ProjectRetire],
     child |-> [ProjectServiceLink |-> ProjectServiceLink,
                ProjectServiceRetire |-> ProjectServiceRetire]],
   circuitinproject |-> [parent |-> [ProjectRetire |-> ProjectRetire],
     child |-> [ProjectCircuitLink |-> ProjectCircuitLink,
                ProjectCircuitRetire |-> ProjectCircuitRetire]],
   newproject |-> [parent |-> <<>>,
     child |-> [ProjectCreate |-> ProjectCreate, ProjectUpdate |-> ProjectUpdate,
                ProjectRetire |-> ProjectRetire, reassignEntity |-> reassignEntity]],
   userproject |-> [parent |-> <<>>,
     child |-> [UserAssignProject |-> UserAssignProject,
                UserReleaseProject |-> UserReleaseProject]],
   override |-> [parent |-> <<>>,
     child |-> [HealthOverrideCreate |-> HealthOverrideCreate,
                HealthOverrideAmend |-> HealthOverrideAmend,
                HealthOverrideClear |-> HealthOverrideClear]],
   range |-> [parent |-> [PrefixUpdate |-> PrefixUpdate,
                         RetirePrefixOfRanges |-> RetirePrefixOfRanges],
     child |-> [IPRangeCreate |-> IPRangeCreate, IPRangeUpdate |-> IPRangeUpdate,
                IPRangeRetire |-> IPRangeRetire]],
   address |-> [parent |-> [PrefixRetire |-> PrefixRetire],
     child |-> [IPAddressCreate |-> IPAddressCreate, IPAddressUpdate |-> IPAddressUpdate,
                IPAddressRetire |-> IPAddressRetire]],
   listener |-> [parent |-> [IPAddressRetire |-> IPAddressRetire],
     child |-> [EndpointCreate |-> EndpointCreate]],
   backend |-> [parent |-> [EndpointRetire |-> EndpointRetire],
     child |-> [AddBackendMember |-> AddBackendMember]],
   l2vpn |-> [parent |-> [L2VPNCreate |-> L2VPNCreate, L2VPNUpdate |-> L2VPNUpdate,
                         L2VPNRetire |-> L2VPNRetire],
     child |-> [L2VPNAttach |-> L2VPNAttach, L2VPNDetach |-> L2VPNDetach]],
   vlan |-> [parent |-> [VLANUpdate |-> VLANUpdate, VLANRetire |-> VLANRetire],
     child |-> [CreatePrefixOnVLAN |-> CreatePrefixOnVLAN, PrefixUpdate |-> PrefixUpdate,
                PrefixRetire |-> PrefixRetire]],
   vlangroup |-> [parent |-> [CreateVLANGroup |-> CreateVLANGroup,
                             VLANGroupUpdate |-> VLANGroupUpdate,
                             VLANGroupRetire |-> VLANGroupRetire],
     child |-> [VLANCreate |-> VLANCreate, VLANUpdate |-> VLANUpdate,
                VLANRetire |-> VLANRetire]],
   port |-> [parent |-> <<>>,
     child |-> [VLANPortAdd |-> VLANPortAdd, VLANPortRemove |-> VLANPortRemove]],
   wlan |-> [parent |-> [WirelessCreate |-> WirelessCreate, WirelessUpdate |-> WirelessUpdate,
                        WirelessRetire |-> WirelessRetire],
     child |-> [WirelessRadioAdd |-> WirelessRadioAdd,
                WirelessRadioRemove |-> WirelessRadioRemove]],
   fhrp |-> [parent |-> [FHRPCreate |-> FHRPCreate, FHRPUpdate |-> FHRPUpdate,
                        FHRPRetire |-> FHRPRetire],
     child |-> [FHRPVIPAssign |-> FHRPVIPAssign, IPAddressRetire |-> IPAddressRetire]],
   fhrpmembers |-> [parent |-> <<>>,
     child |-> [FHRPMemberAdd |-> FHRPMemberAdd, FHRPMemberUpdate |-> FHRPMemberUpdate,
                FHRPMemberRemove |-> FHRPMemberRemove, FHRPUpdate |-> FHRPUpdate]],
   cable |-> [parent |-> [InterfaceCreate |-> InterfaceCreate,
                         InterfaceUpdate |-> InterfaceUpdate,
                         InterfaceRetire |-> InterfaceRetire],
     child |-> [LinkCreate |-> LinkCreate, LinkUpdate |-> LinkUpdate,
                LinkRetire |-> LinkRetire]],
   aggregate |-> [parent |-> [CreateRIR |-> CreateRIR, RIRUpdate |-> RIRUpdate,
                             RIRRetire |-> RIRRetire],
     child |-> [AggregateCreate |-> AggregateCreate, AggregateUpdate |-> AggregateUpdate,
                AggregateRetire |-> AggregateRetire]],
   asn |-> [parent |-> <<>>,
     child |-> [ASNCreate |-> ASNCreate, ASNUpdate |-> ASNUpdate, ASNRetire |-> ASNRetire]],
   circuit |-> [parent |-> [ProviderCreate |-> ProviderCreate,
                           ProviderUpdate |-> ProviderUpdate,
                           ProviderRetire |-> ProviderRetire],
     child |-> [CircuitCreate |-> CircuitCreate, CircuitUpdate |-> CircuitUpdate,
                CircuitCreateInProject |-> CircuitCreateInProject,
                CircuitRetire |-> CircuitRetire]],
   termination |-> [parent |-> [CircuitRetire |-> CircuitRetire],
     child |-> [CircuitLand |-> CircuitLand, CircuitLift |-> CircuitLift]],
   attachment |-> [parent |-> [NetworkGroupCreate |-> NetworkGroupCreate,
                              NetworkGroupUpdate |-> NetworkGroupUpdate,
                              NetworkGroupRetire |-> NetworkGroupRetire],
     child |-> [NetworkAttachmentCreate |-> NetworkAttachmentCreate,
                NetworkAttachmentRetire |-> NetworkAttachmentRetire]],
   netmember |-> [parent |-> [NetworkGroupRetire |-> NetworkGroupRetire],
     child |-> [NetworkGroupMemberCreate |-> NetworkGroupMemberCreate,
                NetworkGroupMemberRetire |-> NetworkGroupMemberRetire]],
   uplink |-> [parent |-> [NetworkGroupRetire |-> NetworkGroupRetire],
     child |-> [NetworkUplinkCreate |-> NetworkUplinkCreate,
                NetworkUplinkRetire |-> NetworkUplinkRetire]],
   anchor |-> [parent |-> [NetworkGroupRetire |-> NetworkGroupRetire],
     child |-> [NetworkAnchorCreate |-> NetworkAnchorCreate,
                NetworkAnchorUpdate |-> NetworkAnchorUpdate,
                NetworkAnchorRetire |-> NetworkAnchorRetire]],
   instance |-> [parent |-> [ServiceRetire |-> ServiceRetire],
     child |-> [InstanceCreate |-> InstanceCreate, InstanceUpdate |-> InstanceUpdate,
                InstanceRetire |-> InstanceRetire]],
   runtime |-> [parent |-> <<>>,
     child |-> [SetRuntimeSystemd |-> SetRuntimeSystemd,
                SetRuntimeContainer |-> SetRuntimeContainer,
                SetRuntimeWindows |-> SetRuntimeWindows, SetRuntimeK8s |-> SetRuntimeK8s]],
   endpoint |-> [parent |-> [EndpointCreate |-> EndpointCreate,
                            EndpointUpdate |-> EndpointUpdate,
                            EndpointRetire |-> EndpointRetire],
     child |-> [DependencyCreate |-> DependencyCreate, DependencyRetire |-> DependencyRetire]],
   dependency |-> [parent |-> [EndpointRetire |-> EndpointRetire],
     child |-> [DependencyUpdate |-> DependencyUpdate, DependencyRetire |-> DependencyRetire]],
   verified |-> [parent |-> [EndpointRetire |-> EndpointRetire],
     child |-> [DependencyUpdate |-> DependencyUpdate, DependencyVerify |-> DependencyVerify,
                DependencyRetire |-> DependencyRetire]],
   route |-> [parent |-> [CreateBackendPool |-> CreateBackendPool,
                         BackendPoolUpdate |-> BackendPoolUpdate,
                         BackendPoolRetire |-> BackendPoolRetire],
     child |-> [CreateRoute |-> CreateRoute, RouteUpdate |-> RouteUpdate,
                RouteRetire |-> RouteRetire]],
   routed |-> [parent |-> [RouteRetire |-> RouteRetire],
     child |-> [DependencyCreateOnRoute |-> DependencyCreateOnRoute,
                DependencyRetire |-> DependencyRetire]],
   environment |-> [parent |-> [EnvironmentCreate |-> EnvironmentCreate,
                               EnvironmentUpdate |-> EnvironmentUpdate,
                               reactivateRetiredEnvironment |-> reactivateRetiredEnvironment,
                               EnvironmentRetire |-> EnvironmentRetire],
     child |-> [PrefixCreate |-> PrefixCreate]],
   cluster |-> [parent |-> <<>>,
     child |-> [ClusterCreate |-> ClusterCreate, ClusterUpdate |-> ClusterUpdate,
                ClusterRetire |-> ClusterRetire, ClusterSetHosts |-> ClusterSetHosts]],
   bundle |-> [parent |-> <<>>,
     child |-> [BundleCreate |-> BundleCreate, BundleUpdate |-> BundleUpdate,
                BundleRetire |-> BundleRetire, BundleSetMembers |-> BundleSetMembers]],
   devicetype |-> [parent |-> [ManufacturerCreate |-> ManufacturerCreate,
                              ManufacturerUpdate |-> ManufacturerUpdate,
                              ManufacturerRetire |-> ManufacturerRetire],
     child |-> [DeviceTypeCreate |-> DeviceTypeCreate, DeviceTypeUpdate |-> DeviceTypeUpdate,
                DeviceTypeRetire |-> DeviceTypeRetire]],
   component |-> [parent |-> <<>>,
     child |-> [DeviceTypeComponentCreate |-> DeviceTypeComponentCreate,
                DeviceTypeComponentUpdate |-> DeviceTypeComponentUpdate,
                DeviceTypeComponentRetire |-> DeviceTypeComponentRetire]],
   panel |-> [parent |-> [PowerSourceCreate |-> PowerSourceCreate,
                         PowerSourceUpdate |-> PowerSourceUpdate,
                         PowerSourceRetire |-> PowerSourceRetire],
     child |-> [PowerPanelCreate |-> PowerPanelCreate, PowerPanelUpdate |-> PowerPanelUpdate,
                PowerPanelRetire |-> PowerPanelRetire]],
   feed |-> [parent |-> [PowerPanelRetire |-> PowerPanelRetire],
     child |-> [PowerFeedCreate |-> PowerFeedCreate, PowerFeedUpdate |-> PowerFeedUpdate,
                PowerFeedRetire |-> PowerFeedRetire]],
   input |-> [parent |-> [PowerFeedRetire |-> PowerFeedRetire],
     child |-> [PowerInputCreate |-> PowerInputCreate, PowerInputUpdate |-> PowerInputUpdate,
                PowerInputRetire |-> PowerInputRetire]]]

(* The same as a function, which TLC evaluates once. *)
AsFunction(record) == [x \in DOMAIN record |-> record[x]]
MCScenarios == AsFunction(Catalogue)

(* The rows that have a search document.  Teams, identities and environments *)
(* are left out: theirs go stale (README).                                   *)
MCIndexed ==
  {<<n, "child">> : n \in {"sans", "newproject", "ownership", "range", "vlan", "vlangroup",
                           "aggregate", "asn", "circuit", "cluster", "bundle", "devicetype",
                           "environment"}}
  \cup {<<n, "parent">> : n \in {"range", "l2vpn", "vlan", "wlan", "fhrp"}}

(* Both the withdrawal and the reference look, each in a serializable        *)
(* transaction.  On SQLite transactions do not overlap, and looking inside   *)
(* one is enough.                                                            *)
MCPromised ==
  [sqlite |-> {"endpoint", "dependency", "verified", "cable"},
   postgres |-> {"endpoint", "dependency", "verified"}]

(* These read what they log or replace before the transaction begins. *)
ReadBefore ==
  {"BundleSetMembers", "ClusterSetHosts", "FHRPMemberAdd", "FHRPMemberUpdate",
   "FHRPMemberRemove", "VLANPortAdd", "VLANPortRemove", "WirelessRadioAdd",
   "WirelessRadioRemove", "DeviceTypeRetire", "ManufacturerRetire", "DependencyVerify"}
(* These read it in the transaction, which at READ COMMITTED is no better. *)
ReadCommitted ==
  {"AssetOccupants", "AssetStorageClaim", "InflationSet", "VocabularyUpsert",
   "NetworkGroupMemberCreate", "HealthOverrideAmend", "CostConsumersOnAsset"}
(* The token of these outlives an attempt that failed at COMMIT. *)
StickyToken == {"DependencyUpdate", "CustomFieldUpdate"}
(* A refused form of these comes back with the version of the row as it is,  *)
(* under what the person typed over an older one.                            *)
FreshToken ==
  {"BundleUpdate", "ServiceUpdate", "ProjectUpdate", "IdentityUpdate", "CertificateUpdate"}
(* DELETE and INSERT of a link table at READ COMMITTED. *)
Unioned ==
  {"AssetOccupants", "CostConsumersOnAsset", "ClusterSetHosts", "FHRPMemberAdd",
   "FHRPMemberUpdate", "FHRPMemberRemove", "VLANPortAdd", "VLANPortRemove",
   "WirelessRadioAdd", "WirelessRadioRemove"}

MCExempt ==
  [NoLostUpdate |-> [sqlite |-> FreshToken, postgres |-> FreshToken \cup StickyToken],
   RetiredStaysRetired |->
     [sqlite |-> {}, postgres |-> {"DependencyUpdate", "HealthOverrideAmend"}],
   AuditReplays |-> [sqlite |-> ReadBefore,
                     postgres |-> ReadBefore \cup ReadCommitted \cup StickyToken],
   SetIsWhole |-> [sqlite |-> {}, postgres |-> Unioned]]
=============================================================================
