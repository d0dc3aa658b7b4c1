------------------------------- MODULE Pages -------------------------------
(***************************************************************************)
(* The pages of internal/web/handlers that draw an edit form, each as the  *)
(* queries the form is drawn from, in the order they run: "row" is the row *)
(* the form edits, with the row_version it will carry, and "set" the rows  *)
(* of a link table it replaces as a whole.  No page reads the two in one   *)
(* transaction, so another request may commit in between.  A page reads    *)
(* much more than that; what no form carries back is left out.             *)
(***************************************************************************)
EXTENDS Sequences

(* Lists with one editor per row, or an editor for the row the query string  *)
(* names: the version comes with the row. *)
renderTagList == <<"row">>
renderEnvironmentsWith == <<"row">>
renderPrefixes == <<"row">>
renderVLANs == <<"row">>
renderWireless == <<"row">>
renderL2VPNs == <<"row">>
renderRegistry == <<"row">>
renderCircuits == <<"row">>
buildNetworkListPage == <<"row">>
renderCataloguePage == <<"row">>
renderPower == <<"row">>
AssetList == <<"row">>
ServiceList == <<"row">>

(* Pages of one thing.  Those of an asset, a service and a circuit also draw *)
(* the editors of the rows under it: ports, cables, addresses, inputs and     *)
(* costs; endpoints, routes, pools and instances.                            *)
renderTeam == <<"row">>
renderIdentityWith == <<"row">>
renderFHRPDetail == <<"row">>
renderCircuitDetail == <<"row">>
renderNetGroupDetail == <<"row">>
renderProjectWith == <<"row">>
renderBundleDetail == <<"row">>
ClusterDetail == <<"row">>
renderAssetDetail == <<"row">>
renderServiceDetail == <<"row">>
newServiceEditForm == <<"row">>
newEndpointEditForm == <<"row">>

(* An asset with its environments (GetAsset, decorateAssets). *)
newAssetEditForm == <<"row", "set">>

(* A certificate with its names (GetCertificate). *)
renderCertificate == <<"row", "set">>

(* The panels of an entity's page are handed the version of the row the page *)
(* has read, and read their link table themselves.                           *)
loadEntityTagsPanel == renderAssetDetail \o <<"set">>
loadCustomFieldsPanel == renderAssetDetail \o <<"set">>

(* The registry of custom fields: the list, then the options of the field    *)
(* whose editor is open.                                                     *)
renderCustomFieldList == <<"row">>
enrichOptions == renderCustomFieldList \o <<"set">>

(* The dependencies of a service, then their data classes. *)
openDepEditor == renderServiceDetail \o <<"set">>
=============================================================================
