------------------------------ MODULE ReadAPI ------------------------------
(***************************************************************************)
(* The read API's lists (store/api.go, api/): a credential walks its       *)
(* assets, services or addresses page by page, or the server walks the     *)
(* assets for an Ansible inventory, while rows are created, retired and    *)
(* moved between environments.                                             *)
(*                                                                         *)
(* An id is minted before its row is written, so an id may appear behind   *)
(* the cursor.  seen, twice, always and shown are history of the walk.     *)
(***************************************************************************)
EXTENDS Integers, FiniteSets

CONSTANTS
  Ids,            \* row ids, numbers in the order they were minted
  Envs, Scope,    \* environments, and those of the reader's credential
  Limit,          \* rows on a page
  MaxEdits        \* bound: writes in one behaviour

Lifecycles == {"planned", "active", "retired"}

ASSUME ReadAPIAssumption ==
  /\ IsFiniteSet(Ids) /\ Ids \subseteq Nat \ {0} /\ Scope \subseteq Envs
  /\ Limit \in Nat \ {0} /\ MaxEdits \in Nat

VARIABLES
  asset,      \* [Ids -> [lifecycle, envs], lifecycle "none" before it exists]
  entry,      \* [Ids -> [lifecycle, env]]: services, each placed on the asset of
              \* its number, or addresses, each on an interface of it
  walk,       \* the reader
  edits       \* writes so far

apiVars == <<asset, entry, walk, edits>>

Live(row) == row.lifecycle \notin {"none", "retired"}

----------------------------------------------------------------------------
(* The read API *)

(* assetScopeSQL: in some environment, and in none outside the scope. *)
assetScope(row) == row.envs # {} /\ row.envs \subseteq Scope

(* A service is in one environment. *)
serviceScope(row) == row.env \in Scope

(* The rows of each list.  The Ansible inventory takes the active assets    *)
(* only; an address is listed by the asset that holds it.                   *)
Listed(kind, a, e) ==
  CASE kind = "assets"    -> assetScope(a) /\ Live(a)
    [] kind = "ansible"   -> assetScope(a) /\ a.lifecycle = "active"
    [] kind = "services"  -> serviceScope(e) /\ Live(e)
    [] kind = "addresses" -> assetScope(a) /\ Live(a) /\ Live(e)

Visible(kind, assets, entries) == {i \in Ids : Listed(kind, assets[i], entries[i])}

(* Mutant: the page is counted off from the rows still listed. *)
APIListByOffset(kind, after) ==
  LET all == Visible(kind, asset, entry)
      skipped == Cardinality(walk.seen)
      rank(i) == Cardinality({j \in all : j < i})
  IN {i \in all : skipped <= rank(i) /\ rank(i) < skipped + Limit}

(* APIListAssets, APIListServices, APIListAddresses: the first of the ids   *)
(* beyond the cursor.                                                       *)
APIList(kind, after) ==
  LET beyond == {i \in Visible(kind, asset, entry) : i > after}
  IN {i \in beyond : Cardinality({j \in beyond : j < i}) < Limit}

OpenAPI(kind) ==
  /\ walk.kind = "none"
  /\ walk' = [kind |-> kind, pc |-> "select", after |-> 0, page |-> {}, seen |-> {}, twice |-> FALSE,
              always |-> Visible(kind, asset, entry), shown |-> {}]
  /\ UNCHANGED <<asset, entry, edits>>

Walking == walk.kind # "none" /\ walk.pc # "done"

SelectPage ==
  /\ walk.kind # "none" /\ walk.pc = "select"
  /\ LET page == APIList(walk.kind, walk.after)
     IN walk' = [walk EXCEPT !.page = page, !.pc = "decorate", !.seen = @ \cup page,
                             !.twice = @ \/ page \cap walk.seen # {}]
  /\ UNCHANGED <<asset, entry, edits>>

(* What a second query adds to the rows of a page: the environments of the  *)
(* assets on it, those of the assets that hold the addresses, and the hosts *)
(* a service is placed on, these only as far as they are in scope now.      *)
decorateAPIAssets(page) == UNION {asset[i].envs : i \in page}
decorateAPIAddresses(page) == UNION {asset[i].envs : i \in page}
decorateAPIServices(page) ==
  UNION {asset[i].envs : i \in {j \in page : assetScope(asset[j]) /\ Live(asset[j]) /\ Live(entry[j])}}

Decoration(kind, page) ==
  CASE kind \in {"assets", "ansible"} -> decorateAPIAssets(page)
    [] kind = "services"              -> decorateAPIServices(page)
    [] kind = "addresses"             -> decorateAPIAddresses(page)

(* nextCursor: the walk goes on from the last row of a full page. *)
nextCursor(page) ==
  IF Cardinality(page) < Limit THEN 0 ELSE CHOOSE i \in page : \A j \in page : j <= i

DecoratePage ==
  /\ walk.kind # "none" /\ walk.pc = "decorate"
  /\ walk' = [walk EXCEPT !.shown = @ \cup Decoration(walk.kind, walk.page),
                          !.after = nextCursor(walk.page),
                          !.pc = IF nextCursor(walk.page) # 0 THEN "select" ELSE "done"]
  /\ UNCHANGED <<asset, entry, edits>>

----------------------------------------------------------------------------

Written(assets, entries) ==
  /\ edits < MaxEdits /\ <<assets, entries>> # <<asset, entry>>
  /\ asset' = assets /\ entry' = entries
  /\ walk' = IF Walking THEN [walk EXCEPT !.always = @ \cap Visible(walk.kind, assets, entries)] ELSE walk
  /\ edits' = edits + 1

WriteAsset(i, row) == Written([asset EXCEPT ![i] = row], entry)
WriteEntry(i, row) == Written(asset, [entry EXCEPT ![i] = row])

APIInit ==
  /\ asset \in [Ids -> [lifecycle : {"none", "active"}, envs : {Scope}]]
  /\ entry \in [Ids -> [lifecycle : {"none", "active"}, env : Scope]]
  /\ walk = [kind |-> "none"]
  /\ edits = 0

APINext ==
  \/ \E kind \in {"assets", "ansible", "services", "addresses"} : OpenAPI(kind)
  \/ SelectPage \/ DecoratePage
  \/ \E i \in Ids, l \in Lifecycles, e \in SUBSET Envs : WriteAsset(i, [lifecycle |-> l, envs |-> e])
  \/ \E i \in Ids, l \in Lifecycles, e \in Envs : WriteEntry(i, [lifecycle |-> l, env |-> e])

APISpec == APIInit /\ [][APINext]_apiVars

----------------------------------------------------------------------------
(* Properties *)

(* A row that was listed all through a walk of the read API, page after     *)
(* page, is in it once, though others appear, are retired or leave the      *)
(* scope meanwhile (the lists' cursor, nextCursor, fetchAllAssets).         *)
APIWalkIsWhole ==
  walk.kind # "none" => ~walk.twice /\ (walk.pc = "done" => walk.always \subseteq walk.seen)

(* Not so: a reader is shown environments of its own scope only.  The row   *)
(* is found in scope by one query and its environments read by the next.    *)
ShownIsInScope == walk.kind # "none" => walk.shown \subseteq Scope
=============================================================================
