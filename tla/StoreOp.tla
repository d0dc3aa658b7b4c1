------------------------------ MODULE StoreOp ------------------------------
(***************************************************************************)
(* What one write operation of internal/store does, as a record.  Almost   *)
(* every operation on declared state has the same shape: the row is read   *)
(* from the reader pool, the request's columns are laid over it, and a      *)
(* transaction checks, writes and logs.  The operations differ in what     *)
(* they check, where, and what guards the UPDATE; the fields name those    *)
(* differences.  A scenario has two rows, a child that refers to a parent. *)
(*                                                                         *)
(*   act     "create", "update", "retire", "restore" or "assign"           *)
(*   before  the row the after-image and the audit diff are built from is  *)
(*           read "outside" the transaction, "inside" it, or not ("none")  *)
(*   gate    where skip and refuse are decided: "outside" or "inside"      *)
(*   skip    lifecycles of the row read at which the operation returns     *)
(*           without an error; "same": so it does when nothing changes     *)
(*   refuse  lifecycles at which it returns an error; "own": so it does    *)
(*           when the column of its own is set                             *)
(*   tx      "write" (READ COMMITTED on PostgreSQL) or "serializable"      *)
(*   guard   WHERE clause of the UPDATE besides the id: row_version of the *)
(*           "form" or of the row just "read", lifecycle still "live",     *)
(*           the column of its own still the "same", or "none"             *)
(*   sticky  requireVersion advances a token that outlives the attempt     *)
(*   from    columns that come from the request                            *)
(*   sets    columns the statement writes                                  *)
(*   bumps   row_version moves                                             *)
(*   held    what depends on the row refuses the operation: looked up      *)
(*           "outside" or "inside" the transaction, or "no"                *)
(*   holders what that is: a "live" child, "any" child, a child whose own  *)
(*           column "refers" to the row, one whose set has "taken" it in,  *)
(*           or the row's own "members"                                    *)
(*   needs   a retired parent refuses it: "outside", "inside" or "no"      *)
(*           (held and needs are about the reference the scenario pairs    *)
(*           up; what else the operation looks up is not in the scenario)  *)
(*   cascade live children are retired in the same transaction             *)
(*   index   the search document is rewritten from the after-image         *)
(*   log     "diff" (logUpdate), "fixed" (a diff written out), "snapshot"  *)
(*           (logCreate) or "none"                                         *)
(*   exists  what a create does with a row that is there: "refuse",        *)
(*           "revive" a retired one, or "upsert"                           *)
(*   delta   the set asked for is the set just read, with one id in or out *)
(*   partial the request names the ids it is about; of the set it replaces  *)
(*           only those, and leaves the others as they are                 *)
(*                                                                         *)
(* A handler of internal/web/handlers is the operation it calls, with the  *)
(* page its form is drawn on and what becomes of the form when the         *)
(* submission is refused:                                                  *)
(*                                                                         *)
(*   draws   the queries the form is drawn from, in order (Pages)          *)
(*   stale   when the row has moved (isStale)                              *)
(*   invalid when it is not valid or conflicts; a set, where it depends on *)
(*           the place of the refusal                                      *)
(*                                                                         *)
(* "page": the form is gone; "kept": redrawn with what was typed and with  *)
(* the token it carried (rejected); "reload": drawn from the stored row;   *)
(* "fresh": what was typed, with the token of the row as it is now;        *)
(* "names": the stored row and its token, but the set as typed.            *)
(*                                                                         *)
(* Columns: life (lifecycle or retired_at), body (what the edit form       *)
(* carries), own (what only dedicated operations write), set (the rows of  *)
(* a link table, which the operation replaces).                             *)
(***************************************************************************)
Columns == {"life", "body", "own", "set"}

(* An edit form: s.write, UPDATE ... WHERE id = ? AND row_version = ?,      *)
(* requireVersion, logUpdate.                                              *)
Update ==
  [act |-> "update", before |-> "outside", gate |-> "outside", skip |-> {},
   refuse |-> {}, tx |-> "write", guard |-> "form", sticky |-> FALSE,
   from |-> {"body"}, sets |-> {"body"}, bumps |-> TRUE, held |-> "no",
   holders |-> "live", needs |-> "no", cascade |-> FALSE, index |-> FALSE, log |-> "diff",
   exists |-> "refuse", delta |-> FALSE, partial |-> FALSE, draws |-> <<"row">>, stale |-> "page", invalid |-> {"page"}]

(* A withdrawal that is refused when the row moved since it was read. *)
Retire ==
  [Update EXCEPT !.act = "retire", !.skip = {"retired"}, !.guard = "read",
    !.from = {"life"}, !.sets = {"life"}]

(* A withdrawal by id alone, with its diff written out. *)
BlindRetire == [Retire EXCEPT !.guard = "none", !.log = "fixed"]

(* A withdrawal that counts what depends on the row in one serializable      *)
(* transaction with the UPDATE, and hands requireVersion the version of the  *)
(* row it read before.                                                       *)
HeldRetire ==
  [Retire EXCEPT !.tx = "serializable", !.held = "inside", !.sticky = TRUE]

(* A withdrawal undone: refused when the row moved since it was read. *)
Restore ==
  [Retire EXCEPT !.act = "restore", !.skip = {"active"}, !.log = "fixed"]

(* An INSERT with a snapshot in change_log. *)
Create ==
  [Update EXCEPT !.act = "create", !.before = "none", !.guard = "none",
    !.from = {"life", "body"}, !.sets = Columns, !.log = "snapshot"]

(* An INSERT or, when the row is there, an UPDATE of it by id alone. *)
Upsert ==
  [Create EXCEPT !.exists = "upsert", !.before = "inside", !.log = "diff",
    !.sets = {"life", "body"}]

(* A link table replaced as a whole: DELETE, INSERTs, and the owning row    *)
(* touched by id alone.                                                     *)
Assign ==
  [Update EXCEPT !.act = "assign", !.guard = "none", !.from = {"set"},
    !.sets = {"set"}]

(* The page a form is drawn on. *)
Drawn(page, f) == [f EXCEPT !.draws = page]

(* What handlers make of a refused form. *)
Kept(f) == [f EXCEPT !.stale = "kept", !.invalid = {"kept"}]
KeptIfInvalid(f) == [f EXCEPT !.invalid = {"kept"}]
Fresh(f) == [f EXCEPT !.stale = "fresh", !.invalid = {"fresh"}]
Reloaded(f) == [f EXCEPT !.invalid = {"reload"}]
=============================================================================
