----------------------------- MODULE MCSurfaces -----------------------------
(***************************************************************************)
(* TLC instance of what people and machines meet from outside: sessions    *)
(* and sign-in, the gate of the machine surfaces, the webhook with its     *)
(* drift queue and its retention, the read API and the change log.  They   *)
(* share no state the properties read, so a behaviour is one of theirs,    *)
(* with the others at rest.                                                *)
(***************************************************************************)
EXTENDS Access, MachineGate, Intake, ReadAPI, ChangeLog, TLC

(* One local administrator, one person at the provider, and a row that a    *)
(* sign-in may fill; two browsers, two requests at a time.                  *)
MCGiven ==
  ("a1" :> [exists |-> TRUE, name |-> "ann", source |-> "local", active |-> TRUE,
            role |-> "administrator", costs |-> FALSE, subject |-> ""])
MCAmendments == {<<"active", FALSE>>, <<"active", TRUE>>, <<"role", "observer">>, <<"role", "project_owner">>}

(* Places of the log that share a timestamp. *)
MCKey == 1 :> <<1, 1>> @@ 2 :> <<1, 2>> @@ 3 :> <<2, 3>> @@ 4 :> <<2, 4>> @@ 5 :> <<3, 5>>

(* Buckets that refill by half a token and by a whole one. *)
MCCredentials == [agent |-> {"a1", "a2"}, reader |-> {"r1"}]
MCRate == [agent |-> 1, reader |-> 2]
MCBurst == [agent |-> 2, reader |-> 1]

(* A batch that is empty, refused, too large, good, or fails at its end. *)
MCScope == [ops |-> {"prod"}]
MCReporters == DOMAIN MCScope
Say(ref, word) == [ref |-> ref, word |-> word]
MCBatches ==
  {<<>>, <<Say("x", "typo")>>, <<Say("x", "word"), Say("y", "word"), Say("x", "word")>>}
  \cup {<<Say(ref, "word")>> : ref \in Refs}
  \cup {<<Say("x", "word"), Say("x", "invalid")>>}

Symmetry == Permutations(Requests) \cup Permutations(Browsers) \cup Permutations(Posts)

VARIABLE part

SurfacesInit ==
  /\ part \in {"people", "machines", "webhook", "api", "log"}
  /\ Init /\ GateInit /\ APIInit /\ LogInit
  /\ \A i \in Ids : asset[i].lifecycle = entry[i].lifecycle
  /\ LET rows == {i \in Ids : asset[i].lifecycle # "none"}
     IN IF part = "api" THEN Cardinality(Ids \ rows) <= 1 ELSE rows = {}
  /\ IntakeInit
  /\ part # "webhook" => singleWriter
  /\ \A ref \in Refs : known[ref] = NotEntered \/ (part = "webhook" /\ ref = "x")

SurfacesNext ==
  /\ UNCHANGED part
  /\ \/ part = "people" /\ Next /\ UNCHANGED <<gateVars, intakeVars, apiVars, logVars>>
     \/ part = "machines" /\ GateNext /\ UNCHANGED <<vars, intakeVars, apiVars, logVars>>
     \/ part = "webhook" /\ IntakeNext /\ UNCHANGED <<vars, gateVars, apiVars, logVars>>
     \/ part = "api" /\ APINext /\ UNCHANGED <<vars, gateVars, intakeVars, logVars>>
     \/ part = "log" /\ LogNext /\ UNCHANGED <<vars, gateVars, intakeVars, apiVars>>

SurfacesSpec ==
  SurfacesInit /\ [][SurfacesNext]_<<part, vars, gateVars, intakeVars, apiVars, logVars>>
=============================================================================
