---------------------------- MODULE MCImportJobs ----------------------------
(* ImportJobs for TLC: files of sites and racks. *)
EXTENDS ImportJobs, TLC

CONSTANTS site, rack

Site == [name |-> site, parent |-> None, readable |-> TRUE, known |-> TRUE]
Rack == [name |-> rack, parent |-> site, readable |-> TRUE, known |-> TRUE]
Cage == [name |-> rack, parent |-> None, readable |-> TRUE, known |-> TRUE]

(* A child above its parent, found in the same batch of two; the same with a *)
(* third row, which needs a second batch; a child alone; a row twice; a row  *)
(* that cannot be read; an unknown kind in the second batch.                 *)
MCFiles == {<<Rack, Site>>, <<Rack, Site, Cage>>, <<Rack>>, <<Cage, Cage>>,
            <<[Cage EXCEPT !.readable = FALSE]>>,
            <<Site, Cage, [Rack EXCEPT !.known = FALSE]>>}

Symmetry == Permutations(Jobs)
=============================================================================
