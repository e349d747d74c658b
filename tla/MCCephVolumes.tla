--------------------------- MODULE MCCephVolumes ---------------------------
(* Two copies of a source, and the files that may fill it. *)
EXTENDS CephVolumes, TLC

\* A hole within a buffer and one at the end of the file; a hole at the start
\* that is longer than a buffer; one that begins where a buffer ends; no hole.
MCFiles == { <<"data", "hole", "data", "hole">>, <<"hole", "hole", "hole", "hole", "data">>,
             <<"data", "zero", "data", "hole", "data">>, <<"zero", "data", "data">> }
MCStored == <<"data", "zero">>

Symmetry == Permutations(Copies)
=============================================================================
