------------------------- MODULE MCSourceCandidates -------------------------
(***************************************************************************)
(* Small instance of SourceCandidates for TLC.  Articles of two sources    *)
(* link to domain c1, whose site offers two feeds; an operator submits     *)
(* domain c2 with one of them and may add c1 itself as a source with it.   *)
(***************************************************************************)
EXTENDS SourceCandidates, TLC

CONSTANTS c1, c2, f1, f2

MCReferrer == [a \in Articles |-> a]
MCOutlinks == [a \in Articles |-> {c1}]
MCOffers == [c \in Candidates |-> IF c = c1 THEN {f1, f2} ELSE {f2}]
MCSubmissions == {<<c2, f2>>}
MCCatalogue == {<<c1, f2>>}

Renamings == Permutations(Articles)
=============================================================================
