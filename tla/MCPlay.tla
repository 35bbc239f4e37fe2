------------------------------- MODULE MCPlay -------------------------------
(* Play on small instances.  The places are model values, interchangeable    *)
(* within their kind; the start inventory is a sequence and the modes are   *)
(* sets of sets, so they are given here.                                    *)
EXTENDS Play

CONSTANTS start

OneStartItem == <<start>>
NoStartItem == <<>>

(* The two bits are looked at one at a time: both modes together take every  *)
(* branch on either.                                                        *)
AllOrNothing == {{}, ItemHandlingMode}
RemoteItems == {ItemHandlingMode}

OutSymmetry == Permutations(ForeignLoc)
InSymmetry == Permutations(Abroad)
=============================================================================
