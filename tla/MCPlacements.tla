---------------------------- MODULE MCPlacements ----------------------------
(***************************************************************************)
(* Placements with items and locations whose names look like the ones that *)
(* Isthmus makes, one item without a name and one location without.        *)
(***************************************************************************)
EXTENDS Placements

AwkwardItems ==
    << <<"key">>, <<"key", Underscore, Opening, "1", Closing>> >>
AwkwardLocs == << <<"shop", Closing>> >>
AwkwardTheirs == << <<"MW", Opening, "1", Closing, Underscore, "gem", Closing>> >>
Numerals == <<"0", "1", "2", "3", "4", "5", "6", "7", "8", "9">>
Decimals == [n \in 0 .. 9 |-> Numerals[n + 1]]
Tokens ==
    ToSet(Numerals) \cup {Underscore, Opening, Closing, "MW", "Mystery", "Place", "there"}
      \cup {"key", "shop", "gem"}
=============================================================================
