------------------------------ MODULE MCParts ------------------------------
(***************************************************************************)
(* The parts that run in one goroutine and share no state with each other, *)
(* in one model: a behaviour is a behaviour of one part, chosen initially, *)
(* and the others stay as they are.                                        *)
(***************************************************************************)
EXTENDS DataStorage, Statements, Pickle, Commands, MCPlacements, Codec

-----------------------------------------------------------------------------
(* DataStorage on one key, with operations of every kind that fit and that do *)
(* not fit their operands.                                                  *)

One == Json("list", <<Num(1)>>)
Two == Json("list", <<Num(1), Json("str", "a")>>)
Entry == Json("dict", [a |-> Num(1)])

Defaults == {Null, Num(0), Entry, Two}

Math == {Op(name, Num(2)) : name \in MathOps}
          \cup {Op("mod", Num(0)), Op("left_shift", Num(-1)), Op("mul", One)}
Lists == {Op("add", One), Op("remove", Num(1)), Op("remove", One),
          Op("pop", Num(0)), Op("pop", Num(3))}
Dicts == {Op("pop", Json("str", "a")), Op("update", Entry), Op("update", One)}
Plain == {Op("replace", v) : v \in {Null, Num(-1), Two, Entry}}
           \cup {Op("default", Null), Op("add", Num(1)), Op("sort", Null)}

Operations == Math \cup Lists \cup Dicts \cup Plain

-----------------------------------------------------------------------------
(* The codec: lengths of one, two and three digits, and messages that are    *)
(* longer than the limit.                                                   *)

TypesWritten == {"Ping", "Join", "JoinConfirm", "ReadyConfirm", "ReadyDeny",
                 "DataReceive", "ConfirmCharmNotchCostsReceived"}

ASSUME SamplesAreCells == PayloadsAreCells

-----------------------------------------------------------------------------
VARIABLE part

storage == vars
partsVars ==
    <<storage, stmtVars, pickleVars, codecVars, placementVars, commandVars, part>>

PartsInit ==
    /\ part \in {"storage", "statements", "pickle", "codec", "placements",
                 "commands"}
    /\ Init /\ StatementsInit /\ PickleInit /\ CommandsInit
    /\ PlacementsInit /\ CodecInit
    /\ part # "placements" => checks = <<>> /\ placed = <<>>

StorageStep ==
    /\ part = "storage" /\ Next
    /\ UNCHANGED <<stmtVars, pickleVars, codecVars, placementVars, commandVars, part>>
StatementsStep ==
    /\ part = "statements" /\ StatementsNext
    /\ UNCHANGED <<storage, pickleVars, codecVars, placementVars, commandVars, part>>
PickleStep ==
    /\ part = "pickle" /\ PickleNext
    /\ UNCHANGED <<storage, stmtVars, codecVars, placementVars, commandVars, part>>
CodecStep ==
    /\ part = "codec" /\ CodecNext
    /\ UNCHANGED <<storage, stmtVars, pickleVars, placementVars, commandVars, part>>
PlacementsStep ==
    /\ part = "placements" /\ PlacementsNext
    /\ UNCHANGED <<storage, stmtVars, pickleVars, codecVars, commandVars, part>>
CommandsStep ==
    /\ part = "commands" /\ CommandsNext
    /\ UNCHANGED <<storage, stmtVars, pickleVars, codecVars, placementVars, part>>

PartsNext ==
    \/ StorageStep \/ StatementsStep \/ PickleStep
    \/ CodecStep \/ PlacementsStep \/ CommandsStep

PartsSpec == PartsInit /\ [][PartsNext]_partsVars
=============================================================================
