----------------------------- MODULE Placements -----------------------------
(***************************************************************************)
(* The way of the placements of our world to the multiworld server and     *)
(* back: apToMWPlacements (cmd/isthmus/convert.go) gives every place and   *)
(* every item a unique name, the server mixes the items of all players,    *)
(* createSavefile (savefile.go) takes the names apart again, and play.go   *)
(* looks up the items that are ours by what is left of their names.        *)
(*                                                                         *)
(* The property is about names, so they are modelled by their parts: a     *)
(* name is a sequence of the characters that the code looks for and of     *)
(* words and numerals in between.                                          *)
(***************************************************************************)
EXTENDS Integers, Sequences, FiniteSets, FiniteSetsExt, SequencesExt

CONSTANTS
    Token,         \* what names consist of: see below
    Loc,           \* location numbers of our game
    Item,          \* item numbers of our game
    ItemName,      \* the data package: the name of each item, a function
    LocName,       \* the names of some locations
    TheirNames,    \* the names of the other player's items, a sequence
    Decimal,       \* how fmt writes each number: a word, by number
    NoNumber,      \* what strconv makes of anything else
    MaxChecks,     \* bound: locations listed in the spheres
    MaxNicknames   \* bound: players named in the server's answer

Self == 0          \* our player number, and the other player's
Other == 1

(* The characters that the code looks for. *)
Underscore == "underscore"
Opening == "opening"
Closing == "closing"

Name == Seq(Token)
Number == DOMAIN Decimal

(* ItemNameToID is a map by name, so a name has one number. *)
ASSUME NamesAssumption ==
    /\ {Underscore, Opening, Closing, "MW", "Mystery", "Place", "there"}
         \subseteq Token
    /\ ItemName \in [DOMAIN ItemName -> Name]
    /\ \A i, j \in DOMAIN ItemName : ItemName[i] = ItemName[j] => i = j
    /\ LocName \in [DOMAIN LocName -> Name]
    /\ TheirNames \in Seq(Name)

(* Numbers are written in different ways, none of which looks like the
   characters around them. *)
ASSUME NumbersAssumption ==
    /\ MaxChecks \in Nat /\ MaxNicknames \in Nat
    /\ Loc \cup {Self, Other} \cup 0 .. MaxChecks + Len(TheirNames) \subseteq Number
    /\ \A m \in Number : Decimal[m] \in Token \ {Underscore, Opening, Closing}
    /\ \A m, n \in Number : Decimal[m] = Decimal[n] => m = n
    /\ NoNumber \notin Number

Numeral(n) == <<Decimal[n]>>
IsNumeral(s) == \E n \in Number : s = Numeral(n)
ParseInt(s) == CHOOSE n \in Number : s = Numeral(n)

(* strings.Index and strings.LastIndex of a two-character separator: where it
   begins. *)
Occurrences(s, a, b) == {i \in 1 .. Len(s) - 1 : s[i] = a /\ s[i + 1] = b}

-----------------------------------------------------------------------------
(* discriminators.go *)

(* fmt.Sprintf("%s_(%d)", name, n) *)
Discriminated(name, n) ==
    name \o <<Underscore, Opening>> \o Numeral(n) \o <<Closing>>

CutClosing(name) ==
    IF name # <<>> /\ Last(name) = Closing THEN Front(name) ELSE name

ParseDiscriminator(name) ==
    LET body == CutClosing(name)
        at == Occurrences(body, Underscore, Opening)
        digits == SubSeq(body, Max(at) + 2, Len(body))
    IN  IF body = name \/ at = {} THEN NoNumber
        ELSE IF IsNumeral(digits) THEN ParseInt(digits) ELSE NoNumber

\* Mutant of StripDiscriminator.
StripAtFirst(name) ==
    LET body == CutClosing(name)
        at == Occurrences(body, Underscore, Opening)
    IN  IF at = {} THEN body ELSE SubSeq(body, 1, Min(at) - 1)
(* A closing parenthesis goes even if nothing opened it. *)
StripDiscriminator(name) ==
    LET body == CutClosing(name)
        at == Occurrences(body, Underscore, Opening)
    IN  IF at = {} THEN body ELSE SubSeq(body, 1, Max(at) - 1)

(* The server's ways to say whose a name is (external): MW(N)_ before items,
   and before locations that or, as mw-protocol.md has it, MW_(N)_. *)
LocationPrefixes == {"MW(N)_", "MW_(N)_"}

Qualified(pid, name) ==
    <<"MW", Opening>> \o Numeral(pid) \o <<Closing, Underscore>> \o name
QualifiedAs(prefix, pid, name) ==
    IF prefix = "MW(N)_" THEN Qualified(pid, name)
    ELSE <<"MW", Underscore, Opening>> \o Numeral(pid)
           \o <<Closing, Underscore>> \o name

(* Our way to read it, which takes only the first one. *)

NoName == [pid |-> NoNumber, name |-> <<>>]
ParseQualifiedName(name) ==
    LET rest == SubSeq(name, 3, Len(name))
        at == Occurrences(rest, Closing, Underscore)
        qualifier == SubSeq(rest, 1, Min(at) - 1)
    IN  IF ~IsPrefix(<<"MW", Opening>>, name) \/ at = {} THEN NoName
        ELSE IF ~IsNumeral(qualifier) THEN NoName
        ELSE [pid |-> ParseInt(qualifier),
              name |-> SubSeq(rest, Min(at) + 2, Len(rest))]

-----------------------------------------------------------------------------
VARIABLES
    checks,        \* data.Spheres: the locations, in the order they are listed
    placed,        \* data.Locations: which item lies where in the AP seed
    round,         \* the loops: how many locations are converted or inserted
    mwPlacements,  \* what the server gets from us
    dealt,         \* server: which item goes to which place
    answer,        \* server: the prefix of locations, the number of nicknames
    ownPlaces,     \* PlayerItemsPlacements still to be inserted
    worldRows,     \* mw_own_world_placements
    itemRows,      \* mw_own_item_placements
    phase,         \* "convert", "players", "create", "play", "refused", "failed"
    origin         \* history: the position in checks of each of mwPlacements

seed == <<checks, placed>>
decided == <<dealt, answer>>
rows == <<worldRows, itemRows>>
placementVars ==
    <<seed, round, mwPlacements, decided, ownPlaces, rows, phase, origin>>

-----------------------------------------------------------------------------
(* apToMWPlacements: one round per location of the spheres.  A location that
   the seed puts nothing in is left out. *)

UniqueName(item, n) == Discriminated(ItemName[item], n)

(* A location without a name is a mystery. *)
BareName(loc) ==
    IF loc \in DOMAIN LocName THEN LocName[loc]
    ELSE <<"Mystery", Underscore, "Place">>
\* Mutant of PlaceName.
PlaceWithoutNumber(loc) == BareName(loc)
PlaceName(loc) == Discriminated(BareName(loc), loc)

ConvertNothing ==
    /\ phase = "convert" /\ round < Len(checks)
    /\ checks[round + 1] \notin DOMAIN placed
    /\ round' = round + 1
    /\ UNCHANGED <<seed, mwPlacements, decided, ownPlaces, rows, phase, origin>>

Convert ==
    /\ phase = "convert" /\ round < Len(checks)
    /\ LET loc == checks[round + 1]
       IN  /\ loc \in DOMAIN placed
           /\ placed[loc] \in DOMAIN ItemName
           /\ mwPlacements' = Append(mwPlacements,
                 [item |-> UniqueName(placed[loc], Len(mwPlacements)),
                  location |-> PlaceName(loc)])
    /\ round' = round + 1
    /\ origin' = Append(origin, round + 1)
    /\ UNCHANGED <<seed, decided, ownPlaces, rows, phase>>

(* An item without a name: the error ends the program. *)
ConvertFails ==
    /\ phase = "convert" /\ round < Len(checks)
    /\ LET loc == checks[round + 1]
       IN  loc \in DOMAIN placed /\ placed[loc] \notin DOMAIN ItemName
    /\ phase' = "refused"
    /\ UNCHANGED <<seed, round, mwPlacements, decided, ownPlaces, rows, origin>>

-----------------------------------------------------------------------------
(* The server (external) deals the items of both worlds out to the places of *)
(* both, and sends us what lies in our places and where our items are.       *)

Ours == DOMAIN mwPlacements
All == 1 .. Len(mwPlacements) + Len(TheirNames)
Owner(i) == IF i \in Ours THEN Self ELSE Other
NameOfItem(i) ==
    IF i \in Ours THEN mwPlacements[i].item
    ELSE TheirNames[i - Len(mwPlacements)]
NameOfPlace(i) ==
    IF i \in Ours THEN mwPlacements[i].location ELSE <<"there">> \o Numeral(i)

(* Placements and PlayerItemsPlacements of ResultMessage; the second one is a
   map by the names of our items.  Nicknames gives every player a number. *)
ResultPlacement(i) ==
    [item |-> Qualified(Owner(dealt[i]), NameOfItem(dealt[i])),
     location |-> NameOfPlace(i)]
OwnPlacement(i, deal, prefix) ==
    [item |-> NameOfItem(deal[i]),
     location |-> QualifiedAs(prefix, Owner(i), NameOfPlace(i))]
Players == 0 .. answer.nicknames - 1

Mix(deal, prefix, nicknames) ==
    /\ phase = "convert" /\ round = Len(checks)
    /\ dealt' = deal
    /\ answer' = [prefix |-> prefix, nicknames |-> nicknames]
    /\ ownPlaces' =
         {OwnPlacement(i, deal, prefix) : i \in {j \in All : deal[j] \in Ours}}
    /\ round' = 0
    /\ phase' = "players"
    /\ UNCHANGED <<seed, mwPlacements, rows, origin>>

-----------------------------------------------------------------------------
(* createSavefile, a row at a time: a name that does not parse, a key that is
   there already, or a player that mw_players does not have (foreign keys are
   on) ends it. *)

WorldRow(p) ==
    [location |-> ParseDiscriminator(p.location),
     owner |-> ParseQualifiedName(p.item).pid,
     item |-> ParseQualifiedName(p.item).name]
ItemRow(p) ==
    [item |-> p.item,
     source |-> ParseQualifiedName(p.location).pid,
     location |-> ParseQualifiedName(p.location).name]

GoodWorldRow(r) ==
    /\ r.location # NoNumber /\ r.owner # NoNumber /\ r.owner \in Players
    /\ \A row \in worldRows : row.location # r.location
GoodItemRow(r) ==
    /\ r.source # NoNumber /\ r.source \in Players
    /\ \A row \in itemRows : row.item # r.item

(* mw_players, and mw_global_data with our number. *)
InsertPlayers ==
    /\ phase = "players" /\ Self \in Players
    /\ phase' = "create"
    /\ UNCHANGED <<seed, round, mwPlacements, decided, ownPlaces, rows, origin>>

InsertWorldRow ==
    /\ phase = "create" /\ round < Len(mwPlacements)
    /\ LET r == WorldRow(ResultPlacement(round + 1))
       IN  GoodWorldRow(r) /\ worldRows' = worldRows \cup {r}
    /\ round' = round + 1
    /\ UNCHANGED <<seed, mwPlacements, decided, ownPlaces, itemRows, phase, origin>>

InsertItemRow(p) ==
    /\ phase = "create" /\ round = Len(mwPlacements)
    /\ GoodItemRow(ItemRow(p))
    /\ itemRows' = itemRows \cup {ItemRow(p)}
    /\ ownPlaces' = ownPlaces \ {p}
    /\ UNCHANGED <<seed, round, mwPlacements, decided, worldRows, phase, origin>>

CreateFails ==
    /\ \/ phase = "players" /\ Self \notin Players
       \/ /\ phase = "create" /\ round < Len(mwPlacements)
          /\ ~GoodWorldRow(WorldRow(ResultPlacement(round + 1)))
       \/ /\ phase = "create" /\ round = Len(mwPlacements)
          /\ \E p \in ownPlaces : ~GoodItemRow(ItemRow(p))
    /\ phase' = "failed"
    /\ UNCHANGED <<seed, round, mwPlacements, decided, ownPlaces, rows, origin>>

CreateDone ==
    /\ phase = "create" /\ round = Len(mwPlacements) /\ ownPlaces = {}
    /\ phase' = "play"
    /\ UNCHANGED <<seed, round, mwPlacements, decided, ownPlaces, rows, origin>>

(* play.go: the number of an item of ours, looked up by its name in the data
   package; a name that is not there has the number 0. *)
LookUp(name) ==
    LET bare == StripDiscriminator(name)
        known == {i \in DOMAIN ItemName : ItemName[i] = bare}
    IN  IF known = {} THEN 0 ELSE CHOOSE i \in known : TRUE

-----------------------------------------------------------------------------
PlacementsInit ==
    /\ checks \in BoundedSeq(Loc, MaxChecks)
    /\ \E L \in SUBSET Loc : placed \in [L -> Item]
    /\ round = 0
    /\ mwPlacements = <<>> /\ dealt = <<>> /\ ownPlaces = {}
    /\ answer = [prefix |-> "MW(N)_", nicknames |-> 0]
    /\ worldRows = {} /\ itemRows = {}
    /\ phase = "convert" /\ origin = <<>>

Deals == {f \in [All -> All] : \A i, j \in All : f[i] = f[j] => i = j}

PlacementsNext ==
    \/ ConvertNothing \/ Convert \/ ConvertFails
    \/ \E deal \in Deals, prefix \in LocationPrefixes, nicknames \in 0 .. MaxNicknames :
         Mix(deal, prefix, nicknames)
    \/ InsertPlayers \/ InsertWorldRow
    \/ \E p \in ownPlaces : InsertItemRow(p)
    \/ CreateFails \/ CreateDone

PlacementsSpec == PlacementsInit /\ [][PlacementsNext]_placementVars

-----------------------------------------------------------------------------
(* Properties. *)

(* What play.go reads from the savefile is what the server decided, by number
   and not by name: no location with an item is left out, and every place of
   ours has one row, with the right owner and, for an item of ours, an item whose
   name leads back to its number, even if the names of the game look like the
   ones Isthmus makes; and the items that lie elsewhere have the place the
   server put them in. *)
LocOf(i) == checks[origin[i]]

NamesLeadBack ==
    phase = "play" =>
      /\ \A j \in DOMAIN checks : checks[j] \in DOMAIN placed =>
           \E i \in Ours : origin[i] = j
      /\ \A i \in Ours : \E row \in worldRows :
           /\ row.location = LocOf(i)
           /\ row.owner = Owner(dealt[i])
           /\ dealt[i] \in Ours => LookUp(row.item) = placed[LocOf(dealt[i])]
           /\ dealt[i] \notin Ours => row.item = NameOfItem(dealt[i])
      /\ \A i \in All : dealt[i] \in Ours =>
           \E row \in itemRows :
             /\ LookUp(row.item) = placed[LocOf(dealt[i])]
             /\ row.source = Owner(i)
             /\ row.location = NameOfPlace(i)

(* createSavefile, which leaves an unusable file when it fails, fails for three
   reasons only, whatever the names look like: the seed lists a location with an
   item twice; the answer's Nicknames leave out a player that its placements, or
   its PlayerID, name; or our items' locations carry the prefix of the document
   and not the one that ParseQualifiedName reads. *)
RepeatedLocation ==
    \E i, j \in DOMAIN checks :
        i # j /\ checks[i] = checks[j] /\ checks[i] \in DOMAIN placed

UnnamedPlayer ==
    \/ Self \notin Players
    \/ \E i \in Ours : Owner(dealt[i]) \notin Players
    \/ \E i \in All : dealt[i] \in Ours /\ Owner(i) \notin Players

OtherPrefix ==
    answer.prefix = "MW_(N)_" /\ \E i \in All : dealt[i] \in Ours

CreateFailsOnlyFor ==
    phase = "failed" => RepeatedLocation \/ UnnamedPlayer \/ OtherPrefix

(* mw-protocol.md, of PlayerItemsPlacements: "Location names in this object are
   prefix with MW_(N)_, where N is the PlayerID of the player that the location
   belongs to."  createSavefile takes an answer that keeps to this. *)
DocumentedPrefixTaken ==
    phase = "failed" /\ answer.prefix = "MW_(N)_" =>
        RepeatedLocation \/ UnnamedPlayer

-----------------------------------------------------------------------------
(* The invariant behind both.  The placements are the checks with an item, in
   their order, named by what they are and numbered; while createSavefile runs,
   every row comes from one answer of the server, and every answer is a row or
   still to come. *)
SeedOK ==
    /\ checks \in Seq(Loc) /\ Len(checks) <= MaxChecks
    /\ \A l \in DOMAIN placed : l \in Loc

OriginOK ==
    /\ mwPlacements \in Seq([item : Name, location : Name])
    /\ origin \in Seq(DOMAIN checks) /\ Len(origin) = Len(mwPlacements)
    /\ \A i, j \in Ours : i < j => origin[i] < origin[j]
    /\ \A i \in Ours :
         /\ LocOf(i) \in DOMAIN placed /\ placed[LocOf(i)] \in DOMAIN ItemName
         /\ mwPlacements[i] = [item |-> UniqueName(placed[LocOf(i)], i - 1),
                               location |-> PlaceName(LocOf(i))]

ConvertOK ==
    /\ round \in 0 .. Len(checks) /\ Len(mwPlacements) <= round
    /\ \A i \in Ours : origin[i] <= round
    /\ \A j \in 1 .. round : checks[j] \in DOMAIN placed =>
         \E i \in Ours : origin[i] = j
    /\ worldRows = {} /\ itemRows = {}

OwnRow(i) == OwnPlacement(i, dealt, answer.prefix)

CreateOK ==
    /\ round \in 0 .. Len(mwPlacements) /\ Len(mwPlacements) <= MaxChecks
    /\ dealt \in Deals /\ answer.prefix \in LocationPrefixes
    /\ \A j \in DOMAIN checks : checks[j] \in DOMAIN placed =>
         \E i \in Ours : origin[i] = j
    /\ worldRows = {WorldRow(ResultPlacement(i)) : i \in 1 .. round}
    /\ \A p \in ownPlaces : \E i \in All : dealt[i] \in Ours /\ p = OwnRow(i)
    /\ \A row \in itemRows : \E i \in All :
         dealt[i] \in Ours /\ OwnRow(i) \notin ownPlaces /\ row = ItemRow(OwnRow(i))
    /\ \A row \in itemRows : row.source # NoNumber
    /\ \A i \in All : dealt[i] \in Ours =>
         OwnRow(i) \in ownPlaces \/ ItemRow(OwnRow(i)) \in itemRows

PlacementsInv ==
    /\ phase \in {"convert", "players", "create", "play", "refused", "failed"}
    /\ SeedOK /\ OriginOK
    /\ phase = "convert" => ConvertOK
    /\ phase \in {"players", "create", "play"} => CreateOK
    /\ phase = "play" => round = Len(mwPlacements) /\ ownPlaces = {}
    /\ CreateFailsOnlyFor
=============================================================================
