------------------------------ MODULE Savefile ------------------------------
(***************************************************************************)
(* The persistent half of Isthmus (cmd/isthmus/savefile.go): the SQLite    *)
(* tables that change while a game is played, and the methods that read    *)
(* and write them.  Every writing method is one SQLite transaction, so one *)
(* of these operators is one commit.                                       *)
(*                                                                         *)
(* An item is named after the place it lies in.  The multiworld server     *)
(* makes item names unique (mw_own_item_placements and                     *)
(* mw_own_world_placements have them once each), so the row key            *)
(* (label, content, dest) of a table is that place.                        *)
(***************************************************************************)
EXTENDS Integers, Sequences, FiniteSets, SequencesExt

CONSTANTS
    OwnLoc,        \* our locations holding our own items, placed by the MW
    ForeignLoc,    \* our locations holding other players' items
    BareLoc,       \* our locations the MW did not place, but AP data has
    EmptyLoc,      \* our locations neither the MW nor the AP data knows
    Abroad,        \* our items that lie in other players' worlds
    Precollected   \* the start inventory, a sequence

Start == ToSet(Precollected)
Location == OwnLoc \cup ForeignLoc \cup BareLoc \cup EmptyLoc
(* What may appear in ap_sent_items. *)
OwnItem == OwnLoc \cup BareLoc \cup Abroad \cup Start

ASSUME PlacesAssumption ==
    /\ IsFiniteSet(Location)
    /\ IsFiniteSet(Abroad)
    /\ Precollected \in Seq(Start)
    /\ Location \cap (Abroad \cup Start) = {}
    /\ Abroad \cap Start = {}
    /\ OwnLoc \cap (ForeignLoc \cup BareLoc \cup EmptyLoc) = {}
    /\ ForeignLoc \cap (BareLoc \cup EmptyLoc) = {}
    /\ BareLoc \cap EmptyLoc = {}

VARIABLES
    cleared,       \* locations_cleared
    unconfirmed,   \* mw_unconfirmed_sent_items
    received,      \* mw_received_items
    sent           \* ap_sent_items, in item_index order

tables == <<cleared, unconfirmed, received, sent>>

TablesOK ==
    /\ cleared \subseteq Location
    /\ unconfirmed \subseteq ForeignLoc
    /\ received \subseteq Abroad
    /\ sent \in Seq(OwnItem)

-----------------------------------------------------------------------------
(* createSavefile: empty tables and the start inventory. *)

TablesInit ==
    /\ cleared = {}
    /\ unconfirmed = {}
    /\ received = {}
    /\ sent = Precollected

-----------------------------------------------------------------------------
(* Queries. *)

isLocationCleared(l) == l \in cleared

\* Mutant of hasReceivedItem.
NeverReceived(o) == FALSE
hasReceivedItem(o) == o \in received

(* The rows of mw_own_item_placements in other worlds that have no row in
   mw_received_items. *)
\* Mutant of getCollectablePlacements.
CollectableIgnoringReceived == Abroad
getCollectablePlacements == Abroad \ received

(* getOwnWorldPlacements, as !release filters it: another player's item at a
   location that is not cleared. *)
\* Mutant of Releasable.
ReleasableIgnoringCleared == ForeignLoc
Releasable == {l \in ForeignLoc : ~isLocationCleared(l)}

-----------------------------------------------------------------------------
(* Writes.  The two tables below have a primary key and a plain INSERT: a    *)
(* row that is there already makes the method return an error, the         *)
(* transaction is never committed, and the error ends the program.         *)

addUnconfirmedItems(L) ==
    /\ L \cap unconfirmed = {}
    /\ unconfirmed' = unconfirmed \cup L

clearLocations(L) ==
    /\ L \cap cleared = {}
    /\ cleared' = cleared \cup L

addReceivedItem(o) ==
    /\ o \notin received
    /\ received' = received \cup {o}

(* A DELETE; what it returns only decides about a log line. *)
\* Mutant of confirmItem.
ConfirmAll(l) == unconfirmed' = {}
confirmItem(l) == unconfirmed' = unconfirmed \ {l}

addSentItems(items) == sent' = sent \o items

(* The index addSentItems returns: the row number of the first inserted row
   less one, or -1 when there is no row to insert. *)
\* Mutant of SentIndex.
IndexFromOne(items) == IF items = <<>> THEN -1 ELSE Len(sent) + 1
SentIndex(items) == IF items = <<>> THEN -1 ELSE Len(sent)

=============================================================================
