---------------------------- MODULE ItemExchange ----------------------------
(***************************************************************************)
(* What Isthmus promises to the players, without sessions, messages or     *)
(* handlers: which items it has taken charge of, which it has given, and   *)
(* what a kill may cost.  Play implements this module.                     *)
(*                                                                         *)
(* An item is named after its place, as in Savefile.                       *)
(***************************************************************************)
EXTENDS Integers, Sequences

CONSTANTS
    Theirs,     \* places in our world that hold other players' items
    Ours,       \* places that hold our items, in our world or in another
    Gift        \* the start inventory, a sequence

VARIABLES
    promised,   \* items of others that will reach the server
    taken,      \* those of them that the server has
    settled,    \* places of others' items that are never offered again
    log,        \* the items given to our client, in order
    done,       \* our items that are never given again
    lost,       \* our items that a kill made disappear
    forgotten,  \* our items that the server will not deliver again
    kills       \* how often the program was killed

outgoing == <<promised, taken, settled>>
incoming == <<log, done, lost, forgotten>>
exchange == <<outgoing, incoming, kills>>

Given == {log[i] : i \in DOMAIN log}

(* The log grows at its end. *)
LogGrows ==
    /\ Len(log) <= Len(log')
    /\ \A i \in DOMAIN log : log'[i] = log[i]
Fresh == {log'[i] : i \in (DOMAIN log') \ (DOMAIN log)}

Init ==
    /\ promised = {} /\ taken = {} /\ settled = {}
    /\ log = Gift /\ done = {} /\ lost = {} /\ forgotten = {}
    /\ kills = 0

(* Isthmus takes charge of items at places that are still offered. *)
Promise(S) ==
    /\ S \cap settled = {}
    /\ promised' = promised \cup S
    /\ UNCHANGED <<taken, settled, incoming, kills>>

(* The server gets an item: never one that nobody took charge of. *)
Take(l) ==
    /\ l \in promised
    /\ taken' = taken \cup {l}
    /\ UNCHANGED <<promised, settled, incoming, kills>>

(* Places are withdrawn, but only once their items are promised. *)
Settle(S) ==
    /\ S \subseteq promised
    /\ settled' = settled \cup S
    /\ UNCHANGED <<promised, taken, incoming, kills>>

(* The client is given items that are not done: for now ... *)
Give ==
    /\ LogGrows
    /\ Fresh \subseteq Ours \ done
    /\ UNCHANGED <<outgoing, done, lost, forgotten, kills>>

(* ... or for good. *)
GiveForGood ==
    /\ LogGrows
    /\ Fresh \subseteq Ours \ done
    /\ done' = done \cup Fresh
    /\ UNCHANGED <<outgoing, lost, forgotten, kills>>

(* Items that were given are done. *)
Finish(S) ==
    /\ S \subseteq Given
    /\ done' = done \cup S
    /\ UNCHANGED <<outgoing, log, lost, forgotten, kills>>

(* The server forgets items that were given, or lost. *)
Forget(S) ==
    /\ S \subseteq Given \cup lost
    /\ forgotten' = forgotten \cup S
    /\ UNCHANGED <<outgoing, log, done, lost, kills>>

(* A kill may cost items of ours, given or not, that are not done; it costs
   none of the others' items. *)
Kill(S) ==
    /\ S \cap done = {}
    /\ done' = done \cup S
    /\ lost' = lost \cup S
    /\ kills' = kills + 1
    /\ UNCHANGED <<outgoing, log, forgotten>>

Next ==
    \/ \E S \in SUBSET Theirs : Promise(S) \/ Settle(S)
    \/ \E l \in Theirs : Take(l)
    \/ Give \/ GiveForGood
    \/ \E S \in SUBSET Ours : Finish(S) \/ Forget(S) \/ Kill(S)

Spec == Init /\ [][Next]_exchange
=============================================================================
