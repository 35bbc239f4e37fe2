-------------------------------- MODULE Play --------------------------------
(***************************************************************************)
(* The playing phase of Isthmus (cmd/isthmus/play.go): one Archipelago     *)
(* client and one multiworld (MW) server connected through a main loop     *)
(* that handles a message at a time, with all that must outlive the        *)
(* process in the tables of Savefile.                                      *)
(*                                                                         *)
(* A handler is cut at each of its commits, because the process can be     *)
(* killed between two of them (pc names where a handler stands).  What a   *)
(* handler sends is attached to the commit it follows: a kill between the  *)
(* two is a message lost on a closing connection, which is modelled.       *)
(*                                                                         *)
(* The MW server and the AP client are external.  Messages in flight are   *)
(* sets of records, so they may overtake each other, which is more than    *)
(* the TCP streams allow; messages die with the connection.                *)
(***************************************************************************)
EXTENDS Savefile

CONSTANTS
    MaxCrashes,    \* bound: how often the process is killed
    MaxDrops,      \* bound: how often a connection is lost
    MaxCollects,   \* bound: how often the player says !collect
    MaxInbox,      \* bound: unread messages before the server sends items
    Modes,         \* the values of items_handling that clients connect with
    Batching,      \* whether the server sends DatasReceive messages
    AllowNil,      \* whether a client omits items_handling in Connect
    Chatter        \* whether the server sends messages about no item of ours

(* The bits of ItemHandlingMode that the code looks at. *)
ReceiveOthersItems == "others"
ReceiveOwnItems == "own"
ItemHandlingMode == {ReceiveOthersItems, ReceiveOwnItems}

ASSUME BoundsAssumption ==
    /\ MaxCrashes \in Nat
    /\ MaxDrops \in Nat
    /\ MaxCollects \in Nat
    /\ MaxInbox \in Nat
    /\ Modes \subseteq SUBSET ItemHandlingMode
    /\ Batching \in BOOLEAN
    /\ AllowNil \in BOOLEAN
    /\ Chatter \in BOOLEAN

Msg(type, items) == [type |-> type, items |-> items]

ToIsthmus == {"JoinConfirm", "DataReceive", "DatasReceive", "DataSendConfirm",
              "Unusable", "RequestCharms", "AnnounceCharms"}
ToServer == {"Join", "DataSend", "DataReceiveConfirm", "DatasReceiveConfirm",
             "Save", "OwnCharms", "ConfirmCharms"}

VARIABLES
    pc,            \* where the process is: see Control
    todo,          \* what the loop of the current handler has still to visit
    cur,           \* what the current handler is about to commit or confirm
    acc,           \* items: what DatasReceive has collected so far
    handling,      \* itemHandling
    mwIn, mwOut,   \* messages from and to the MW server
    joined,        \* server: it has accepted our Join on this connection
    found,         \* server: our items that other players have found
    acked,         \* server: those of them we have confirmed
    delivered,     \* server: items of others it has taken from us
    view,          \* client: the items this session gave it, in order
    crashes, drops, collects,  \* history: how often each has happened
    torn,          \* history: items a killed DatasReceive had marked received
    fault          \* history: why the program last ended by itself

server == <<joined, found, acked, delivered>>
link == <<mwIn, mwOut>>
local == <<todo, cur, acc>>
history == <<crashes, drops, collects, torn, fault>>
vars == <<tables, pc, local, handling, link, server, view, history>>

(***************************************************************************)
(* down:    the process does not run                                       *)
(* accept:  server.Accept, or the set-up of a session                      *)
(* loop:    the select of mainMessageLoop                                  *)
(* check:   in the loop of LocationChecks, before the next location        *)
(* clear:   LocationChecks, before clearLocations(cur)                     *)
(* receive: DataReceive, before addReceivedItem(cur)                       *)
(* batch:   in the loop of DatasReceive                                    *)
(* release: !release, before clearLocations(cur)                           *)
(***************************************************************************)
Control == {"down", "accept", "loop", "check", "clear", "receive", "batch",
            "release"}

Logged == ToSet(sent)

-----------------------------------------------------------------------------
(* The messages that go to the AP client, applied as its protocol demands:   *)
(* index 0 replaces the list, the next free index extends it, and any      *)
(* other index is refused (the client then asks for a Sync).               *)

ApplyReceived(v, index, items) ==
    IF index = 0 THEN items
    ELSE IF index = Len(v) THEN v \o items
    ELSE v

(* apconn.Send of the items just logged, if the client asked for them. *)
Forward(flag, items) ==
    view' = IF flag \in handling
            THEN ApplyReceived(view, SentIndex(items), items)
            ELSE view

(* conn.Send. *)
Send(M) == mwOut' = mwOut \cup M

(* A message from the MW server reaches the select. *)
Receive(m) == pc = "loop" /\ m \in mwIn /\ mwIn' = mwIn \ {m}

-----------------------------------------------------------------------------
(* Sessions: playMW and the frame of playMWWithConn. *)

(* What is gone when a session ends, in whichever way. *)
SessionGone ==
    /\ todo' = {} /\ cur' = {} /\ acc' = <<>>
    /\ handling' = {}
    /\ mwIn' = {} /\ mwOut' = {}
    /\ joined' = FALSE
    /\ view' = <<>>
    /\ UNCHANGED <<tables, found, acked, delivered, collects>>

(* The process ends; what DatasReceive held in memory is lost. *)
Die ==
    /\ pc' = "down"
    /\ SessionGone
    /\ torn' = torn \cup ToSet(acc)

(* A client connects, the savefile is opened, the MW server is dialled. *)
Accept ==
    /\ pc = "accept"
    /\ pc' = "loop"
    /\ UNCHANGED <<tables, local, handling, link, server, view, history>>

(* Dial fails: playMW returns the error and the program ends. *)
DialFails ==
    /\ pc = "accept" /\ drops < MaxDrops
    /\ drops' = drops + 1
    /\ Die
    /\ UNCHANGED <<crashes, fault>>

(* Either inbox reports its end: errConnectionLost, and playMW accepts again. *)
ConnectionLost ==
    /\ pc = "loop" /\ drops < MaxDrops
    /\ drops' = drops + 1
    /\ pc' = "accept"
    /\ SessionGone
    /\ UNCHANGED <<crashes, torn, fault>>

(* The process is killed: Control-C or a crash. *)
Crash ==
    /\ pc # "down" /\ crashes < MaxCrashes
    /\ crashes' = crashes + 1
    /\ Die
    /\ UNCHANGED <<drops, fault>>

(* The user runs the command again. *)
Restart ==
    /\ pc = "down"
    /\ pc' = "accept"
    /\ UNCHANGED <<tables, local, handling, link, server, view, history>>

(* An error other than errConnectionLost, or a panic. *)
Fail(why) ==
    /\ Die
    /\ fault' = why
    /\ UNCHANGED <<crashes, drops>>

-----------------------------------------------------------------------------
(* Messages from the AP client. *)

(* Connect: join the MW, and give the client the whole list of items. *)
Connect(f) ==
    /\ pc = "loop"
    /\ handling' = f
    /\ Send({Msg("Join", {})})
    /\ view' = ApplyReceived(view, 0, sent)
    /\ UNCHANGED <<tables, pc, local, mwIn, server, history>>

(* Connect without items_handling: a default is chosen, and then the nil
   pointer is followed all the same. *)
ConnectNil ==
    /\ pc = "loop" /\ AllowNil
    /\ Fail("panic")

(* LocationChecks: one round of its loop per location in the message. *)
LocationChecks(L) ==
    /\ pc = "loop" /\ L # {}
    /\ pc' = "check"
    /\ todo' = L
    /\ UNCHANGED <<tables, cur, acc, handling, link, server, view, history>>

(* Control after one round. *)
\* Mutant of NextRound.
CheckNeverEnds(T) == "check"
NextRound(T) == IF T = {} THEN "loop" ELSE "check"

(* Rounds that go on to the next location without clearing this one. *)
Skipped(l) ==
    \/ isLocationCleared(l)
    \/ l \in BareLoc /\ ReceiveOwnItems \notin handling
    \/ l \in EmptyLoc

CheckSkip(l) ==
    /\ pc = "check" /\ l \in todo
    /\ Skipped(l)
    /\ todo' = todo \ {l}
    /\ pc' = NextRound(todo')
    /\ UNCHANGED <<tables, cur, acc, handling, link, server, view, history>>

(* One of our own items: log it, show it to the client. *)
CheckOwn(l) ==
    /\ pc = "check" /\ l \in todo \cap (OwnLoc \cup BareLoc)
    /\ ~Skipped(l)
    /\ addSentItems(<<l>>)
    /\ Forward(ReceiveOwnItems, <<l>>)
    /\ pc' = "clear" /\ cur' = {l}
    /\ UNCHANGED <<cleared, unconfirmed, received, todo, acc, handling, link,
                   server, history>>

(* Another player's item: make sure it will be sent, and send it. *)
\* Mutant of CheckForeign.
CheckForeignSendOnly(l) ==
    /\ pc = "check" /\ l \in todo \cap ForeignLoc
    /\ ~Skipped(l)
    /\ Send({Msg("DataSend", {l})})
    /\ pc' = "clear" /\ cur' = {l}
    /\ UNCHANGED <<tables, todo, acc, handling, mwIn, server, view, history>>
CheckForeign(l) ==
    /\ pc = "check" /\ l \in todo \cap ForeignLoc
    /\ ~Skipped(l)
    /\ addUnconfirmedItems({l})
    /\ Send({Msg("DataSend", {l})})
    /\ pc' = "clear" /\ cur' = {l}
    /\ UNCHANGED <<cleared, received, sent, todo, acc, handling, mwIn, server,
                   view, history>>

CheckForeignFails(l) ==
    /\ pc = "check" /\ l \in todo \cap ForeignLoc
    /\ ~Skipped(l)
    /\ l \in unconfirmed
    /\ Fail("constraint")

(* The last statement of a round. *)
ClearChecked ==
    /\ pc = "clear"
    /\ clearLocations(cur)
    /\ todo' = todo \ cur /\ cur' = {}
    /\ pc' = NextRound(todo')
    /\ UNCHANGED <<unconfirmed, received, sent, acc, handling, link, server,
                   view, history>>

(* Say "!collect": log what other worlds still hold for us, and show it to
   the client whatever it asked for.  Nothing is marked as received. *)
Collect(items) ==
    /\ pc = "loop" /\ collects < MaxCollects
    /\ items \in SetToSeqs(getCollectablePlacements)
    /\ addSentItems(items)
    /\ view' = ApplyReceived(view, SentIndex(items), items)
    /\ collects' = collects + 1
    /\ UNCHANGED <<cleared, unconfirmed, received, pc, local, handling, link,
                   server, crashes, drops, torn, fault>>

(* Say "!release": first the queue of unconfirmed items ... *)
Release ==
    /\ pc = "loop"
    /\ addUnconfirmedItems(Releasable)
    /\ pc' = "release" /\ cur' = Releasable
    /\ UNCHANGED <<cleared, received, sent, todo, acc, handling, link, server,
                   view, history>>

ReleaseFails ==
    /\ pc = "loop"
    /\ Releasable \cap unconfirmed # {}
    /\ Fail("constraint")

(* ... then the locations, then the messages. *)
ReleaseClear ==
    /\ pc = "release"
    /\ clearLocations(cur)
    /\ Send({Msg("DataSend", {l}) : l \in cur})
    /\ pc' = "loop" /\ cur' = {}
    /\ UNCHANGED <<unconfirmed, received, sent, todo, acc, handling, mwIn,
                   server, view, history>>

(* Sync: the whole list again, for clients with remote items only. *)
Sync ==
    /\ pc = "loop"
    /\ ReceiveOwnItems \in handling
    /\ view' = ApplyReceived(view, 0, sent)
    /\ UNCHANGED <<tables, pc, local, handling, link, server, history>>

-----------------------------------------------------------------------------
(* Messages from the MW server. *)

(* JoinConfirm: send again everything the server has not confirmed. *)
\* Mutant of Resend.
ResendNothing == {}
Resend == {Msg("DataSend", {l}) : l \in unconfirmed}

HandleJoinConfirm ==
    /\ Receive(Msg("JoinConfirm", {}))
    /\ Send(Resend)
    /\ UNCHANGED <<tables, pc, local, handling, server, view, history>>

(* DataReceive of an item that is new: logged, shown, confirmed, and only
   then marked as received. *)
\* Mutant of HandleDataReceive.
DataReceiveUnconfirmed(o) ==
    /\ Receive(Msg("DataReceive", {o}))
    /\ ~hasReceivedItem(o)
    /\ addSentItems(<<o>>)
    /\ Forward(ReceiveOthersItems, <<o>>)
    /\ pc' = "receive" /\ cur' = {o}
    /\ UNCHANGED <<cleared, unconfirmed, received, todo, acc, handling, mwOut,
                   server, history>>
HandleDataReceive(o) ==
    /\ Receive(Msg("DataReceive", {o}))
    /\ ~hasReceivedItem(o)
    /\ addSentItems(<<o>>)
    /\ Forward(ReceiveOthersItems, <<o>>)
    /\ Send({Msg("DataReceiveConfirm", {o})})
    /\ pc' = "receive" /\ cur' = {o}
    /\ UNCHANGED <<cleared, unconfirmed, received, todo, acc, handling, server,
                   history>>

(* DataReceive of an item that was received before: not even confirmed. *)
HandleDuplicate(o) ==
    /\ Receive(Msg("DataReceive", {o}))
    /\ hasReceivedItem(o)
    /\ UNCHANGED <<tables, pc, local, handling, mwOut, server, view, history>>

\* Mutant of MarkReceived.
MarkNothing ==
    /\ pc = "receive"
    /\ pc' = "loop" /\ cur' = {}
    /\ Send({Msg("Save", {})})
    /\ UNCHANGED <<tables, todo, acc, handling, mwIn, server, view, history>>
MarkReceived ==
    /\ pc = "receive"
    /\ \E o \in cur : addReceivedItem(o)
    /\ Send({Msg("Save", {})})
    /\ pc' = "loop" /\ cur' = {}
    /\ UNCHANGED <<cleared, unconfirmed, sent, todo, acc, handling, mwIn,
                   server, view, history>>

(* DatasReceive, item by item: each new one is marked as received ... *)
\* Mutant of HandleDatasReceive.
ConfirmBatchFirst(S) ==
    /\ Receive(Msg("DatasReceive", S))
    /\ Send({Msg("DatasReceiveConfirm", S)})
    /\ pc' = "batch" /\ todo' = S /\ cur' = S
    /\ UNCHANGED <<tables, acc, handling, server, view, history>>
HandleDatasReceive(S) ==
    /\ Receive(Msg("DatasReceive", S))
    /\ pc' = "batch" /\ todo' = S /\ cur' = S
    /\ UNCHANGED <<tables, acc, handling, mwOut, server, view, history>>

BatchSkip(o) ==
    /\ pc = "batch" /\ o \in todo
    /\ hasReceivedItem(o)
    /\ todo' = todo \ {o}
    /\ UNCHANGED <<tables, pc, cur, acc, handling, link, server, view, history>>

\* Mutant of BatchItem.
BatchMarkOnly(o) ==
    /\ pc = "batch" /\ o \in todo
    /\ ~hasReceivedItem(o)
    /\ addReceivedItem(o)
    /\ todo' = todo \ {o}
    /\ UNCHANGED <<cleared, unconfirmed, sent, pc, cur, acc, handling, link,
                   server, view, history>>
BatchItem(o) ==
    /\ pc = "batch" /\ o \in todo
    /\ ~hasReceivedItem(o)
    /\ acc' = Append(acc, o)
    /\ addReceivedItem(o)
    /\ todo' = todo \ {o}
    /\ UNCHANGED <<cleared, unconfirmed, sent, pc, cur, handling, link, server,
                   view, history>>

(* ... and then all the new ones are logged, shown and confirmed at once. *)
BatchCommit ==
    /\ pc = "batch" /\ todo = {}
    /\ addSentItems(acc)
    /\ Forward(ReceiveOthersItems, acc)
    /\ Send({Msg("DatasReceiveConfirm", cur), Msg("Save", {})})
    /\ pc' = "loop" /\ cur' = {} /\ acc' = <<>>
    /\ UNCHANGED <<cleared, unconfirmed, received, todo, handling, mwIn, server,
                   history>>

(* DataSendConfirm: the server has the item, so it leaves the queue. *)
HandleDataSendConfirm(l) ==
    /\ Receive(Msg("DataSendConfirm", {l}))
    /\ confirmItem(l)
    /\ UNCHANGED <<cleared, received, sent, pc, local, handling, mwOut, server,
                   view, history>>

(* Messages about no item: an unknown label or sender, and charm costs. *)
Reply(type) ==
    CASE type = "RequestCharms" -> {Msg("OwnCharms", {})}
      [] type = "AnnounceCharms" -> {Msg("ConfirmCharms", {})}
      [] OTHER -> {}

HandleChatter(type) ==
    /\ Receive(Msg(type, {}))
    /\ Send(Reply(type))
    /\ UNCHANGED <<tables, pc, local, handling, server, view, history>>

-----------------------------------------------------------------------------
(* The MW server, as far as play.go depends on it. *)

Arrive(m) == m \in mwOut /\ mwOut' = mwOut \ {m}
Tell(M) == mwIn' = mwIn \cup M
Alive == pc \notin {"down", "accept"}

isthmus == <<tables, pc, local, handling, view, history>>

SrvJoin ==
    /\ Arrive(Msg("Join", {}))
    /\ joined' = TRUE
    /\ Tell({Msg("JoinConfirm", {})})
    /\ UNCHANGED <<isthmus, found, acked, delivered>>

(* An item for another player; one sent before Join is ignored. *)
SrvTakeItem(l) ==
    /\ joined
    /\ Arrive(Msg("DataSend", {l}))
    /\ delivered' = delivered \cup {l}
    /\ Tell({Msg("DataSendConfirm", {l})})
    /\ UNCHANGED <<isthmus, joined, found, acked>>

SrvIgnoreItem(l) ==
    /\ ~joined
    /\ Arrive(Msg("DataSend", {l}))
    /\ UNCHANGED <<isthmus, mwIn, server>>

(* Another player finds one of our items. *)
SrvFind(o) ==
    /\ o \notin found
    /\ found' = found \cup {o}
    /\ UNCHANGED <<isthmus, link, joined, acked, delivered>>

(* What we have not confirmed is delivered again, alone or in a batch. *)
SrvDeliver(o) ==
    /\ joined /\ o \in found \ acked
    /\ Cardinality(mwIn) < MaxInbox
    /\ Tell({Msg("DataReceive", {o})})
    /\ UNCHANGED <<isthmus, mwOut, server>>

SrvDeliverBatch(S) ==
    /\ Batching /\ joined
    /\ S # {} /\ S \subseteq found \ acked
    /\ Cardinality(mwIn) < MaxInbox
    /\ Tell({Msg("DatasReceive", S)})
    /\ UNCHANGED <<isthmus, mwOut, server>>

SrvTakeConfirm(type, S) ==
    /\ Arrive(Msg(type, S))
    /\ acked' = acked \cup S
    /\ UNCHANGED <<isthmus, mwIn, joined, found, delivered>>

(* Save and the answers about charms ask for nothing in return. *)
SrvAbsorb(type) ==
    /\ Arrive(Msg(type, {}))
    /\ UNCHANGED <<isthmus, mwIn, server>>

SrvChat(type) ==
    /\ Chatter /\ Alive
    /\ Cardinality(mwIn) < MaxInbox
    /\ Tell({Msg(type, {})})
    /\ UNCHANGED <<isthmus, mwOut, server>>

-----------------------------------------------------------------------------
Init ==
    /\ TablesInit
    /\ pc = "accept"
    /\ todo = {} /\ cur = {} /\ acc = <<>>
    /\ handling = {}
    /\ mwIn = {} /\ mwOut = {}
    /\ joined = FALSE
    /\ found = {} /\ acked = {} /\ delivered = {}
    /\ view = <<>>
    /\ crashes = 0 /\ drops = 0 /\ collects = 0
    /\ torn = {} /\ fault = "none"

Silent == {"Save", "OwnCharms", "ConfirmCharms"}
Talk == {"Unusable", "RequestCharms", "AnnounceCharms"}

SessionStep ==
    Accept \/ DialFails \/ ConnectionLost \/ Crash \/ Restart

ClientStep ==
    \/ \E f \in Modes : Connect(f)
    \/ ConnectNil
    \/ \E L \in SUBSET Location : LocationChecks(L)
    \/ \E items \in SetToSeqs(getCollectablePlacements) : Collect(items)
    \/ Release
    \/ ReleaseFails
    \/ Sync

HandlerStep ==
    \/ \E l \in Location :
         CheckSkip(l) \/ CheckOwn(l) \/ CheckForeign(l) \/ CheckForeignFails(l)
    \/ ClearChecked
    \/ ReleaseClear
    \/ MarkReceived
    \/ \E o \in Abroad : BatchSkip(o) \/ BatchItem(o)
    \/ BatchCommit

InboxStep ==
    \/ HandleJoinConfirm
    \/ \E o \in Abroad : HandleDataReceive(o) \/ HandleDuplicate(o)
    \/ \E S \in SUBSET Abroad : HandleDatasReceive(S)
    \/ \E l \in ForeignLoc : HandleDataSendConfirm(l)
    \/ \E type \in Talk : HandleChatter(type)

ServerStep ==
    \/ SrvJoin
    \/ \E l \in ForeignLoc : SrvTakeItem(l) \/ SrvIgnoreItem(l)
    \/ \E o \in Abroad : SrvFind(o) \/ SrvDeliver(o)
    \/ \E S \in SUBSET Abroad : SrvDeliverBatch(S)
    \/ \E type \in {"DataReceiveConfirm", "DatasReceiveConfirm"},
          S \in SUBSET Abroad : SrvTakeConfirm(type, S)
    \/ \E type \in Silent : SrvAbsorb(type)
    \/ \E type \in Talk : SrvChat(type)

Next == SessionStep \/ ClientStep \/ HandlerStep \/ InboxStep \/ ServerStep

Spec == Init /\ [][Next]_vars

(***************************************************************************)
(* Fairness.  A goroutine that can run does run, so a handler goes on (WF) *)
(* and a waiting client is accepted (WF).  The select picks at random      *)
(* among the inboxes that are ready, so a waiting message is handled even  *)
(* if the other inbox never rests (SF).  The user restarts a program that  *)
(* ended, the client says Connect, and the server answers what reaches it: *)
(* the rest of the system is assumed to work, and MaxDrops makes the       *)
(* connections stay up in the end.  (SrvDeliver is SF because MaxInbox,    *)
(* which no real server knows, can disable it for a while.)                *)
(***************************************************************************)
Fairness ==
    /\ WF_vars(Restart)
    /\ WF_vars(Accept)
    /\ WF_vars(HandlerStep)
    /\ SF_vars(~joined /\ \E f \in Modes : Connect(f))
    /\ SF_vars(HandleJoinConfirm)
    /\ \A o \in Abroad : SF_vars(HandleDataReceive(o) \/ HandleDuplicate(o))
    /\ \A S \in SUBSET Abroad : SF_vars(HandleDatasReceive(S))
    /\ SF_vars(\E type \in Talk : HandleChatter(type))
    /\ \A l \in ForeignLoc : SF_vars(HandleDataSendConfirm(l))
    /\ WF_vars(SrvJoin)
    /\ \A l \in ForeignLoc : WF_vars(SrvTakeItem(l))
    /\ \A o \in Abroad : SF_vars(SrvDeliver(o))
    /\ \A S \in SUBSET Abroad :
         /\ WF_vars(SrvTakeConfirm("DataReceiveConfirm", S))
         /\ WF_vars(SrvTakeConfirm("DatasReceiveConfirm", S))

FairSpec == Spec /\ Fairness

-----------------------------------------------------------------------------
(* Properties. *)

(* How often x is in the log of items given to the client. *)
Copies(x) == Cardinality({i \in DOMAIN sent : sent[i] = x})

LocalsOK ==
    /\ pc \in Control
    /\ todo \subseteq Location \cup Abroad
    /\ cur \subseteq Location \cup Abroad
    /\ acc \in Seq(Abroad)
    /\ handling \subseteq ItemHandlingMode
    /\ view \in Seq(OwnItem)

InMsg == [type : ToIsthmus, items : SUBSET (ForeignLoc \cup Abroad)]
OutMsg == [type : ToServer, items : SUBSET (ForeignLoc \cup Abroad)]

LinkOK == mwIn \subseteq InMsg /\ mwOut \subseteq OutMsg

ServerOK ==
    /\ joined \in BOOLEAN
    /\ found \subseteq Abroad
    /\ acked \subseteq Abroad
    /\ delivered \subseteq ForeignLoc

HistoryOK ==
    /\ crashes \in Nat /\ drops \in Nat /\ collects \in Nat
    /\ torn \subseteq Abroad
    /\ fault \in {"none", "constraint", "panic"}

(* A handler leaves nothing behind when it returns to the select, and a session
   leaves nothing behind when it ends. *)
ControlOK ==
    /\ pc \in {"down", "accept"} => mwIn = {} /\ mwOut = {} /\ ~joined
    /\ pc \in {"down", "accept", "loop", "check"} => cur = {}
    /\ pc = "clear" => cur \subseteq Location
    /\ pc = "release" => cur \subseteq ForeignLoc
    /\ pc \in {"receive", "batch"} => cur \subseteq Abroad
    /\ pc \in {"down", "accept", "loop", "receive", "release"} => todo = {}
    /\ pc = "check" => todo # {}
    /\ pc # "batch" => acc = <<>>

(* The variables have their types, and the locals of a handler and the messages
   of a session are there only while it lasts. *)
TypeOK ==
    TablesOK /\ LocalsOK /\ LinkOK /\ ServerOK /\ HistoryOK /\ ControlOK

(* An item of another player whose location is cleared (so that the game will
   never offer it again) is with the server or still in the queue that
   JoinConfirm sends again, through crashes, lost connections and !release. *)
NoSentItemLost ==
    cleared \cap ForeignLoc \subseteq unconfirmed \cup delivered

(* An item the server may forget, because we confirmed it, is in the log the
   client gets on every Connect, unless a kill cut a DatasReceive short. *)
ConfirmedItemLogged == acked \subseteq Logged \cup torn

(* The same without the exception: what "re-run the same command" after a
   crash would need. *)
EveryConfirmedItemLogged == acked \subseteq Logged

(* Once our item is marked as received, or our location is cleared, no message
   in any order (a repeated delivery, a batch, !collect, a second check) puts
   another copy of it in the log.  The batch being handled marks first and
   logs afterwards. *)
SettledOnce ==
    [][\A x \in (received \cup cleared) \ ToSet(acc) : Copies(x)' = Copies(x)]_vars

(* Each surplus copy in the log is paid for by a kill or by a !collect. *)
SurplusBounded ==
    \A x \in OwnLoc \cup BareLoc \cup Abroad :
        Copies(x) <= 1 + crashes + collects

(* The client that takes remote items (the kind the README asks for) holds
   exactly the log, in its order, at every moment of its session: the indices
   sent with ReceivedItems fit what it was sent before. *)
RemoteClientInSync == handling = ItemHandlingMode => view = sent

(* No sequence of legal messages makes an INSERT hit a primary key: only a
   kill between two commits of a handler can prepare that. *)
ConstraintOnlyAfterCrash == fault = "constraint" => crashes > 0

(* Every queued item is confirmed in the end, although confirmations and whole
   connections get lost. *)
QueueDrains == \A l \in ForeignLoc : (l \in unconfirmed) ~> (l \notin unconfirmed)

(* Every item of ours that somebody finds is given to our client. *)
FoundItemLogged == \A o \in Abroad : (o \in found) ~> (o \in Logged)

(* A session has just ended after o had been marked as received and before its
   confirmation reached the server. *)
CutOff(o) == pc \in {"down", "accept"} /\ o \in received \ acked

(* Every item of ours that somebody finds is confirmed in the end, so that the
   server can stop delivering it, unless the connection is lost while its
   confirmation is under way: the item is marked as received by then, so that
   its next DataReceive is taken for a duplicate, which the code does not
   confirm.  A connection lost before the item is marked excuses nothing. *)
FoundItemConfirmed ==
    \A o \in Abroad : <>CutOff(o) \/ ((o \in found) ~> (o \in acked))

-----------------------------------------------------------------------------
(* What all of this is for.  An item of another player is promised once it is *)
(* queued, and stays so when the server has it; an item of ours is done when *)
(* its row is written, except that DatasReceive writes the row before the    *)
(* item is logged.                                                          *)

Exchange == INSTANCE ItemExchange WITH
    Theirs <- ForeignLoc,
    Ours <- OwnLoc \cup BareLoc \cup Abroad,
    Gift <- Precollected,
    promised <- unconfirmed \cup delivered,
    taken <- delivered,
    settled <- cleared \cap ForeignLoc,
    log <- sent,
    done <- (received \ ToSet(acc)) \cup (cleared \ ForeignLoc),
    lost <- torn,
    forgotten <- acked,
    kills <- crashes

(* The playing phase, commit by commit and message by message, is an exchange
   of items that keeps its promises: a location of another player is withdrawn
   only when its item is safe, a promise is never taken back (although rows
   leave the queue), nothing that is done is given again, the server forgets
   only what was given, and only a kill loses items, none of them another
   player's. *)
ImplementsItemExchange == Exchange!Spec

-----------------------------------------------------------------------------
(* The inductive invariants behind the properties: what a handler between two *)
(* commits, and a message in flight, owe to the tables.                     *)

(* Behind NoSentItemLost: a location about to be cleared is queued already,
   and a confirmation in flight is about an item the server has. *)
SendInv ==
    /\ NoSentItemLost
    /\ pc \in {"clear", "release"} =>
         cur \cap ForeignLoc \subseteq unconfirmed \cup delivered
    /\ \A l \in ForeignLoc : Msg("DataSendConfirm", {l}) \in mwIn => l \in delivered

(* Behind ConfirmedItemLogged: the same for our items, on their way from the
   inbox through the two tables to the confirmation. *)
ReceiveInv ==
    /\ ConfirmedItemLogged
    /\ received \subseteq Logged \cup torn \cup ToSet(acc)
    /\ pc = "receive" => cur \subseteq Logged
    /\ pc = "batch" => cur \ todo \subseteq received
    /\ \A S \in SUBSET Abroad :
         /\ Msg("DataReceiveConfirm", S) \in mwOut => S \subseteq Logged \cup torn
         /\ Msg("DatasReceiveConfirm", S) \in mwOut => S \subseteq Logged \cup torn

(* Behind ConstraintOnlyAfterCrash: without a kill the queue holds nothing but
   cleared locations and the ones about to be; and with or without one, what
   clearLocations and addReceivedItem are about to insert is not there, so
   that their errors cannot happen. *)
KeysInv ==
    /\ ConstraintOnlyAfterCrash
    /\ crashes = 0 => unconfirmed \subseteq cleared \cup
                         (IF pc \in {"clear", "release"} THEN cur ELSE {})
    /\ pc \in {"clear", "release"} => cur \cap cleared = {}
    /\ pc = "receive" => cur \cap received = {}

(* Behind ImplementsItemExchange, besides SendInv and ReceiveInv: the batch at
   hand consists of rows that are written; LocationChecks clears one location
   at a time, and not before its item is queued or logged; and a DataSend in
   flight is about an item Isthmus has taken charge of. *)
ExchangeInv ==
    /\ ToSet(acc) \subseteq received
    /\ pc = "clear" => \E l \in ForeignLoc \cup ((OwnLoc \cup BareLoc) \cap Logged) :
                          cur = {l}
    /\ \A l \in ForeignLoc :
         Msg("DataSend", {l}) \in mwOut => l \in unconfirmed \cup delivered

(* An item whose one copy in the log is accounted for: its row is written, or
   will be by the handler that has just logged it. *)
AccountedFor ==
    cleared \cup received \cup (IF pc \in {"clear", "receive"} THEN cur ELSE {})

(* Behind SurplusBounded: a copy that is not accounted for was paid for by a
   kill or a !collect, and the copies that a batch is about to log are counted
   as soon as their rows are written.  DataReceive writes one row. *)
SurplusInv ==
    /\ ToSet(acc) \subseteq received
    /\ IsInjective(acc)
    /\ pc = "receive" => \E o \in Abroad : cur = {o}
    /\ \A x \in OwnLoc \cup BareLoc \cup Abroad :
         Copies(x) + (IF x \in ToSet(acc) THEN 1 ELSE 0)
           <= crashes + collects + (IF x \in AccountedFor THEN 1 ELSE 0)
=============================================================================
