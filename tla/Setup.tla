------------------------------- MODULE Setup -------------------------------
(***************************************************************************)
(* From the command line to the first game session: serve (main.go), which *)
(* plays if the savefile exists and sets a game up if not; setupMW         *)
(* (setup.go), the dialogue with the MW server; createSavefile             *)
(* (savefile.go), which creates the tables one by one, each in a           *)
(* transaction of its own, and then fills them in one transaction; and     *)
(* what the first session asks of the savefile before it plays on it.      *)
(*                                                                         *)
(* The MW server and the other players are external.                       *)
(***************************************************************************)
EXTENDS Integers, Sequences

CONSTANTS
    MaxCrashes,    \* bound: how often the process is killed
    MaxLosses,     \* bound: how often the MW connection ends
    MaxPlayers,    \* bound: players that join the room after us
    BadNames,      \* whether the result may hold a name that does not parse
    MayDeny        \* whether the server may deny entry to the room

ASSUME SetupAssumption ==
    /\ MaxCrashes \in Nat /\ MaxLosses \in Nat /\ MaxPlayers \in Nat
    /\ BadNames \in BOOLEAN /\ MayDeny \in BOOLEAN

VARIABLES
    proc,          \* where the process is: see Control
    exists,        \* whether there is a file for the savefile
    tables, rows,  \* how much of Schema and of Filled is in it
    inserted,      \* how much of Filled the open transaction has inserted
    toUs, toServer,\* the streams of the MW connection
    stage,         \* server: how far it has come with us
    players,       \* server: players that joined after us
    crashes, losses

saved == <<exists, tables, rows>>
setupVars ==
    <<proc, saved, inserted, toUs, toServer, stage, players, crashes, losses>>

(* The tables, in the order in which createSavefile creates them, and the ones
   it puts rows into, in the order in which it does. *)
Schema ==
    <<"locations_cleared", "mw_unconfirmed_sent_items", "mw_received_items",
      "ap_sent_items", "ap_data_storage", "mw_players", "mw_global_data",
      "mw_own_world_placements", "mw_own_item_placements">>
Filled ==
    <<"mw_players", "mw_global_data", "mw_own_world_placements",
      "mw_own_item_placements", "ap_sent_items">>

Complete == tables = Len(Schema) /\ rows = Len(Filled)

(***************************************************************************)
(* off:     not running         stat:   serve, at os.Stat                  *)
(* greet, room, start, result:  setupMW, waiting for Connect, ReadyConfirm,*)
(*          RequestRando and Result                                        *)
(* create, insert:              createSavefile, before and after the schema*)
(* open:    playMW, up to the main loop of the first session               *)
(* play:    a session                                                      *)
(***************************************************************************)
Waiting == {"greet", "room", "start", "result"}
Control == Waiting \cup {"off", "stat", "create", "insert", "open", "play"}

-----------------------------------------------------------------------------
(* The savefile, as a session finds it. *)

(* The tables of the statements of openSavefile, getNicknames and
   getConnectionParams. *)
Prepared ==
    {"locations_cleared", "ap_sent_items", "mw_unconfirmed_sent_items",
     "mw_received_items", "ap_data_storage", "mw_own_item_placements",
     "mw_own_world_placements", "mw_players", "mw_global_data"}

Prepares == \A name \in Prepared : \E i \in 1 .. tables : Schema[i] = name

(* getConnectionParams finds its row. *)
HasParams == \E i \in 1 .. rows : Filled[i] = "mw_global_data"

-----------------------------------------------------------------------------
(* The process. *)

Quit ==
    /\ proc' = "off"
    /\ inserted' = 0
    /\ toUs' = <<>> /\ toServer' = <<>>
    /\ stage' = "none" /\ players' = 0

Run ==
    /\ proc = "off"
    /\ proc' = "stat"
    /\ UNCHANGED <<saved, inserted, toUs, toServer, stage, players, crashes, losses>>

Stat ==
    /\ proc = "stat"
    /\ IF exists
       THEN proc' = "open" /\ UNCHANGED toServer
       ELSE proc' = "greet" /\ toServer' = <<"Connect">>
    /\ UNCHANGED <<saved, inserted, toUs, stage, players, crashes, losses>>

Crash ==
    /\ proc # "off" /\ crashes < MaxCrashes
    /\ crashes' = crashes + 1
    /\ Quit
    /\ UNCHANGED <<saved, losses>>

(* mwproto.Dial fails, in setupMW or in playMWWithConn. *)
DialFails ==
    /\ proc \in {"stat", "open"} /\ losses < MaxLosses
    /\ exists <=> proc = "open"
    /\ proc = "open" => Prepares
    /\ losses' = losses + 1
    /\ Quit
    /\ UNCHANGED <<saved, crashes>>

(* The inbox ends: errConnectionLost, which serve passes on to main. *)
ConnectionLost ==
    /\ proc \in Waiting /\ losses < MaxLosses
    /\ losses' = losses + 1
    /\ Quit
    /\ UNCHANGED <<saved, crashes>>

-----------------------------------------------------------------------------
(* setupMW.  What each of its four loops does with a message: go on and answer,
   give up, or go round again. *)

Expected ==
    [greet |-> "Connect", room |-> "ReadyConfirm",
     start |-> "RequestRando", result |-> "Result"]
Following ==
    [greet |-> "room", room |-> "start", start |-> "result", result |-> "create"]
\* Mutant of AnswerTo.
AnswerTwice ==
    [greet |-> <<"Ready">>, room |-> <<"RandoGenerated">>,
     start |-> <<"RandoGenerated">>, result |-> <<>>]
\* Mutant of AnswerTo.
NoAnswer ==
    [greet |-> <<>>, room |-> <<>>,
     start |-> <<"RandoGenerated">>, result |-> <<>>]
AnswerTo ==
    [greet |-> <<"Ready">>, room |-> <<>>,
     start |-> <<"RandoGenerated">>, result |-> <<>>]

Advance ==
    /\ proc \in Waiting /\ toUs # <<>> /\ Head(toUs) = Expected[proc]
    /\ toUs' = Tail(toUs)
    /\ toServer' = toServer \o AnswerTo[proc]
    /\ proc' = Following[proc]
    /\ UNCHANGED <<saved, inserted, stage, players, crashes, losses>>

(* Everything else is logged; ReadyDeny does not even get here, because
   mwproto.Read has no case for it. *)
Ignore ==
    /\ proc \in Waiting /\ toUs # <<>> /\ Head(toUs) # Expected[proc]
    /\ ~(Head(toUs) = "Disconnect" /\ proc # "greet")
    /\ toUs' = Tail(toUs)
    /\ UNCHANGED <<proc, saved, inserted, toServer, stage, players, crashes, losses>>

Disconnected ==
    /\ proc \in Waiting \ {"greet"} /\ toUs # <<>> /\ Head(toUs) = "Disconnect"
    /\ Quit
    /\ UNCHANGED <<saved, crashes, losses>>

-----------------------------------------------------------------------------
(* createSavefile. *)

CreateFile ==
    /\ proc = "create" /\ ~exists
    /\ exists' = TRUE
    /\ UNCHANGED <<proc, tables, rows, inserted, toUs, toServer, stage, players,
                   crashes, losses>>

CreateTable ==
    /\ proc = "create" /\ exists /\ tables < Len(Schema)
    /\ tables' = tables + 1
    /\ proc' = IF tables' = Len(Schema) THEN "insert" ELSE "create"
    /\ UNCHANGED <<exists, rows, inserted, toUs, toServer, stage, players, crashes,
                   losses>>

(* All the rows of a table, in the transaction that the schema has begun. *)
\* Mutant of Insert.
InsertAtOnce ==
    /\ proc = "insert" /\ inserted < Len(Filled)
    /\ inserted' = inserted + 1 /\ rows' = inserted'
    /\ UNCHANGED <<proc, exists, tables, toUs, toServer, stage, players, crashes,
                   losses>>
Insert ==
    /\ proc = "insert" /\ inserted < Len(Filled)
    /\ inserted' = inserted + 1
    /\ UNCHANGED <<proc, saved, toUs, toServer, stage, players, crashes, losses>>

(* A name that does not parse, or a row that a key refuses: the transaction is
   left, the tables stay. *)
InsertFails ==
    /\ proc = "insert" /\ BadNames /\ inserted < Len(Filled)
    /\ Quit
    /\ UNCHANGED <<saved, crashes, losses>>

Commit ==
    /\ proc = "insert" /\ inserted = Len(Filled)
    /\ rows' = inserted /\ inserted' = 0
    /\ proc' = "open"
    /\ toUs' = <<>> /\ toServer' = <<>> /\ stage' = "none" /\ players' = 0
    /\ UNCHANGED <<exists, tables, crashes, losses>>

-----------------------------------------------------------------------------
(* playMWWithConn up to its main loop: openSavefile prepares statements, which
   panics on a table that is missing, and getConnectionParams wants one row. *)

Open ==
    /\ proc = "open" /\ Prepares /\ HasParams
    /\ proc' = "play"
    /\ UNCHANGED <<saved, inserted, toUs, toServer, stage, players, crashes,
                   losses>>

PreparePanics ==
    /\ proc = "open" /\ ~Prepares
    /\ Quit
    /\ UNCHANGED <<saved, crashes, losses>>

NoParams ==
    /\ proc = "open" /\ Prepares /\ ~HasParams
    /\ Quit
    /\ UNCHANGED <<saved, crashes, losses>>

-----------------------------------------------------------------------------
(* The server, which answers each connection in this order. *)

Serve(from, heard, said, to) ==
    /\ stage = from /\ toServer # <<>> /\ Head(toServer) = heard
    /\ toServer' = Tail(toServer)
    /\ toUs' = Append(toUs, said)
    /\ stage' = to
    /\ UNCHANGED <<proc, saved, inserted, players, crashes, losses>>

SrvConnect == Serve("none", "Connect", "Connect", "greeted")
SrvReady == Serve("greeted", "Ready", "ReadyConfirm", "ready")
SrvDeny == MayDeny /\ Serve("greeted", "Ready", "ReadyDeny", "denied")
SrvResult == Serve("started", "RandoGenerated", "Result", "finished")

Announce(said, to) ==
    /\ toUs' = Append(toUs, said)
    /\ stage' = to
    /\ UNCHANGED <<proc, saved, inserted, toServer, crashes, losses>>

SrvJoin ==
    /\ stage = "ready" /\ players < MaxPlayers
    /\ players' = players + 1
    /\ Announce("ReadyConfirm", "ready")

SrvStart ==
    /\ stage = "ready"
    /\ Announce("RequestRando", "started")
    /\ UNCHANGED players

SrvDisconnect ==
    /\ stage \in {"ready", "denied", "started"} /\ losses < MaxLosses
    /\ losses' = losses + 1
    /\ toUs' = Append(toUs, "Disconnect") /\ stage' = "gone"
    /\ UNCHANGED <<proc, saved, inserted, toServer, players, crashes>>

-----------------------------------------------------------------------------
SetupInit ==
    /\ proc = "off"
    /\ exists = FALSE /\ tables = 0 /\ rows = 0 /\ inserted = 0
    /\ toUs = <<>> /\ toServer = <<>> /\ stage = "none" /\ players = 0
    /\ crashes = 0 /\ losses = 0

ProcessStep ==
    \/ Stat \/ Advance \/ Ignore \/ Disconnected
    \/ CreateFile \/ CreateTable \/ Insert \/ InsertFails \/ Commit
    \/ Open \/ PreparePanics \/ NoParams

RoomStep == SrvConnect \/ SrvReady \/ SrvDeny \/ SrvResult \/ SrvStart

SetupNext ==
    \/ Run \/ Crash \/ DialFails \/ ConnectionLost
    \/ ProcessStep
    \/ RoomStep \/ SrvJoin \/ SrvDisconnect

SetupSpec == SetupInit /\ [][SetupNext]_setupVars

(* The user runs the command whenever it is not running; the process goes on;
   the server answers, and somebody starts the game. *)
SetupFairSpec ==
    /\ SetupSpec
    /\ WF_setupVars(Run) /\ WF_setupVars(ProcessStep) /\ WF_setupVars(RoomStep)

-----------------------------------------------------------------------------
(* Properties. *)

(* No session is ever played on a savefile that is missing tables or rows,
   wherever createSavefile was when the process was killed or a row refused:
   the one row that a session looks for is there only together with all the
   others. *)
PlaysOnComplete == proc = "play" => Complete

(* Our placements go out at most once per connection, and only after the server
   has asked for them: players that join do not trigger them. *)
PlacementsOnRequest ==
    \A i \in DOMAIN toServer : toServer[i] = "RandoGenerated" =>
        stage \in {"started", "gone"} /\ proc \in {"result", "create", "insert"}

(* A savefile was left half-made, or the server has denied entry, which nobody
   here notices. *)
Stranded ==
    \/ exists /\ ~Complete /\ proc \in {"off", "stat", "open"}
    \/ stage = "denied" /\ proc = "room"

(* Once the command is run, running it again and again ends in a session
   (through kills, also of earlier sessions, lost connections, and players that
   join before the game starts), unless it is stranded for good in one of the
   two ways. *)
SetupFinishes == ((proc # "off") ~> (proc = "play")) \/ <>[]Stranded

(* "Simply re-run the same command": a savefile left by a process that ended is
   absent or complete, so that the next run can go on. *)
RerunGoesOn == proc = "off" => ~exists \/ Complete

-----------------------------------------------------------------------------
(* The inductive invariants. *)

(* Behind PlaysOnComplete: rows come all at once, after all the tables. *)
FileInv ==
    /\ PlaysOnComplete
    /\ tables \in 0 .. Len(Schema) /\ inserted \in Nat
    /\ rows = 0 \/ Complete
    /\ proc = "insert" => tables = Len(Schema)

(* Behind PlacementsOnRequest. *)

Has(s, m) == \E i \in DOMAIN s : s[i] = m
AtMostOnce(s, m) == \A i, j \in DOMAIN s : s[i] = m /\ s[j] = m => i = j

FromServer ==
    {"Connect", "ReadyConfirm", "ReadyDeny", "RequestRando", "Result", "Disconnect"}
FromUs == {"Connect", "Ready", "RandoGenerated"}

(* The process is past the request for placements. *)
Asked == {"result", "create", "insert"}

(* There is one request per connection and one answer to it.  A request that
   setupMW has not read finds it before the loop that waits for it; the process
   is past that loop only if the server has asked; and there is no connection
   outside of setupMW and createSavefile. *)
SetupInv ==
    /\ toUs \in Seq(FromServer) /\ toServer \in Seq(FromUs)
    /\ proc \in Control
    /\ proc \in {"off", "stat", "open", "play"} =>
         toUs = <<>> /\ toServer = <<>> /\ stage = "none"
    /\ proc \in Asked => stage \in {"started", "gone", "finished"}
    /\ AtMostOnce(toUs, "RequestRando")
    /\ Has(toUs, "RequestRando") => stage \in {"started", "gone"} /\ proc \notin Asked
    /\ AtMostOnce(toServer, "RandoGenerated")
    /\ Has(toServer, "RandoGenerated") => stage \in {"started", "gone"} /\ proc \in Asked
=============================================================================
