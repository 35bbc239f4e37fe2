------------------------------ MODULE APServer ------------------------------
(***************************************************************************)
(* The Archipelago server (internal/approto/server.go) and the main loop   *)
(* as it uses it: per connection a handler goroutine that reads the        *)
(* socket, a writer goroutine, and two channels of capacity 1; one main    *)
(* goroutine that serves a connection at a time (playMW).                  *)
(*                                                                         *)
(* A send on a full channel blocks.  The context the writer watches is     *)
(* cancelled when the handler has returned, not when the socket closes:    *)
(* the connection has been taken over from the HTTP server by then.        *)
(***************************************************************************)
EXTENDS Integers, Sequences, FiniteSets

CONSTANTS
    Conn,          \* connections, each made once
    None,
    MaxTyped,       \* bound: messages a client sends
    MaxAnswers,      \* bound: messages the main loop sends for one of those
    MaxItems,      \* bound: items that come from the MW and go to the client
    MWMayDrop      \* whether the MW connection may be lost

ASSUME ConnAssumption ==
    /\ None \notin Conn
    /\ MaxTyped \in Nat /\ MaxAnswers \in Nat /\ MaxItems \in Nat
    /\ MWMayDrop \in BOOLEAN

Capacity == 1      \* of inbox, outbox and connections

VARIABLES
    sock,          \* "new", "open" or "shut"
    wire,          \* messages in the socket that the handler has not read
    typed,         \* how many messages the client has sent
    handler,       \* where handleConnection is
    seen,          \* what it has loaded from numConnections
    writer,        \* "off", "run" or "done"
    cinbox, coutbox, closed, \* inbox and outbox (the content of which is not
                   \* told apart), and whether outbox is closed
    num,           \* numConnections
    queue,         \* the channel connections
    main, cur,     \* where playMW is, and the connection it serves
    left,          \* what it has still to send before the next select
    items,         \* items from the MW so far
    turns, served  \* history: who took the slot, and who was accepted, in order

socket == <<sock, wire, typed>>
cchans == <<cinbox, coutbox, closed>>
loop == <<main, cur, left, items>>
order == <<turns, served>>
serverVars == <<socket, handler, seen, writer, cchans, num, queue, loop, order>>

(***************************************************************************)
(* load, cas:  at the two operations on numConnections                     *)
(* queue:      at connections <- cconn                                     *)
(* read:       in wsjson.Read                                              *)
(* push:       at inbox <- cmsg                                            *)
(* bye:        at the deferred inbox <- nil                                *)
(* leave:      at the deferred numConnections.Add(-1)                      *)
(***************************************************************************)
Holding == {"queue", "read", "push", "bye", "leave"}
Handler == {"idle", "load", "cas", "done"} \cup Holding

At(c, here, there) ==
    /\ handler[c] = here
    /\ handler' = [handler EXCEPT ![c] = there]

Shut(c) ==
    /\ sock' = [sock EXCEPT ![c] = "shut"]
    /\ wire' = [wire EXCEPT ![c] = 0]
    /\ UNCHANGED typed

-----------------------------------------------------------------------------
(* The client. *)

Dial(c) ==
    /\ sock[c] = "new"
    /\ sock' = [sock EXCEPT ![c] = "open"]
    /\ At(c, "idle", "load")
    /\ UNCHANGED <<wire, typed, seen, writer, cchans, num, queue, loop, order>>

Type(c) ==
    /\ sock[c] = "open" /\ typed[c] < MaxTyped
    /\ typed' = [typed EXCEPT ![c] = @ + 1]
    /\ wire' = [wire EXCEPT ![c] = @ + 1]
    /\ UNCHANGED <<sock, handler, seen, writer, cchans, num, queue, loop, order>>

HangUp(c) ==
    /\ sock[c] = "open"
    /\ sock' = [sock EXCEPT ![c] = "shut"]
    /\ UNCHANGED <<wire, typed, handler, seen, writer, cchans, num, queue, loop, order>>

-----------------------------------------------------------------------------
(* handleConnection. *)

Load(c) ==
    /\ At(c, "load", "cas")
    /\ seen' = [seen EXCEPT ![c] = num]
    /\ UNCHANGED <<socket, writer, cchans, num, queue, loop, order>>

(* The connection gets the only slot ... *)
\* Mutant of TakeSlot.
StoreInsteadOfSwap(c) ==
    /\ seen[c] = 0
    /\ At(c, "cas", "queue")
    /\ num' = seen[c] + 1
    /\ turns' = Append(turns, c)
    /\ UNCHANGED <<socket, seen, writer, cchans, queue, loop, served>>
\* Mutant of TakeSlot.
SwapWithoutLimit(c) ==
    /\ num = seen[c]
    /\ At(c, "cas", "queue")
    /\ num' = seen[c] + 1
    /\ turns' = Append(turns, c)
    /\ UNCHANGED <<socket, seen, writer, cchans, queue, loop, served>>
TakeSlot(c) ==
    /\ seen[c] = 0 /\ num = seen[c]
    /\ At(c, "cas", "queue")
    /\ num' = seen[c] + 1
    /\ turns' = Append(turns, c)
    /\ UNCHANGED <<socket, seen, writer, cchans, queue, loop, served>>

(* ... or is rejected, and closed by the deferred CloseNow. *)
Reject(c) ==
    /\ ~(seen[c] = 0 /\ num = seen[c])
    /\ At(c, "cas", "done")
    /\ Shut(c)
    /\ UNCHANGED <<seen, writer, cchans, num, queue, loop, order>>

Enqueue(c) ==
    /\ Len(queue) < Capacity
    /\ At(c, "queue", "read")
    /\ queue' = Append(queue, c)
    /\ writer' = [writer EXCEPT ![c] = "run"]
    /\ UNCHANGED <<socket, seen, cchans, num, loop, order>>

Read(c) ==
    /\ wire[c] > 0
    /\ At(c, "read", "push")
    /\ wire' = [wire EXCEPT ![c] = @ - 1]
    /\ UNCHANGED <<sock, typed, seen, writer, cchans, num, queue, loop, order>>

(* A command that is unknown or does not parse is dropped. *)
ReadGarbage(c) ==
    /\ wire[c] > 0 /\ handler[c] = "read"
    /\ wire' = [wire EXCEPT ![c] = @ - 1]
    /\ UNCHANGED <<sock, typed, handler, seen, writer, cchans, num, queue, loop, order>>

Put(c, m) ==
    /\ Len(cinbox[c]) < Capacity
    /\ cinbox' = [cinbox EXCEPT ![c] = Append(@, m)]

Push(c) ==
    /\ At(c, "push", "read")
    /\ Put(c, "msg")
    /\ UNCHANGED <<socket, seen, writer, coutbox, closed, num, queue, loop, order>>

ReadError(c) ==
    /\ sock[c] = "shut" /\ wire[c] = 0
    /\ At(c, "read", "bye")
    /\ UNCHANGED <<socket, seen, writer, cchans, num, queue, loop, order>>

\* Mutant of Bye.
SkipBye(c) ==
    /\ At(c, "bye", "leave")
    /\ UNCHANGED <<socket, seen, writer, cchans, num, queue, loop, order>>
Bye(c) ==
    /\ At(c, "bye", "leave")
    /\ Put(c, "nil")
    /\ UNCHANGED <<socket, seen, writer, coutbox, closed, num, queue, loop, order>>

Leave(c) ==
    /\ At(c, "leave", "done")
    /\ num' = num - 1
    /\ Shut(c)
    /\ UNCHANGED <<seen, writer, cchans, queue, loop, order>>

-----------------------------------------------------------------------------
(* The writer; a failing Write is only logged. *)

Write(c) ==
    /\ writer[c] = "run" /\ coutbox[c] > 0
    /\ coutbox' = [coutbox EXCEPT ![c] = @ - 1]
    /\ UNCHANGED <<socket, handler, seen, writer, cinbox, closed, num, queue, loop, order>>

WriterCloses(c) ==
    /\ writer[c] = "run" /\ closed[c] /\ coutbox[c] = 0
    /\ writer' = [writer EXCEPT ![c] = "done"]
    /\ Shut(c)
    /\ UNCHANGED <<handler, seen, cchans, num, queue, loop, order>>

WriterCancelled(c) ==
    /\ writer[c] = "run" /\ handler[c] = "done"
    /\ writer' = [writer EXCEPT ![c] = "done"]
    /\ UNCHANGED <<socket, handler, seen, cchans, num, queue, loop, order>>

-----------------------------------------------------------------------------
(* The main goroutine. *)

(* Accept, and then the first message of the session, RoomInfo. *)
Accept ==
    /\ main = "accept" /\ queue # <<>>
    /\ cur' = Head(queue) /\ queue' = Tail(queue)
    /\ main' = "send" /\ left' = 1
    /\ served' = Append(served, cur')
    /\ UNCHANGED <<socket, handler, seen, writer, cchans, num, items, turns>>

After(n) == IF n = 0 THEN "loop" ELSE "send"

(* apconn.Send *)
Send ==
    /\ main = "send" /\ coutbox[cur] < Capacity
    /\ coutbox' = [coutbox EXCEPT ![cur] = @ + 1]
    /\ left' = left - 1
    /\ main' = After(left')
    /\ UNCHANGED <<socket, handler, seen, writer, cinbox, closed, num, queue, cur,
                   items, order>>

(* A message from the client: its handler sends any number of answers. *)
Handle(n) ==
    /\ main = "loop" /\ cinbox[cur] # <<>> /\ Head(cinbox[cur]) = "msg"
    /\ cinbox' = [cinbox EXCEPT ![cur] = Tail(@)]
    /\ left' = n /\ main' = After(n)
    /\ UNCHANGED <<socket, handler, seen, writer, coutbox, closed, num, queue, cur,
                   items, order>>

(* An item from the MW server. *)
HandleItem ==
    /\ main = "loop" /\ items < MaxItems
    /\ items' = items + 1
    /\ left' = 1 /\ main' = "send"
    /\ UNCHANGED <<socket, handler, seen, writer, cchans, num, queue, cur, order>>

(* errConnectionLost, with the deferred apconn.Close. *)
EndSession ==
    /\ closed' = [closed EXCEPT ![cur] = TRUE]
    /\ main' = "accept" /\ cur' = None
    /\ UNCHANGED <<socket, handler, seen, writer, coutbox, num, queue, left, items, order>>

ClientGone ==
    /\ main = "loop" /\ cinbox[cur] # <<>> /\ Head(cinbox[cur]) = "nil"
    /\ cinbox' = [cinbox EXCEPT ![cur] = Tail(@)]
    /\ EndSession

MWGone ==
    /\ main = "loop" /\ MWMayDrop
    /\ EndSession
    /\ UNCHANGED cinbox

-----------------------------------------------------------------------------
ServerInit ==
    /\ sock = [c \in Conn |-> "new"]
    /\ wire = [c \in Conn |-> 0] /\ typed = [c \in Conn |-> 0]
    /\ handler = [c \in Conn |-> "idle"]
    /\ seen = [c \in Conn |-> 0]
    /\ writer = [c \in Conn |-> "off"]
    /\ cinbox = [c \in Conn |-> <<>>] /\ coutbox = [c \in Conn |-> 0]
    /\ closed = [c \in Conn |-> FALSE]
    /\ num = 0 /\ queue = <<>>
    /\ main = "accept" /\ cur = None /\ left = 0 /\ items = 0
    /\ turns = <<>> /\ served = <<>>

ClientStep(c) == Dial(c) \/ Type(c) \/ HangUp(c)

HandlerStep(c) ==
    \/ Load(c) \/ TakeSlot(c) \/ Reject(c) \/ Enqueue(c)
    \/ Read(c) \/ ReadGarbage(c) \/ Push(c) \/ ReadError(c)
    \/ Bye(c) \/ Leave(c)

WriterStep(c) == Write(c) \/ WriterCloses(c) \/ WriterCancelled(c)

MainStep ==
    Accept \/ Send \/ (\E n \in 0 .. MaxAnswers : Handle(n)) \/ ClientGone

MWStep == HandleItem \/ MWGone

ServerNext ==
    \/ \E c \in Conn : ClientStep(c) \/ HandlerStep(c) \/ WriterStep(c)
    \/ MainStep \/ MWStep

ServerSpec == ServerInit /\ [][ServerNext]_serverVars

(* Goroutines that can run do run.  Nothing is asked of the clients and of the
   MW connection. *)
ServerFairness ==
    /\ \A c \in Conn : WF_serverVars(HandlerStep(c)) /\ WF_serverVars(WriterStep(c))
    /\ WF_serverVars(MainStep)

ServerFairSpec == ServerSpec /\ ServerFairness

-----------------------------------------------------------------------------
(* Properties. *)

(* What the proofs need of the types. *)
SlotTypeOK ==
    /\ handler \in [Conn -> Handler]
    /\ seen \in [Conn -> {0, 1}]

(* At most one connection is between taking and leaving the slot, and
   numConnections says whether there is one: two clients that connect at the
   same moment cannot both get in, nor can a leaving one let in two. *)
OneClient ==
    /\ \A c, d \in Conn : handler[c] \in Holding /\ handler[d] \in Holding => c = d
    /\ num = IF \E c \in Conn : handler[c] \in Holding THEN 1 ELSE 0

(* The main loop serves connections in the order in which they got the slot,
   each once: although it may still be busy with a client that is gone when the
   next one gets in, and may find that one gone as well, it never turns from a
   newer connection back to an older one. *)
ServedInTurn ==
    \A i \in DOMAIN served : i \in DOMAIN turns /\ served[i] = turns[i]

(* The main loop waits for a client and the slot is free. *)
Ready == main = "accept" /\ num = 0

(* When all clients have come and gone, the server is ready for another one. *)
ReadyAgain == (\A c \in Conn : sock[c] = "shut") ~> Ready

(* The main loop is at a send to a client that is gone, with its writer. *)
MainStuck == main = "send" /\ writer[cur] = "done" /\ coutbox[cur] = Capacity

(* A handler is at a send to a main loop that no longer reads its inbox, and
   has not given the slot back. *)
SlotStuck ==
    \E c \in Conn : handler[c] \in {"push", "bye"} /\ closed[c]
                      /\ Len(cinbox[c]) = Capacity

(* The two sends above are the only ones that may wait for ever: in all other
   cases the server gets ready for another client, wherever the clients hung
   up and the MW connection was lost. *)
ReadyUnlessStuck ==
    (\A c \in Conn : sock[c] = "shut") ~> (Ready \/ MainStuck \/ SlotStuck)

-----------------------------------------------------------------------------
(* The inductive invariant behind ServedInTurn, besides OneClient: whoever got
   the slot was accepted, waits in the channel, or is the one handler that has
   still to put its connection there. *)

TurnInv ==
    /\ turns \in Seq(Conn) /\ served \in Seq(Conn) /\ queue \in Seq(Conn)
    /\ \A c \in Conn : handler[c] = "queue" => turns = Append(served \o queue, c)
    /\ (\A c \in Conn : handler[c] # "queue") => turns = served \o queue
=============================================================================
