------------------------------ MODULE MWClient ------------------------------
(***************************************************************************)
(* The client end of a multiworld connection (internal/mwproto/client.go): *)
(* three goroutines, recvMessages, sendMessages and ping, joined by three  *)
(* buffered channels, and the main loop that uses Send, Inbox and Close.   *)
(*                                                                         *)
(* The server is external: it answers pings and sends numbered messages    *)
(* until the connection ends or it falls silent for good.                  *)
(***************************************************************************)
EXTENDS Integers, Sequences, SequencesExt

CONSTANTS
    chanBufferSize,     \* capacity of the three channels
    reconnectThreshold, \* pings that may be outstanding before giving up
    MaxMsgs,            \* bound: messages from the server
    MaxSends,           \* bound: messages from the main loop
    UserMayLeave,       \* whether the main loop may close a live connection
    Outages             \* the ways in which the connection may end

ASSUME ClientAssumption ==
    /\ chanBufferSize \in Nat \ {0}
    /\ reconnectThreshold \in Nat \ {0}
    /\ MaxMsgs \in Nat /\ MaxSends \in Nat
    /\ UserMayLeave \in BOOLEAN
    /\ Outages \subseteq {"eof", "reset", "silent"}

Ping == 0               \* PingMessage; the others are 1, 2, ...

VARIABLES
    tcp,                \* "up", "closed" (by us), or one of Outages
    down, up,           \* bytes on the wire from and to the server, by message
    told,               \* server: how many numbered messages it has sent
    realInbox, inbox, outbox,
    shut,               \* which of the three channels are closed
    recv, held,         \* recvMessages, and the message it has read
    pinger, unanswered, \* ping, and its count of pings
    carried,            \* the message it is handing on to inbox
    sender, writing,    \* sendMessages, and the message it is writing
    user, got, said,    \* the main loop: what it has read, how much it sent
    panicked

wires == <<tcp, down, up, told>>
chans == <<realInbox, inbox, outbox, shut>>
recvVars == <<recv, held>>
pingVars == <<pinger, unanswered, carried>>
userVars == <<user, got, said>>
sendVars == <<sender, writing>>
vars == <<wires, chans, recvVars, pingVars, sendVars, userVars, panicked>>

Room(ch) == Len(ch) < chanBufferSize
Running == ~panicked    \* a panic ends every goroutine

-----------------------------------------------------------------------------
(* The server and the network. *)

Tell ==
    /\ Running /\ tcp = "up" /\ told < MaxMsgs
    /\ told' = told + 1
    /\ down' = Append(down, told')
    /\ UNCHANGED <<tcp, up, chans, recvVars, pingVars, sendVars, userVars,
                   panicked>>

(* The server reads a message, and answers it if it is a ping. *)
Answer ==
    /\ Running /\ tcp = "up" /\ up # <<>>
    /\ up' = Tail(up)
    /\ down' = IF Head(up) = Ping THEN Append(down, Ping) ELSE down
    /\ UNCHANGED <<tcp, told, chans, recvVars, pingVars, sendVars, userVars,
                   panicked>>

Outage(how) ==
    /\ Running /\ tcp = "up" /\ how \in Outages
    /\ tcp' = how
    /\ down' = IF how = "reset" THEN <<>> ELSE down
    /\ UNCHANGED <<up, told, chans, recvVars, pingVars, sendVars, userVars,
                   panicked>>

-----------------------------------------------------------------------------
(* recvMessages.  An error other than ErrClosed and EOF is logged, and Read is
   tried again: after a reset that goes on until the connection is closed. *)

RecvRead ==
    /\ Running /\ recv = "read" /\ tcp # "closed" /\ down # <<>>
    /\ held' = Head(down) /\ down' = Tail(down)
    /\ recv' = "push"
    /\ UNCHANGED <<tcp, up, told, chans, pingVars, sendVars, userVars, panicked>>

RecvPush ==
    /\ Running /\ recv = "push" /\ Room(realInbox)
    /\ realInbox' = Append(realInbox, held)
    /\ recv' = "read"
    /\ UNCHANGED <<wires, inbox, outbox, shut, held, pingVars, sendVars,
                   userVars, panicked>>

\* Mutant of RecvEnd.
RecvEndOnEOFOnly ==
    /\ Running /\ recv = "read"
    /\ tcp = "eof" /\ down = <<>>
    /\ recv' = "done"
    /\ shut' = shut \cup {"realInbox"}
    /\ UNCHANGED <<wires, realInbox, inbox, outbox, held, pingVars, sendVars,
                   userVars, panicked>>
RecvEnd ==
    /\ Running /\ recv = "read"
    /\ tcp = "closed" \/ (tcp = "eof" /\ down = <<>>)
    /\ recv' = "done"
    /\ shut' = shut \cup {"realInbox"}
    /\ UNCHANGED <<wires, realInbox, inbox, outbox, held, pingVars, sendVars,
                   userVars, panicked>>

-----------------------------------------------------------------------------
(* ping: the only reader of realInbox and the only writer of inbox. *)

PingExit ==
    /\ pinger' = "done"
    /\ shut' = shut \cup {"inbox"}

(* The ticker fires. *)
Tick ==
    /\ Running /\ pinger = "select"
    /\ unanswered + 1 < reconnectThreshold
    /\ unanswered' = unanswered + 1
    /\ pinger' = "ping"
    /\ UNCHANGED <<wires, chans, carried, recvVars, sendVars, userVars,
                   panicked>>

\* Mutant of GiveUp.
GiveUpNever ==
    /\ Running /\ pinger = "select"
    /\ unanswered + 1 = reconnectThreshold
    /\ unanswered' = unanswered + 1
    /\ pinger' = "ping"
    /\ UNCHANGED <<wires, chans, carried, recvVars, sendVars, userVars,
                   panicked>>
GiveUp ==
    /\ Running /\ pinger = "select"
    /\ unanswered + 1 = reconnectThreshold
    /\ unanswered' = unanswered + 1
    /\ PingExit
    /\ UNCHANGED <<wires, realInbox, inbox, outbox, carried, recvVars, sendVars,
                   userVars, panicked>>

PingSend ==
    /\ Running /\ pinger = "ping" /\ "outbox" \notin shut /\ Room(outbox)
    /\ outbox' = Append(outbox, Ping)
    /\ pinger' = "select"
    /\ UNCHANGED <<wires, realInbox, inbox, shut, unanswered, carried,
                   recvVars, sendVars, userVars, panicked>>

(* The send on a channel that the main loop has closed. *)
PingPanic ==
    /\ Running /\ pinger = "ping" /\ "outbox" \in shut
    /\ panicked' = TRUE
    /\ UNCHANGED <<wires, chans, recvVars, pingVars, sendVars, userVars>>

PingAnswered ==
    /\ Running /\ pinger = "select" /\ realInbox # <<>> /\ Head(realInbox) = Ping
    /\ realInbox' = Tail(realInbox)
    /\ unanswered' = 0
    /\ UNCHANGED <<wires, inbox, outbox, shut, pinger, carried, recvVars,
                   sendVars, userVars, panicked>>

PingTake ==
    /\ Running /\ pinger = "select" /\ realInbox # <<>> /\ Head(realInbox) # Ping
    /\ pinger' = "forward"
    /\ carried' = Head(realInbox) /\ realInbox' = Tail(realInbox)
    /\ UNCHANGED <<wires, inbox, outbox, shut, unanswered, recvVars, sendVars,
                   userVars, panicked>>

\* Mutant of PingForward.
ForwardDroppingWhenFull ==
    /\ Running /\ pinger = "forward"
    /\ inbox' = IF Room(inbox) THEN Append(inbox, carried) ELSE inbox
    /\ pinger' = "select"
    /\ UNCHANGED <<wires, realInbox, outbox, shut, unanswered, carried,
                   recvVars, sendVars, userVars, panicked>>
PingForward ==
    /\ Running /\ pinger = "forward" /\ Room(inbox)
    /\ inbox' = Append(inbox, carried)
    /\ pinger' = "select"
    /\ UNCHANGED <<wires, realInbox, outbox, shut, unanswered, carried,
                   recvVars, sendVars, userVars, panicked>>

\* Mutant of PingEnd.
PingEndEarly ==
    /\ Running /\ pinger = "select" /\ "realInbox" \in shut
    /\ PingExit
    /\ UNCHANGED <<wires, realInbox, inbox, outbox, unanswered, carried,
                   recvVars, sendVars, userVars, panicked>>
PingEnd ==
    /\ Running /\ pinger = "select" /\ realInbox = <<>> /\ "realInbox" \in shut
    /\ PingExit
    /\ UNCHANGED <<wires, realInbox, inbox, outbox, unanswered, carried,
                   recvVars, sendVars, userVars, panicked>>

-----------------------------------------------------------------------------
(* sendMessages.  Write blocks while the server is silent; its errors are only
   logged. *)

SendTake ==
    /\ Running /\ sender = "range" /\ outbox # <<>>
    /\ writing' = Head(outbox) /\ outbox' = Tail(outbox)
    /\ sender' = "write"
    /\ UNCHANGED <<wires, realInbox, inbox, shut, recvVars, pingVars, userVars,
                   panicked>>

SendWrite ==
    /\ Running /\ sender = "write" /\ tcp # "silent"
    /\ up' = IF tcp = "up" THEN Append(up, writing) ELSE up
    /\ sender' = "range"
    /\ UNCHANGED <<tcp, down, told, chans, recvVars, pingVars, writing,
                   userVars, panicked>>

SendEnd ==
    /\ Running /\ sender = "range" /\ outbox = <<>> /\ "outbox" \in shut
    /\ tcp # "silent"
    /\ sender' = "done"
    /\ tcp' = "closed"
    /\ UNCHANGED <<down, up, told, chans, recvVars, pingVars, writing,
                   userVars, panicked>>

-----------------------------------------------------------------------------
(* The main loop.  While it is in Send it reads nothing from inbox, does not
   learn of its end, and cannot close the connection. *)

UserSend ==
    /\ Running /\ user = "run" /\ said < MaxSends
    /\ user' = "send"
    /\ said' = said + 1
    /\ UNCHANGED <<wires, chans, recvVars, pingVars, sendVars, got, panicked>>

UserSent ==
    /\ Running /\ user = "send" /\ Room(outbox)
    /\ outbox' = Append(outbox, 1)
    /\ user' = "run"
    /\ UNCHANGED <<wires, realInbox, inbox, shut, recvVars, pingVars, sendVars,
                   got, said, panicked>>

UserReceive ==
    /\ Running /\ user = "run" /\ inbox # <<>>
    /\ got' = Append(got, Head(inbox))
    /\ inbox' = Tail(inbox)
    /\ UNCHANGED <<wires, realInbox, outbox, shut, recvVars, pingVars, sendVars,
                   user, said, panicked>>

Close(how) ==
    /\ user' = how
    /\ shut' = shut \cup {"outbox"}
    /\ UNCHANGED <<wires, realInbox, inbox, outbox, recvVars, pingVars, sendVars,
                   got, said, panicked>>

(* The inbox has ended: errConnectionLost. *)
UserNotices ==
    /\ Running /\ user = "run" /\ inbox = <<>> /\ "inbox" \in shut
    /\ Close("noticed")

(* The session ends for another reason, such as a lost AP client. *)
UserLeaves ==
    /\ Running /\ user = "run" /\ UserMayLeave
    /\ Close("left")

-----------------------------------------------------------------------------
Init ==
    /\ tcp = "up" /\ down = <<>> /\ up = <<>> /\ told = 0
    /\ realInbox = <<>> /\ inbox = <<>> /\ outbox = <<>> /\ shut = {}
    /\ recv = "read" /\ held = Ping
    /\ pinger = "select" /\ unanswered = 0 /\ carried = Ping
    /\ sender = "range" /\ writing = Ping
    /\ user = "run" /\ got = <<>> /\ said = 0
    /\ panicked = FALSE

ServerStep == Tell \/ Answer \/ \E how \in Outages : Outage(how)
RecvStep == RecvRead \/ RecvPush \/ RecvEnd
PingStep == Tick \/ GiveUp \/ PingSend \/ PingPanic \/ PingAnswered \/ PingTake
              \/ PingForward \/ PingEnd
SendStep == SendTake \/ SendWrite \/ SendEnd
UserStep == UserSent \/ UserReceive \/ UserNotices

Next == ServerStep \/ RecvStep \/ PingStep \/ SendStep \/ UserStep
          \/ UserSend \/ UserLeaves

Spec == Init /\ [][Next]_vars

(* Goroutines that can run do run, and the ticker keeps firing although the
   other case of the select may be ready as well. *)
Fairness ==
    /\ WF_vars(RecvStep) /\ WF_vars(PingStep) /\ WF_vars(SendStep)
    /\ WF_vars(UserStep)
    /\ SF_vars(Tick \/ GiveUp)

FairSpec == Spec /\ Fairness

-----------------------------------------------------------------------------
(* Properties. *)

(* The main loop reads the server's messages in order, without gaps, duplicates
   or pings, however the three goroutines and their buffers interleave. *)
InOrder == got = [i \in 1 .. Len(got) |-> i]

(* The main loop is told of every message that reached us before it is told of
   an orderly end of the connection. *)
NothingCutOff ==
    user = "noticed" /\ tcp = "eof" /\ unanswered < reconnectThreshold
        => Len(got) = told

(* The server is silent, sendMessages blocks in Write, and outbox is full: Send
   blocks the main loop, or a ping blocks ping before it can give up. *)
Jammed ==
    /\ tcp = "silent" /\ sender = "write" /\ ~Room(outbox)
    /\ user = "send" \/ pinger = "ping"

(* Whatever ends the connection (an end of file, a reset that makes recvMessages
   spin, a silence that blocks sendMessages), the main loop notices, unless so
   much was sent to a silent server that outbox is full. *)
OutageNoticed == (tcp \in Outages) ~> (user \in {"noticed", "left"} \/ Jammed)

(* Closing the connection never makes the program panic. *)
NoPanic == ~panicked

(* recvMessages waits for ping to read realInbox, but ping has given up, or
   waits itself for a main loop that has left with its inbox full. *)
RecvStuck ==
    /\ recv = "push" /\ ~Room(realInbox)
    /\ pinger = "done" \/ (pinger = "forward" /\ ~Room(inbox) /\ user = "left")

(* recvMessages "will terminate when the network connection is closed from
   either side" (client.go), unless it is left behind in one of those ways, or
   the program has panicked. *)
RecvTerminates ==
    (tcp \in {"closed", "eof"}) ~> (recv = "done" \/ RecvStuck \/ panicked)

-----------------------------------------------------------------------------
(* The inductive invariant behind InOrder and NothingCutOff. *)

(* If message a was the last one before x then b is the last one with it. *)
Follows(a, x, b) == IF x = Ping THEN b = a ELSE b = a + 1 /\ x = b

(* The channel or stream s carries the messages after a up to b, in order, with
   pings in between; n counts along. *)
Carries(s, a, b) ==
    \E n \in [0 .. Len(s) -> Nat] :
        /\ n[0] = a /\ n[Len(s)] = b
        /\ \A i \in 1 .. Len(s) : Follows(n[i - 1], s[i], n[i])

(* The last message that ping has taken from realInbox. *)
Passed == Len(got) + Len(inbox) + (IF pinger = "forward" THEN 1 ELSE 0)

(* From the main loop back to the server each stage goes on with the message
   after the last one of the stage before it: got, inbox, the hand of ping,
   realInbox, the hand of recvMessages, and the wire, which ends with the
   server's last message unless a reset has cut it. *)
PipeInv ==
    /\ told \in Nat /\ held \in Nat
    /\ down \in Seq(Nat) /\ realInbox \in Seq(Nat)
    /\ inbox \in Seq(Nat) /\ got \in Seq(Nat)
    /\ InOrder
    /\ \A i \in DOMAIN inbox : inbox[i] = Len(got) + i
    /\ pinger = "forward" => carried = Passed
    /\ \E r, d, e \in Nat :
         /\ Carries(realInbox, Passed, r)
         /\ IF recv = "push" THEN Follows(r, held, d) ELSE d = r
         /\ Carries(down, d, e)
         /\ tcp \in {"up", "eof", "silent"} => e = told

(* Who is done has closed its channel, and has seen the end of the one before
   it, except that ping may also have given up. *)
EndInv ==
    /\ user = "noticed" => inbox = <<>> /\ "inbox" \in shut
    /\ "inbox" \in shut => pinger = "done"
    /\ pinger = "done" /\ unanswered # reconnectThreshold =>
         realInbox = <<>> /\ "realInbox" \in shut
    /\ "realInbox" \in shut => recv = "done"
    /\ recv = "done" => tcp = "closed" \/ (tcp = "eof" /\ down = <<>>)
=============================================================================
