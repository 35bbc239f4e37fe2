------------------------------ MODULE Commands ------------------------------
(***************************************************************************)
(* How handleConnection (internal/approto/server.go) makes messages for    *)
(* the main loop from the packets of a client.  A packet is a list of JSON *)
(* values, and cmd says what each is meant to be.  The variable cmd is     *)
(* decoded into is declared outside the loop, and a value without cmd (or  *)
(* the value null) leaves it as it was.                                    *)
(*                                                                         *)
(* The inbox ends the session when it gives nil.  Here it is the history   *)
(* of all that was sent to it; its capacity matters in APServer only.      *)
(***************************************************************************)
EXTENDS Integers, Sequences, SequencesExt

CONSTANTS
    Parsed,        \* commands whose arguments are parsed
    MaxSent        \* bound: JSON values that the client sends

NoCmd == ""        \* Cmd before the first decode

(* No command has the name of one of the words that stand here for a cmd that
   is missing, not readable or not known, nor the empty name. *)
ASSUME ParsedAreNames ==
    Parsed \cap {NoCmd, "unknown", "absent", "bad"} = {}

Kinds == Parsed \cup {"Sync"}

(* A JSON value of a packet: cmd is a command, or one that the server does not
   know, or "absent", or "bad" if it cannot be decoded; fits has the commands
   that the rest of the value can be the arguments of. *)
Message ==
    [cmd : Kinds \cup {"unknown", "absent", "bad"}, fits : SUBSET Parsed]

VARIABLES
    sent,          \* history: all values of the packets that were read
    buf,           \* how many of the packet at hand are still to be decoded
    decoded,       \* how many were decoded before
    Cmd,           \* unknownMessage.Cmd
    inbox,         \* what was sent to the main loop
    gone           \* whether the handler has returned

commandVars == <<sent, buf, decoded, Cmd, inbox, gone>>

Nil == [kind |-> "nil", no |-> 0]
Current == sent[decoded + 1]

-----------------------------------------------------------------------------
ReadPacket ==
    /\ ~gone /\ buf = 0
    /\ \E p \in SeqOf(Message, 2) :
         /\ Len(sent) + Len(p) <= MaxSent
         /\ sent' = sent \o p
         /\ buf' = Len(p)
    /\ UNCHANGED <<decoded, Cmd, inbox, gone>>

(* The socket fails or closes, or what comes is not a list of JSON values. *)
ReadError ==
    /\ ~gone /\ buf = 0
    /\ gone' = TRUE
    /\ inbox' = Append(inbox, Nil)
    /\ UNCHANGED <<sent, buf, decoded, Cmd>>

NextMessage ==
    /\ buf > 0
    /\ buf' = buf - 1 /\ decoded' = decoded + 1
    /\ UNCHANGED <<sent, gone>>

(* json.Unmarshal(msg, &unknownMessage) *)
\* Mutant of Named.
NamedIfKnown(m) == IF m.cmd \in Kinds THEN m.cmd ELSE Cmd
Named(m) == IF m.cmd \in {"absent", "bad"} THEN Cmd ELSE m.cmd

(* It becomes a message if the command is known and its arguments parse. *)
Parses(m) == Named(m) = "Sync" \/ Named(m) \in m.fits

Deliver ==
    /\ NextMessage
    /\ Current.cmd # "bad" /\ Parses(Current)
    /\ Cmd' = Named(Current)
    /\ inbox' = Append(inbox, [kind |-> Named(Current), no |-> decoded + 1])

(* Every error is logged, and the next value is taken. *)
\* Mutant of Drop.
DropAsNil ==
    /\ NextMessage
    /\ Current.cmd = "bad" \/ ~Parses(Current)
    /\ Cmd' = Named(Current)
    /\ inbox' = IF Cmd' \in Parsed THEN Append(inbox, Nil) ELSE inbox
Drop ==
    /\ NextMessage
    /\ Current.cmd = "bad" \/ ~Parses(Current)
    /\ Cmd' = Named(Current)
    /\ UNCHANGED inbox

-----------------------------------------------------------------------------
CommandsInit ==
    /\ sent = <<>>
    /\ buf = 0 /\ decoded = 0
    /\ Cmd = NoCmd /\ inbox = <<>> /\ gone = FALSE

CommandsNext ==
    \/ ReadPacket \/ ReadError
    \/ Deliver \/ Drop

CommandsSpec == CommandsInit /\ [][CommandsNext]_commandVars

-----------------------------------------------------------------------------
(* Properties. *)

Meant(n) == sent[n].cmd \notin {"absent", "bad"}
LastNamed(cmd, n) ==
    \E m \in 1 .. n :
        /\ Meant(m) /\ sent[m].cmd = cmd
        /\ \A k \in m + 1 .. n : ~Meant(k)

(* A value that names a command the server knows, with arguments that fit it,
   reaches the main loop as that command, in the order they were sent, and no
   value becomes another command than the one it names.  One that names none
   can only repeat the command that was named last, whether in this packet or
   in one before, never an older one. *)
CommandsAsNamed ==
    /\ \A n \in 1 .. decoded :
         sent[n].cmd \in {"Sync"} \cup (sent[n].fits \cap Parsed) =>
           Contains(inbox, [kind |-> sent[n].cmd, no |-> n])
    /\ \A i \in DOMAIN inbox :
         LET m == inbox[i] IN
         m # Nil =>
           /\ \A j \in 1 .. i - 1 : inbox[j].no < m.no
           /\ sent[m.no].cmd # "bad"
           /\ LastNamed(m.kind, m.no)

(* The main loop takes nil for the end of the connection: it gets one when the
   handler returns, and none before, whatever cannot be parsed. *)
NilMeansGone ==
    \A i \in DOMAIN inbox : inbox[i] = Nil <=> gone /\ i = Len(inbox)

-----------------------------------------------------------------------------
(* The invariant behind both.  What carries over from one packet to the next is
   the command that the last value with a readable cmd has named. *)
CommandsTypeOK ==
    /\ sent \in Seq(Message)
    /\ buf \in Nat /\ decoded \in Nat /\ decoded + buf = Len(sent)
    /\ Cmd \in Kinds \cup {NoCmd, "unknown"}
    /\ inbox \in Seq([kind : Kinds \cup {"nil"}, no : Nat])
    /\ gone \in BOOLEAN /\ (gone => buf = 0)

CommandsInv ==
    /\ CommandsTypeOK
    /\ NilMeansGone /\ CommandsAsNamed
    /\ Cmd # NoCmd => LastNamed(Cmd, decoded)
    /\ \A i \in DOMAIN inbox : inbox[i].no <= decoded
=============================================================================
