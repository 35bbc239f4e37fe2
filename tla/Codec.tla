------------------------------- MODULE Codec -------------------------------
(***************************************************************************)
(* The wire format of the multiworld protocol: Write (write.go) and Read   *)
(* (read.go) of internal/mwproto, with Read called in a loop that goes on  *)
(* after an error, as recvMessages does, and ends with a panic.            *)
(*                                                                         *)
(* A cell stands for a byte, or for the bytes of one fixed-width integer,  *)
(* and lengths count cells.  Varints keep their digits.  A JSON value is   *)
(* its text, and every text but the empty one is JSON.                     *)
(***************************************************************************)
EXTENDS Integers, Sequences, FiniteSets, FiniteSetsExt, SequencesExt

CONSTANTS
    Base,            \* 128: what one byte of a varint can count to
    WordSize,        \* 2^32: the number of values of an integer field
    IntSize,         \* 2^64: the number of values of an int
    maxMessageSize,
    Types,           \* the types of the messages that are written
    MaxFrames        \* bound: messages written

headerSize == 4      \* length, type, sender and message number
lengthFieldSize == 1

(* messageType: a type is the number of its name. *)
TypeNames ==
    <<"SharedCore", "Connect", "Disconnect", "Join", "JoinConfirm",
      "DataReceive", "DataReceiveConfirm", "DataSend", "DataSendConfirm",
      "ReadyConfirm", "ReadyDeny", "Ping", "Ready", "Result", "Save",
      "RandoGenerated", "Unready", "InitiateGame", "RequestRando",
      "AnnounceCharmNotchCosts", "RequestCharmNotchCosts",
      "ConfirmCharmNotchCostsReceived", "DatasSend", "DatasSendConfirm",
      "InitiateSyncGame", "ApplySettings", "RequestSettings", "ISReady",
      "DatasReceive", "DatasReceiveConfirm", "ConnectedPlayersChanged">>
TypeNumber(type) == CHOOSE i \in DOMAIN TypeNames : TypeNames[i] = type

ASSUME CodecAssumption ==
    /\ Base \in Nat \ {0}
    /\ maxMessageSize \in Nat /\ headerSize <= maxMessageSize
    /\ 2 * maxMessageSize < IntSize
    /\ Types \subseteq {TypeNames[i] : i \in DOMAIN TypeNames}

(* The kinds of the fields of a message, in their order. *)
Fields(type) ==
    CASE type \in {"Connect", "ReadyDeny"} -> <<"string">>
      [] type = "Ping" -> <<"uint32">>
      [] type = "Join" -> <<"string", "int32", "int32", "byte">>
      [] type = "Ready" -> <<"string", "string", "byte", "json">>
      [] type \in {"ReadyConfirm", "AnnounceCharmNotchCosts"} ->
           <<"int32", "json">>
      [] type = "ConfirmCharmNotchCostsReceived" -> <<"int32">>
      [] type = "InitiateGame" -> <<"json">>
      [] type = "RandoGenerated" -> <<"json", "int32">>
      [] type = "Result" ->
           <<"int32", "int32", "json", "json", "json", "json", "json", "string">>
      [] type = "DataReceive" -> <<"string", "string", "string", "int32">>
      [] type = "DatasReceive" -> <<"json", "string">>
      [] type = "DataReceiveConfirm" -> <<"string", "string", "string">>
      [] type = "DatasReceiveConfirm" -> <<"int32", "string">>
      [] type = "DataSend" -> <<"string", "string", "int32", "int32">>
      [] type = "DataSendConfirm" -> <<"string", "string", "int32">>
      [] OTHER -> <<>>

MessageOf(type, values) == [type |-> type, values |-> values]

-----------------------------------------------------------------------------
(* Write *)

(* appendVarint32: seven bits at a time, the lowest first. *)
varint[n \in Nat] ==
    IF n < Base THEN <<n>> ELSE <<Base + (n % Base)>> \o varint[n \div Base]
appendVarint32(n) == varint[n]

appendString(s) == appendVarint32(Len(s)) \o s

(* Integers are written as unsigned words. *)
Encode(kind, v) ==
    IF kind \in {"string", "json"} THEN appendString(v) ELSE <<v % WordSize>>

appendMessage(m) ==
    FoldLeft(LAMBDA b, i : b \o Encode(Fields(m.type)[i], m.values[i]), <<>>,
             [i \in DOMAIN m.values |-> i])

Frame(type, payload) ==
    <<headerSize + Len(payload), type, 0, 0>> \o payload
Write(m) == Frame(TypeNumber(m.type), appendMessage(m))

-----------------------------------------------------------------------------
(* Read *)

(* The types that have a case; ReadyDeny has none. *)
Known ==
    {"Connect", "Disconnect", "Ping", "Ready", "ReadyConfirm", "Join",
     "JoinConfirm", "Unready", "InitiateGame", "RequestRando",
     "RandoGenerated", "Result", "DataReceive", "DatasReceive",
     "DataSendConfirm", "AnnounceCharmNotchCosts", "RequestCharmNotchCosts",
     "ConfirmCharmNotchCostsReceived"}

(* The case of the last one does not look at the payload. *)
Decoded(type) ==
    IF type = "ConfirmCharmNotchCostsReceived" THEN <<>> ELSE Fields(type)

NoMessage == MessageOf("none", <<>>)     \* an error
Panicked == MessageOf("panic", <<>>)

(* unmarshalBytes: the digits are shifted into an int, where the bits that do not
   fit are lost and the highest one is the sign; and so is the end of the text. *)
AsInt(n) ==
    LET word == n % IntSize
    IN  IF 2 * word < IntSize THEN word ELSE word - IntSize
Ends(p) == {i \in DOMAIN p : p[i] < Base}
Digits(p) == Min(Ends(p))
DigitsUp(p) ==
    MapThenSumSet(LAMBDA i : (p[i] % Base) * Base ^ (i - 1), 1 .. Digits(p))
\* Mutant of TextLength.
TextLengthHighestFirst(p) ==
    AsInt(MapThenSumSet(LAMBDA i : (p[i] % Base) * Base ^ (Digits(p) - i),
                        1 .. Digits(p)))
TextLength(p) == AsInt(DigitsUp(p))
TextEnd(p) == AsInt(Digits(p) + TextLength(p))
Text(p) == SubSeq(p, Digits(p) + 1, TextEnd(p))

(* payload[start:end] panics if it ends before it starts. *)
TakeText(p) ==
    CASE Ends(p) = {} -> "error"
      [] Ends(p) # {} /\ TextEnd(p) > Len(p) -> "error"
      [] Ends(p) # {} /\ TextEnd(p) < Digits(p) -> "panic"
      [] OTHER -> "ok"

(* One field taken from the payload: how it comes out, its width and its value. *)
Take(kind, p) ==
    CASE kind = "string" -> TakeText(p)
      [] kind = "json" ->
           IF TakeText(p) = "ok" /\ Text(p) = <<>> THEN "error" ELSE TakeText(p)
      [] OTHER -> IF p # <<>> THEN "ok" ELSE "error"
Width(kind, p) == IF kind \in {"string", "json"} THEN TextEnd(p) ELSE 1
Decode(kind, p) ==
    CASE kind \in {"string", "json"} -> Text(p)
      [] kind = "int32" ->
           IF 2 * Head(p) >= WordSize THEN Head(p) - WordSize ELSE Head(p)
      [] OTHER -> Head(p)

(* unmarshalInto: field by field until one does not fit; what is left over at
   the end is ignored. *)
unmarshalField(st, kind) ==
    IF st.end = "ok" /\ Take(kind, st.payload) = "ok"
    THEN [end |-> "ok",
          payload |-> SubSeq(st.payload, Width(kind, st.payload) + 1,
                             Len(st.payload)),
          values |-> Append(st.values, Decode(kind, st.payload))]
    ELSE [st EXCEPT !.end = IF st.end = "ok" THEN Take(kind, st.payload) ELSE @]
unmarshal(type, payload) ==
    LET st == FoldLeft(unmarshalField,
                       [end |-> "ok", payload |-> payload, values |-> <<>>],
                       Decoded(type))
    IN  CASE st.end = "ok" -> MessageOf(type, st.values)
          [] st.end = "error" -> NoMessage
          [] st.end = "panic" -> Panicked

LengthOK(length) == length >= headerSize /\ length <= maxMessageSize

(* What follows the length field: the rest, to be parsed or to be skipped. *)
\* Mutant of Rest.
RestAfterLength(length) == IF LengthOK(length) THEN length - 1 ELSE length
Rest(length) == Max({0, length - lengthFieldSize})

Parse(buf) ==
    LET payload == SubSeq(buf, headerSize - lengthFieldSize + 1, Len(buf))
        type == IF Head(buf) \in DOMAIN TypeNames THEN TypeNames[Head(buf)]
                ELSE "none"
    IN  IF type \in Known THEN unmarshal(type, payload) ELSE NoMessage

(* What Read returns for a frame: a length out of bounds is an error. *)
Said(length, buf) == IF LengthOK(length) THEN Parse(buf) ELSE NoMessage

-----------------------------------------------------------------------------
VARIABLES
    wire,       \* the cells that are written and not yet read
    reading,    \* the length field that Read has read, or NoLength
    got,        \* what Read has returned, call by call
    frames,     \* history: the frames that were written
    meant       \* history: what the protocol means by each

codecVars == <<wire, reading, got, frames, meant>>

NoLength == -1

(* Values for a field: strings whose lengths take one, two and three digits,
   and the integers at which signed and unsigned part. *)
TextOf(n) == [i \in 1 .. n |-> 1]
Samples(kind) ==
    CASE kind = "string" -> <<TextOf(0), TextOf(Base), TextOf(Base * Base + 1)>>
      [] kind = "json" -> <<TextOf(1), TextOf(Base * Base)>>
      [] kind = "int32" -> <<-1, (WordSize \div 2) - 1>>
      [] OTHER -> <<0, WordSize - 1>>
Contents(type) ==
    LET n == Len(Fields(type))
    IN  {[i \in 1 .. n |-> Samples(Fields(type)[i])[pick[i]]] :
           pick \in {p \in [1 .. n -> 1 .. 3] :
                      \A i \in 1 .. n : p[i] <= Len(Samples(Fields(type)[i]))}}

(* A frame is written; the history has where it ends among all cells. *)
UpTo(k) == IF k = 0 THEN 0 ELSE frames[k].upto

PutFrame(cells, message) ==
    /\ wire' = wire \o cells
    /\ frames' = Append(frames, [cells |-> cells,
                                 upto |-> UpTo(Len(frames)) + Len(cells)])
    /\ meant' = Append(meant, message)
    /\ UNCHANGED <<reading, got>>

(* A message, as it is documented; one that is too long means nothing. *)
WriteMessage(m) ==
    PutFrame(Write(m), IF LengthOK(Len(Write(m))) THEN m ELSE NoMessage)

(* Frames that no Write makes: an unknown type, a length out of bounds, a message
   whose last field is cut short, and a string of which there is the length only,
   with so many digits, which an int may not hold. *)
TooLong == MessageOf("too long", <<>>)

WriteUnknown == PutFrame(Frame(0, <<1>>), NoMessage)
WriteOutOfBounds(length) ==
    /\ ~LengthOK(length)
    /\ PutFrame(<<length>> \o [i \in 1 .. Max({0, length - 1}) |-> 2], NoMessage)
CutShort(payload) == SubSeq(payload, 1, Len(payload) - 1)
WriteCutShort(m) ==
    /\ Decoded(m.type) # <<>>
    /\ PutFrame(Frame(TypeNumber(m.type), CutShort(appendMessage(m))), NoMessage)
WriteLengthOnly(digits, digit) ==
    LET payload == [i \in 1 .. digits |-> IF i < digits THEN Base + digit ELSE 1]
    IN  PutFrame(Frame(TypeNumber("Connect"), payload),
                 IF 2 * (digits + DigitsUp(payload)) < IntSize THEN NoMessage
                 ELSE TooLong)

(* A panic ends the process. *)
Crashed == \E k \in DOMAIN got : got[k] = Panicked

ReadLength ==
    /\ reading = NoLength /\ wire # <<>> /\ ~Crashed
    /\ reading' = Head(wire)
    /\ wire' = Tail(wire)
    /\ UNCHANGED <<got, frames, meant>>

(* The rest has arrived: it is skipped, or parsed. *)
ReadRest ==
    /\ reading # NoLength
    /\ LET n == Rest(reading)
       IN  /\ Len(wire) >= n
           /\ wire' = SubSeq(wire, n + 1, Len(wire))
           /\ got' = Append(got, Said(reading, SubSeq(wire, 1, n)))
    /\ reading' = NoLength
    /\ UNCHANGED <<frames, meant>>

CodecInit ==
    /\ wire = <<>> /\ reading = NoLength /\ got = <<>>
    /\ frames = <<>> /\ meant = <<>>

WriteStep ==
    \/ \E type \in Types : \E values \in Contents(type) :
         \/ WriteMessage(MessageOf(type, values))
         \/ WriteCutShort(MessageOf(type, values))
    \/ WriteUnknown
    \/ \E length \in (0 .. headerSize - 1) \cup {maxMessageSize + 1} :
         WriteOutOfBounds(length)
    \/ \E digits \in 2 .. maxMessageSize - headerSize, digit \in {0, Base - 1} :
         WriteLengthOnly(digits, digit)

CodecNext ==
    \/ Len(frames) < MaxFrames /\ WriteStep
    \/ ReadLength \/ ReadRest

CodecSpec == CodecInit /\ [][CodecNext]_codecVars

-----------------------------------------------------------------------------
(* Properties. *)

(* Each call of Read takes one frame, whatever it has to reject, and makes of it
   what it makes of that frame alone: an error never leaves it in the middle of a
   frame, and no frame is left on the wire, unless it has panicked. *)
Makes(cells) == Said(Head(cells), Tail(cells))

FramesInStep ==
    /\ Len(got) <= Len(frames)
    /\ \A k \in DOMAIN got : got[k] = Makes(frames[k].cells)
    /\ wire = <<>> /\ reading = NoLength => Len(got) = Len(frames)

(* Read gives back every message that the protocol has, value by value, and
   rejects all else: a string whose length needs another byte comes back whole,
   an integer keeps its sign, and what is cut short is not taken for a whole
   message.  The exceptions: a ReadyDeny, for which Read has no case, is
   rejected; a ConfirmCharmNotchCostsReceived comes back without its value, which
   Read does not look at (nor whether it is there); and a length that an int
   cannot hold loses its highest bits, which panics, or leaves a shorter string. *)
ReadsWhatWasWritten ==
    \A k \in DOMAIN got :
      CASE meant[k].type = "ReadyDeny" -> got[k] = NoMessage
        [] meant[k].type = "ConfirmCharmNotchCostsReceived" ->
             got[k] = MessageOf(meant[k].type, <<>>)
        [] meant[k] = TooLong ->
             got[k] \in {Panicked, MessageOf("Connect", << <<>> >>)}
        [] OTHER -> got[k] = meant[k]

(* What mw-protocol.md says of Ready Deny, "Sent by the server to indicate that
   the client cannot join a room", and the case for it in setupMW expect: mwproto's
   Read gives it back. *)
ReadyDenyReported ==
    \A k \in DOMAIN got : meant[k].type = "ReadyDeny" => got[k] = meant[k]

-----------------------------------------------------------------------------
(* What Write makes of the values of a message is cells. *)
PayloadsAreCells ==
    \A type \in Types : \A values \in Contents(type) :
      appendMessage(MessageOf(type, values)) \in Seq(Nat)

(* The invariant behind FramesInStep: Read is at the beginning of a frame, or
   behind its length, and what is on the wire from there on is the rest of the
   frames.  A frame has the length that it says. *)
FrameOK(cells) ==
    /\ cells \in Seq(Nat) /\ cells # <<>>
    /\ Len(cells) = lengthFieldSize + Rest(Head(cells))

taken == Len(got)
Position == UpTo(taken) + (IF reading = NoLength THEN 0 ELSE lengthFieldSize)

FramesOK ==
    /\ frames \in Seq([cells : Seq(Nat), upto : Nat])
    /\ \A k \in DOMAIN frames :
         /\ FrameOK(frames[k].cells)
         /\ UpTo(k) = UpTo(k - 1) + Len(frames[k].cells)
    /\ \A j, k \in 0 .. Len(frames) : j < k => UpTo(j) < UpTo(k)

WireOK ==
    /\ wire \in Seq(Nat) /\ Len(wire) = UpTo(Len(frames)) - Position
    /\ \A k \in taken + 1 .. Len(frames) : \A i \in DOMAIN frames[k].cells :
         UpTo(k - 1) + i > Position =>
           wire[UpTo(k - 1) + i - Position] = frames[k].cells[i]

ReadOK ==
    /\ got \in Seq(ToSet(got)) /\ taken <= Len(frames)
    /\ \A k \in 1 .. taken : got[k] = Makes(frames[k].cells)
    /\ reading # NoLength =>
         taken < Len(frames) /\ reading = Head(frames[taken + 1].cells)

CodecInv == FramesOK /\ WireOK /\ ReadOK
=============================================================================
