--------------------------- MODULE APServerProofs ---------------------------
(***************************************************************************)
(* The one-client rule of the AP server and the order of its clients,      *)
(* for any number of them.                                                 *)
(***************************************************************************)
EXTENDS APServer, SequenceTheorems, TLAPS

SlotInv == SlotTypeOK /\ OneClient

(* At first nobody has the slot. *)
LEMMA SlotInit == ServerInit => SlotInv
  BY DEF ServerInit, SlotInv, SlotTypeOK, OneClient, Holding, Handler

(* A goroutine that moves within the slot, or outside of it, changes nothing. *)
LEMMA SlotKept ==
    ASSUME SlotInv, NEW c \in Conn, NEW here, NEW there, At(c, here, there),
           there \in Handler, here \in Holding <=> there \in Holding,
           seen' \in [Conn -> {0, 1}], num' = num
    PROVE  SlotInv'
<1>1. /\ handler' \in [Conn -> Handler]
      /\ \A d \in Conn : handler'[d] \in Holding <=> handler[d] \in Holding
  BY DEF At, SlotInv, SlotTypeOK
<1> QED BY <1>1 DEF SlotInv, SlotTypeOK, OneClient

(* One step of any goroutine leaves at most one handler in the slot, counted by
   numConnections. *)
LEMMA SlotStep == SlotInv /\ [ServerNext]_serverVars => SlotInv'
<1> SUFFICES ASSUME SlotInv, [ServerNext]_serverVars PROVE SlotInv' OBVIOUS
<1>s. seen \in [Conn -> {0, 1}] BY DEF SlotInv, SlotTypeOK
<1>n. num \in {0, 1} BY DEF SlotInv, OneClient
<1>u. ASSUME UNCHANGED <<handler, seen, num>> PROVE SlotInv'
  BY <1>u DEF SlotInv, SlotTypeOK, OneClient
<1>1. ASSUME NEW c \in Conn, ClientStep(c) PROVE SlotInv'
  <2>1. CASE Dial(c)
    BY <2>1, <1>s, SlotKept DEF Dial, Handler, Holding
  <2>2. CASE Type(c) \/ HangUp(c)
    BY <2>2, <1>u DEF Type, HangUp
  <2> QED BY <1>1, <2>1, <2>2 DEF ClientStep
<1>2. ASSUME NEW c \in Conn, HandlerStep(c) PROVE SlotInv'
  <2>1. CASE Load(c)
    <3>1. seen' \in [Conn -> {0, 1}] BY <2>1, <1>s, <1>n DEF Load
    <3> QED BY <2>1, <3>1, SlotKept DEF Load, Handler, Holding
  <2>2. CASE TakeSlot(c)
    <3>1. \A d \in Conn : handler[d] \notin Holding
      BY <2>2 DEF TakeSlot, SlotInv, OneClient
    <3>2. /\ handler' \in [Conn -> Handler] /\ handler'[c] = "queue"
          /\ \A d \in Conn : d # c => handler'[d] = handler[d]
      BY <2>2 DEF TakeSlot, At, SlotInv, SlotTypeOK, Handler, Holding
    <3>3. num' = 1 /\ seen' = seen BY <2>2 DEF TakeSlot
    <3> QED BY <3>1, <3>2, <3>3, <1>s DEF SlotInv, SlotTypeOK, OneClient, Holding
  <2>3. CASE Reject(c)
    BY <2>3, <1>s, SlotKept DEF Reject, Handler, Holding
  <2>4. CASE Enqueue(c) \/ Read(c) \/ Push(c) \/ ReadError(c) \/ Bye(c)
    BY <2>4, <1>s, SlotKept
       DEF Enqueue, Read, Push, ReadError, Bye, Handler, Holding
  <2>5. CASE ReadGarbage(c)
    BY <2>5, <1>u DEF ReadGarbage
  <2>6. CASE Leave(c)
    <3>1. \A d \in Conn : handler[d] \in Holding => d = c
      BY <2>6 DEF Leave, At, SlotInv, OneClient, Holding
    <3>2. num = 1
      BY <2>6 DEF Leave, At, SlotInv, OneClient, Holding
    <3>3. /\ handler' \in [Conn -> Handler] /\ handler'[c] = "done"
          /\ \A d \in Conn : d # c => handler'[d] = handler[d]
      BY <2>6 DEF Leave, At, SlotInv, SlotTypeOK, Handler
    <3>4. num' = 0 /\ seen' = seen BY <2>6, <3>2 DEF Leave
    <3>5. \A d \in Conn : handler'[d] \notin Holding BY <3>1, <3>3 DEF Holding
    <3> QED BY <3>3, <3>4, <3>5, <1>s DEF SlotInv, SlotTypeOK, OneClient
  <2> QED BY <1>2, <2>1, <2>2, <2>3, <2>4, <2>5, <2>6 DEF HandlerStep
<1>3. ASSUME NEW c \in Conn, WriterStep(c) PROVE SlotInv'
  BY <1>3, <1>u DEF WriterStep, Write, WriterCloses, WriterCancelled
<1>4. CASE MainStep \/ MWStep
  BY <1>4, <1>u DEF MainStep, MWStep, Accept, Send, Handle, HandleItem,
     ClientGone, MWGone, EndSession
<1>5. CASE UNCHANGED serverVars
  BY <1>5, <1>u DEF serverVars
<1> QED BY <1>1, <1>2, <1>3, <1>4, <1>5 DEF ServerNext

(* Whatever the number of clients and the moments at which they connect and
   leave, at most one handler of handleConnection is past the check of
   numConnections, and the counter is 1 exactly then. *)
THEOREM OneClientAtATime == ServerSpec => []OneClient
<1>1. ServerInit => SlotInv BY SlotInit
<1>2. SlotInv /\ [ServerNext]_serverVars => SlotInv' BY SlotStep
<1>3. SlotInv => OneClient BY DEF SlotInv
<1> QED BY <1>1, <1>2, <1>3, PTL DEF ServerSpec

-----------------------------------------------------------------------------
(* Turns. *)

(* Two facts about the connections in the channel. *)
LEMMA QueueSeq ==
    ASSUME NEW s \in Seq(Conn), NEW q \in Seq(Conn)
    PROVE  /\ \A c \in Conn : Append(s \o q, c) = s \o Append(q, c)
           /\ q # <<>> => Append(s, Head(q)) \o Tail(q) = s \o q
           /\ \A i \in DOMAIN s : i \in DOMAIN (s \o q) /\ (s \o q)[i] = s[i]
<1>0. s \o q \in Seq(Conn) /\ \A c \in Conn : <<c>> \in Seq(Conn)
  BY ConcatProperties
<1>1. ASSUME NEW c \in Conn PROVE Append(s \o q, c) = s \o Append(q, c)
  <2>1. Append(s \o q, c) = (s \o q) \o <<c>> BY <1>0, AppendIsConcat
  <2>2. Append(q, c) = q \o <<c>> BY AppendIsConcat
  <2> QED BY <2>1, <2>2, <1>0, ConcatAssociative
<1>2. ASSUME q # <<>> PROVE Append(s, Head(q)) \o Tail(q) = s \o q
  <2>1. Head(q) \in Conn /\ Tail(q) \in Seq(Conn) BY <1>2, HeadTailProperties
  <2>2. Append(s, Head(q)) = s \o <<Head(q)>> BY <2>1, AppendIsConcat
  <2>3. q = <<Head(q)>> \o Tail(q) BY <1>2
  <2>4. (s \o <<Head(q)>>) \o Tail(q) = s \o (<<Head(q)>> \o Tail(q))
    BY <2>1, <1>0, ConcatAssociative
  <2> QED BY <2>2, <2>3, <2>4
<1>3. ASSUME NEW i \in DOMAIN s PROVE i \in DOMAIN (s \o q) /\ (s \o q)[i] = s[i]
  <2>1. Len(s) \in Nat /\ Len(q) \in Nat /\ DOMAIN s = 1 .. Len(s) BY LenProperties
  <2>2. DOMAIN (s \o q) = 1 .. Len(s) + Len(q) BY <1>0, ConcatProperties, LenProperties
  <2>3. i \in 1 .. Len(s) + Len(q) /\ i <= Len(s) BY <2>1
  <2>4. (s \o q)[i] = IF i <= Len(s) THEN s[i] ELSE q[i - Len(s)]
    BY <2>3, ConcatProperties
  <2> QED BY <2>2, <2>3, <2>4
<1> QED BY <1>1, <1>2, <1>3

(* A step that neither puts a connection into the channel nor brings a handler
   there keeps everyone's turn. *)
LEMMA TurnKept ==
    ASSUME TurnInv, UNCHANGED <<queue, turns, served>>,
           \A c \in Conn : handler'[c] = "queue" <=> handler[c] = "queue"
    PROVE  TurnInv'
  BY DEF TurnInv

LEMMA TurnMove ==
    ASSUME SlotInv, TurnInv, NEW c \in Conn, NEW here, NEW there, At(c, here, there),
           here # "queue", there # "queue", UNCHANGED <<queue, turns, served>>
    PROVE  TurnInv'
<1>1. \A d \in Conn : handler'[d] = "queue" <=> handler[d] = "queue"
  BY DEF At, SlotInv, SlotTypeOK
<1> QED BY <1>1, TurnKept

(* One step of any goroutine keeps those who got the slot in a row. *)
LEMMA TurnStep == SlotInv /\ TurnInv /\ [ServerNext]_serverVars => TurnInv'
<1> SUFFICES ASSUME SlotInv, TurnInv, [ServerNext]_serverVars PROVE TurnInv' OBVIOUS
<1>s. turns \in Seq(Conn) /\ served \in Seq(Conn) /\ queue \in Seq(Conn)
  BY DEF TurnInv
<1>u. ASSUME UNCHANGED <<handler, queue, turns, served>> PROVE TurnInv'
  BY <1>u DEF TurnInv
<1>1. ASSUME NEW c \in Conn, ClientStep(c) PROVE TurnInv'
  <2>1. CASE Dial(c) BY <2>1, TurnMove DEF Dial, order
  <2>2. CASE Type(c) \/ HangUp(c) BY <2>2, <1>u DEF Type, HangUp, order
  <2> QED BY <1>1, <2>1, <2>2 DEF ClientStep
<1>2. ASSUME NEW c \in Conn, HandlerStep(c) PROVE TurnInv'
  <2>1. CASE Load(c) \/ Reject(c) BY <2>1, TurnMove DEF Load, Reject, order
  <2>2. CASE TakeSlot(c)
    <3>1. \A d \in Conn : handler[d] # "queue"
      BY <2>2 DEF TakeSlot, SlotInv, OneClient, Holding
    <3>2. turns = served \o queue BY <3>1 DEF TurnInv
    <3>3. turns' = Append(turns, c) /\ UNCHANGED <<served, queue>>
      BY <2>2 DEF TakeSlot
    <3>4. \A d \in Conn : handler'[d] = "queue" <=> d = c
      BY <2>2, <3>1 DEF TakeSlot, At, SlotInv, SlotTypeOK
    <3>5. turns' \in Seq(Conn) BY <3>3, <1>s
    <3> QED BY <3>2, <3>3, <3>4, <3>5, <1>s DEF TurnInv
  <2>3. CASE Enqueue(c)
    <3>1. handler[c] = "queue" /\ queue' = Append(queue, c) /\ UNCHANGED <<turns, served>>
      BY <2>3 DEF Enqueue, At, order
    <3>2. \A d \in Conn : handler[d] = "queue" => d = c
      BY <3>1 DEF SlotInv, OneClient, Holding
    <3>3. turns = served \o queue' BY <3>1, <1>s, QueueSeq DEF TurnInv
    <3>4. \A d \in Conn : handler'[d] # "queue"
      BY <2>3, <3>2 DEF Enqueue, At, SlotInv, SlotTypeOK
    <3>5. queue' \in Seq(Conn) BY <3>1, <1>s
    <3> QED BY <3>1, <3>3, <3>4, <3>5, <1>s DEF TurnInv
  <2>4. CASE Read(c) \/ Push(c) \/ ReadError(c) \/ Bye(c) \/ Leave(c)
    BY <2>4, TurnMove DEF Read, Push, ReadError, Bye, Leave, order
  <2>5. CASE ReadGarbage(c) BY <2>5, <1>u DEF ReadGarbage, order
  <2> QED BY <1>2, <2>1, <2>2, <2>3, <2>4, <2>5 DEF HandlerStep
<1>3. ASSUME NEW c \in Conn, WriterStep(c) PROVE TurnInv'
  BY <1>3, <1>u DEF WriterStep, Write, WriterCloses, WriterCancelled, order
<1>4. CASE Accept
  <2>1. /\ queue # <<>> /\ queue' = Tail(queue)
        /\ served' = Append(served, Head(queue)) /\ UNCHANGED <<turns, handler>>
    BY <1>4 DEF Accept
  <2>2. served' \o queue' = served \o queue BY <2>1, <1>s, QueueSeq
  <2>3. queue' \in Seq(Conn) /\ served' \in Seq(Conn) BY <2>1, <1>s
  <2> QED BY <2>1, <2>2, <2>3, <1>s DEF TurnInv
<1>5. CASE Send \/ ClientGone \/ MWStep \/ \E n \in 0 .. MaxAnswers : Handle(n)
  BY <1>5, <1>u DEF Send, ClientGone, MWStep, HandleItem, MWGone, Handle, EndSession,
     order
<1>6. CASE UNCHANGED serverVars BY <1>6, <1>u DEF serverVars, order
<1> QED BY <1>1, <1>2, <1>3, <1>4, <1>5, <1>6 DEF ServerNext, MainStep

(* Whatever the number of clients and the moments at which they come and go, the
   main loop serves them in the order in which they got the slot: the channel
   holds what the compare-and-swap let in, and no handler overtakes another
   between the two. *)
THEOREM ClientsInTurn == ServerSpec => []ServedInTurn
<1>1. ServerInit => SlotInv /\ TurnInv
  <2>1. ServerInit => TurnInv
    <3>1. <<>> \in Seq(Conn) /\ <<>> = <<>> \o <<>> OBVIOUS
    <3> QED BY <3>1 DEF ServerInit, TurnInv
  <2> QED BY <2>1, SlotInit
<1>2. SlotInv /\ TurnInv /\ [ServerNext]_serverVars => (SlotInv /\ TurnInv)'
  BY SlotStep, TurnStep
<1>3. SlotInv /\ TurnInv => ServedInTurn
  <2> SUFFICES ASSUME SlotInv, TurnInv, NEW i \in DOMAIN served
               PROVE  i \in DOMAIN turns /\ served[i] = turns[i]
    BY DEF ServedInTurn
  <2>s. served \in Seq(Conn) /\ queue \in Seq(Conn) /\ turns \in Seq(Conn) BY DEF TurnInv
  <2>q. i \in DOMAIN (served \o queue) /\ (served \o queue)[i] = served[i]
    BY <2>s, QueueSeq
  <2>1. CASE \E c \in Conn : handler[c] = "queue"
    <3>1. PICK c \in Conn : turns = Append(served \o queue, c) BY <2>1 DEF TurnInv
    <3>2. Append(served \o queue, c) = served \o Append(queue, c) BY <2>s, QueueSeq
    <3>3. Append(queue, c) \in Seq(Conn) BY <2>s
    <3> QED BY <3>1, <3>2, <3>3, <2>s, QueueSeq
  <2>2. CASE \A c \in Conn : handler[c] # "queue"
    BY <2>2, <2>q DEF TurnInv
  <2> QED BY <2>1, <2>2
<1> QED BY <1>1, <1>2, <1>3, PTL DEF ServerSpec

=============================================================================
