--------------------------- MODULE APClientProofs ---------------------------
(***************************************************************************)
(* What the client of the AP server says and what is stored for it: proofs *)
(* about Commands, for packets of any length and any set of commands, and  *)
(* about DataStorage, for every set of keys, defaults and operations and   *)
(* for chains of every length.                                             *)
(***************************************************************************)
EXTENDS Commands, DataStorage, SequenceTheorems, TLAPS

-----------------------------------------------------------------------------
(* Commands: what reaches the main loop is what the client has named. *)

(* The values that were read stay as they are, so what was named last among them
   does, too. *)
LEMMA NamedStays ==
    ASSUME NEW n \in Nat, \A m \in 1 .. n : sent'[m] = sent[m],
           NEW cmd, LastNamed(cmd, n)
    PROVE  LastNamed(cmd, n)'
<1>1. PICK m \in 1 .. n :
        /\ Meant(m) /\ sent[m].cmd = cmd
        /\ \A k \in m + 1 .. n : ~Meant(k)
  BY DEF LastNamed
<1>2. sent'[m].cmd \notin {"absent", "bad"} /\ sent'[m].cmd = cmd
  BY <1>1 DEF Meant
<1>3. \A k \in m + 1 .. n : ~(sent'[k].cmd \notin {"absent", "bad"})
  <2> TAKE k \in m + 1 .. n
  <2>1. k \in 1 .. n
    BY <1>1
  <2> QED
    BY <2>1, <1>1 DEF Meant
<1> QED
  BY <1>1, <1>2, <1>3 DEF LastNamed, Meant

(* What the decoding of one value makes of Cmd. *)
LEMMA NamedNext ==
    ASSUME CommandsInv, NextMessage, Cmd' = Named(Current)
    PROVE  /\ Current \in Message /\ decoded' = decoded + 1
           /\ decoded \in Nat /\ decoded + 1 <= Len(sent) /\ sent' = sent
           /\ Cmd' \in Kinds \cup {NoCmd, "unknown"}
           /\ Cmd' # NoCmd => LastNamed(Cmd', decoded + 1)
<1>1. /\ decoded \in Nat /\ buf \in Nat /\ buf > 0 /\ decoded + buf = Len(sent)
      /\ sent \in Seq(Message) /\ decoded' = decoded + 1 /\ sent' = sent
  BY DEF CommandsInv, CommandsTypeOK, NextMessage
<1>2. decoded + 1 \in 1 .. Len(sent)
  BY <1>1, LenProperties
<1>3. Current \in Message
  BY <1>1, <1>2, ElementOfSeq DEF Current
<1>4. CASE Current.cmd \in {"absent", "bad"}
  <2>1. Cmd' = Cmd
    BY <1>4 DEF Named
  <2>2. ASSUME Cmd # NoCmd
        PROVE  LastNamed(Cmd, decoded + 1)
    <3>1. PICK m \in 1 .. decoded :
            /\ Meant(m) /\ sent[m].cmd = Cmd
            /\ \A k \in m + 1 .. decoded : ~Meant(k)
      BY <2>2 DEF CommandsInv, LastNamed
    <3>2. ~Meant(decoded + 1)
      BY <1>4 DEF Meant, Current
    <3>3. \A k \in m + 1 .. decoded + 1 : ~Meant(k)
      BY <3>1, <3>2, <1>1
    <3>4. m \in 1 .. decoded + 1
      BY <1>1
    <3> QED
      BY <3>1, <3>3, <3>4 DEF LastNamed
  <2> QED
    BY <1>1, <1>2, <1>3, <2>1, <2>2 DEF CommandsInv, CommandsTypeOK
<1>5. CASE Current.cmd \notin {"absent", "bad"}
  <2>1. Cmd' = Current.cmd
    BY <1>5 DEF Named
  <2>2. Current.cmd \in Kinds \cup {"unknown"}
    BY <1>3, <1>5 DEF Message
  <2>3. LastNamed(Current.cmd, decoded + 1)
    <3>1. Meant(decoded + 1) /\ sent[decoded + 1].cmd = Current.cmd
      BY <1>5 DEF Meant, Current
    <3>2. decoded + 1 \in 1 .. decoded + 1 /\ (decoded + 1) + 1 .. decoded + 1 = {}
      BY <1>1
    <3> QED
      BY <3>1, <3>2 DEF LastNamed
  <2> QED
    BY <1>1, <1>2, <1>3, <2>1, <2>2, <2>3
<1> QED
  BY <1>4, <1>5

(* The first state. *)
LEMMA CommandsInvInit == CommandsInit => CommandsInv
<1> SUFFICES ASSUME CommandsInit PROVE CommandsInv
  OBVIOUS
<1>1. /\ sent = <<>> /\ buf = 0 /\ decoded = 0 /\ Cmd = NoCmd /\ inbox = <<>>
      /\ gone = FALSE
  BY DEF CommandsInit
<1>2. gone \in BOOLEAN /\ (gone => buf = 0)
  BY <1>1, Zenon
<1>3. CommandsTypeOK
  BY <1>1, <1>2 DEF CommandsTypeOK
<1>4. 1 .. decoded = {} /\ DOMAIN inbox = {}
  BY <1>1
<1> QED
  BY <1>1, <1>3, <1>4, Zenon DEF CommandsInv, NilMeansGone, CommandsAsNamed

(* What is in the inbox goes on meaning the same, whatever is read or sent to
   it behind. *)
LEMMA InboxKept ==
    ASSUME CommandsInv, \A m \in 1 .. decoded : sent'[m] = sent[m],
           DOMAIN inbox \subseteq DOMAIN inbox',
           \A i \in DOMAIN inbox : inbox'[i] = inbox[i]
    PROVE  /\ \A n \in 1 .. decoded :
                sent'[n].cmd \in {"Sync"} \cup (sent'[n].fits \cap Parsed) =>
                  \E i \in DOMAIN inbox' :
                      inbox'[i] = [kind |-> sent'[n].cmd, no |-> n]
           /\ \A i \in DOMAIN inbox : \A c : c = inbox[i] /\ c # Nil =>
                /\ \A j \in 1 .. i - 1 : inbox'[j].no < c.no
                /\ sent'[c.no].cmd # "bad"
                /\ LastNamed(c.kind, c.no)'
<1>1. /\ decoded \in Nat /\ inbox \in Seq([kind : Kinds \cup {"nil"}, no : Nat])
      /\ DOMAIN inbox = 1 .. Len(inbox) /\ Len(inbox) \in Nat
  BY LenProperties DEF CommandsInv, CommandsTypeOK
<1>2. ASSUME NEW n \in 1 .. decoded,
             sent'[n].cmd \in {"Sync"} \cup (sent'[n].fits \cap Parsed)
      PROVE  \E i \in DOMAIN inbox' :
               inbox'[i] = [kind |-> sent'[n].cmd, no |-> n]
  <2>1. sent'[n] = sent[n]
    OBVIOUS
  <2>2. Contains(inbox, [kind |-> sent[n].cmd, no |-> n])
    BY <1>2, <2>1 DEF CommandsInv, CommandsAsNamed
  <2> QED
    BY <1>1, <2>1, <2>2 DEF Contains
<1>3. ASSUME NEW i \in DOMAIN inbox, NEW c, c = inbox[i], c # Nil
      PROVE  /\ \A j \in 1 .. i - 1 : inbox'[j].no < c.no
             /\ sent'[c.no].cmd # "bad"
             /\ LastNamed(c.kind, c.no)'
  <2>1. /\ \A j \in 1 .. i - 1 : inbox[j].no < c.no
        /\ sent[c.no].cmd # "bad"
        /\ LastNamed(c.kind, c.no)
        /\ c.no <= decoded
    BY <1>3 DEF CommandsInv, CommandsAsNamed
  <2>2. c.no \in Nat
    <3>1. c \in [kind : Kinds \cup {"nil"}, no : Nat]
      BY <1>1, <1>3, ElementOfSeq
    <3> QED
      BY <3>1
  <2>3. c.no \in 1 .. decoded
    BY <1>1, <2>1, <2>2 DEF LastNamed
  <2>4. \A j \in 1 .. i - 1 : j \in DOMAIN inbox
    BY <1>1
  <2>5. \A m \in 1 .. c.no : m \in 1 .. decoded
    BY <1>1, <2>2, <2>3
  <2>6. LastNamed(c.kind, c.no)'
    BY <2>1, <2>2, <2>5, NamedStays
  <2> QED
    BY <2>1, <2>3, <2>4, <2>6
<1> QED
  BY <1>2, <1>3

(* One more message in the inbox. *)
LEMMA InboxMore ==
    ASSUME CommandsInv, NEW e \in [kind : Kinds \cup {"nil"}, no : Nat],
           inbox' = Append(inbox, e)
    PROVE  /\ inbox \in Seq([kind : Kinds \cup {"nil"}, no : Nat])
           /\ Len(inbox) \in Nat /\ DOMAIN inbox = 1 .. Len(inbox)
           /\ inbox' \in Seq([kind : Kinds \cup {"nil"}, no : Nat])
           /\ Len(inbox') = Len(inbox) + 1
           /\ DOMAIN inbox' = 1 .. Len(inbox) + 1
           /\ \A i \in DOMAIN inbox : i \in DOMAIN inbox' /\ inbox'[i] = inbox[i]
           /\ inbox'[Len(inbox) + 1] = e
           /\ \A i \in DOMAIN inbox' : i \in DOMAIN inbox \/ i = Len(inbox) + 1
<1> DEFINE E == [kind : Kinds \cup {"nil"}, no : Nat]
<1>1. inbox \in Seq(E) /\ e \in E
  BY DEF CommandsInv, CommandsTypeOK
<1> HIDE DEF E
<1>2. /\ inbox' \in Seq(E) /\ Len(inbox') = Len(inbox) + 1
      /\ \A i \in 1 .. Len(inbox) : inbox'[i] = inbox[i]
      /\ inbox'[Len(inbox) + 1] = e
  BY <1>1, AppendProperties
<1>3. /\ Len(inbox) \in Nat /\ DOMAIN inbox = 1 .. Len(inbox)
      /\ DOMAIN inbox' = 1 .. Len(inbox) + 1
  BY <1>1, <1>2, LenProperties
<1> QED
  BY <1>1, <1>2, <1>3 DEF E

(* While the handler runs there is no nil in the inbox. *)
LEMMA NoNilYet ==
    ASSUME CommandsInv, ~gone
    PROVE  \A i \in DOMAIN inbox : inbox[i] # Nil
BY Zenon DEF CommandsInv, NilMeansGone

(* The handler runs, and there is no nil in the inbox. *)
LEMMA NoNilStill ==
    ASSUME ~gone', \A i \in DOMAIN inbox' : inbox'[i] # Nil
    PROVE  NilMeansGone'
BY Zenon DEF NilMeansGone, Nil

(* A packet that is read makes no difference to what was decoded before. *)
LEMMA ReadPacketStep == CommandsInv /\ ReadPacket => CommandsInv'
<1> SUFFICES ASSUME CommandsInv, ReadPacket PROVE CommandsInv'
  OBVIOUS
<1>1. PICK p \in SeqOf(Message, 2) : sent' = sent \o p /\ buf' = Len(p)
  BY DEF ReadPacket
<1>2. /\ decoded' = decoded /\ Cmd' = Cmd /\ inbox' = inbox /\ gone' = gone
      /\ buf = 0
  BY DEF ReadPacket
<1>3. /\ decoded \in Nat /\ decoded = Len(sent) /\ sent \in Seq(Message)
      /\ gone \in BOOLEAN
  BY <1>2 DEF CommandsInv, CommandsTypeOK
<1>4. ~gone'
  <2>1. ~gone
    BY DEF ReadPacket
  <2> QED
    BY <1>2, <2>1, Zenon
<1>5. p \in Seq(Message) /\ Len(p) \in Nat
  <2>1. PICK n \in 0 .. 2 : p \in [1 .. n -> Message]
    BY DEF SeqOf
  <2> QED
    BY <2>1, IsASeq, LenProperties
<1>6. /\ sent' \in Seq(Message) /\ Len(sent') = Len(sent) + Len(p)
      /\ \A m \in 1 .. decoded : sent'[m] = sent[m]
  <2>1. \A m \in 1 .. decoded : m \in 1 .. Len(sent) + Len(p) /\ m <= Len(sent)
    BY <1>3, <1>5
  <2> QED
    BY <2>1, <1>1, <1>3, <1>5, ConcatProperties
<1>7. CommandsTypeOK'
  <2>1. gone' \in BOOLEAN /\ (gone' => buf' = 0)
    BY <1>4, <1>3, <1>2, Zenon
  <2>2. sent' \in Seq(Message) /\ buf' \in Nat /\ decoded' + buf' = Len(sent')
    BY <1>1, <1>2, <1>3, <1>5, <1>6
  <2>3. decoded' \in Nat /\ Cmd' \in Kinds \cup {NoCmd, "unknown"}
    BY <1>2 DEF CommandsInv, CommandsTypeOK
  <2>4. inbox' \in Seq([kind : Kinds \cup {"nil"}, no : Nat])
    BY <1>2 DEF CommandsInv, CommandsTypeOK
  <2> QED
    BY <2>1, <2>2, <2>3, <2>4, Zenon DEF CommandsTypeOK
<1>8. CommandsAsNamed'
  BY <1>2, <1>6, InboxKept DEF CommandsAsNamed, Contains
<1>9. NilMeansGone'
  BY <1>2, Zenon DEF CommandsInv, NilMeansGone, Nil
<1>10. (Cmd # NoCmd => LastNamed(Cmd, decoded))'
  <2> SUFFICES ASSUME Cmd # NoCmd PROVE LastNamed(Cmd, decoded)'
    BY <1>2 DEF NoCmd
  <2>1. PICK c, d : c = Cmd /\ d = decoded
    OBVIOUS
  <2>2. LastNamed(c, d)'
    BY <2>1, <1>3, <1>6, NamedStays DEF CommandsInv
  <2> QED
    BY <1>2, <2>1, <2>2 DEF LastNamed, Meant
<1> QED
  BY <1>2, <1>7, <1>8, <1>9, <1>10 DEF CommandsInv

(* The end of the connection puts nil behind all that was sent. *)
LEMMA ReadErrorStep == CommandsInv /\ ReadError => CommandsInv'
<1> SUFFICES ASSUME CommandsInv, ReadError PROVE CommandsInv'
  OBVIOUS
<1>1. /\ decoded' = decoded /\ Cmd' = Cmd /\ sent' = sent /\ buf' = buf
      /\ buf = 0 /\ inbox' = Append(inbox, Nil)
  BY DEF ReadError
<1>2. ~gone /\ gone' = TRUE
  BY DEF ReadError
<1>3. Nil \in [kind : Kinds \cup {"nil"}, no : Nat] /\ Nil.no = 0
  BY DEF Nil
<1>4. CommandsTypeOK'
  <2>1. gone' \in BOOLEAN /\ (gone' => buf' = 0)
    BY <1>1, <1>2, Zenon
  <2>2. /\ sent' \in Seq(Message) /\ buf' \in Nat /\ decoded' \in Nat
        /\ decoded' + buf' = Len(sent') /\ Cmd' \in Kinds \cup {NoCmd, "unknown"}
    BY <1>1 DEF CommandsInv, CommandsTypeOK
  <2>3. inbox' \in Seq([kind : Kinds \cup {"nil"}, no : Nat])
    BY <1>1, <1>3, InboxMore
  <2> QED
    BY <2>1, <2>2, <2>3, Zenon DEF CommandsTypeOK
<1>5. NilMeansGone'
  <2>1. \A i \in DOMAIN inbox : inbox[i] # Nil
    BY <1>2, NoNilYet
  <2>2. \A i \in DOMAIN inbox' : inbox'[i] = Nil <=> i = Len(inbox')
    BY <2>1, <1>1, <1>3, InboxMore
  <2> QED
    BY <2>2, <1>2, Zenon DEF NilMeansGone, Nil
<1>6. CommandsAsNamed'
  <2>1. /\ Len(inbox) \in Nat /\ DOMAIN inbox = 1 .. Len(inbox)
        /\ Len(inbox') = Len(inbox) + 1 /\ DOMAIN inbox' = 1 .. Len(inbox) + 1
        /\ \A i \in DOMAIN inbox : i \in DOMAIN inbox' /\ inbox'[i] = inbox[i]
        /\ inbox'[Len(inbox) + 1] = Nil
        /\ \A i \in DOMAIN inbox' : i \in DOMAIN inbox \/ i = Len(inbox) + 1
    BY <1>1, <1>3, InboxMore
  <2>2. ASSUME NEW n \in 1 .. decoded',
               sent'[n].cmd \in {"Sync"} \cup (sent'[n].fits \cap Parsed)
        PROVE  Contains(inbox', [kind |-> sent'[n].cmd, no |-> n])
    BY <1>1, <2>1, <2>2, InboxKept DEF Contains
  <2>3. ASSUME NEW i \in DOMAIN inbox', NEW m, m = inbox'[i], m # Nil
        PROVE  /\ \A j \in 1 .. i - 1 : inbox'[j].no < m.no
               /\ sent'[m.no].cmd # "bad"
               /\ LastNamed(m.kind, m.no)'
    <3>1. i \in DOMAIN inbox /\ m = inbox[i]
      BY <2>1, <2>3
    <3> QED
      BY <3>1, <1>1, <2>1, <2>3, InboxKept
  <2> QED
    BY <2>2, <2>3 DEF CommandsAsNamed, Contains, LastNamed, Meant, Nil
<1>7. (\A i \in DOMAIN inbox : inbox[i].no <= decoded)'
  BY <1>1, <1>3, InboxMore DEF CommandsInv, CommandsTypeOK
<1>8. (Cmd # NoCmd => LastNamed(Cmd, decoded))'
  BY <1>1 DEF CommandsInv, LastNamed, Meant, NoCmd
<1> QED
  BY <1>4, <1>5, <1>6, <1>7, <1>8 DEF CommandsInv

(* The variables that Deliver and Drop change alike. *)
LEMMA DecodedType ==
    ASSUME CommandsInv, NextMessage, Cmd' = Named(Current),
           inbox' \in Seq([kind : Kinds \cup {"nil"}, no : Nat])
    PROVE  /\ CommandsTypeOK' /\ ~gone /\ ~gone'
           /\ (Cmd # NoCmd => LastNamed(Cmd, decoded))'
<1>1. /\ buf \in Nat /\ buf # 0 /\ gone' = gone /\ buf' = buf - 1
      /\ decoded' = decoded + 1 /\ decoded \in Nat
      /\ decoded + buf = Len(sent) /\ sent \in Seq(Message) /\ sent' = sent
  BY DEF CommandsInv, CommandsTypeOK, NextMessage
<1>2. gone \in BOOLEAN /\ (gone => buf = 0)
  BY DEF CommandsInv, CommandsTypeOK
<1>3. ~gone /\ ~gone' /\ gone' \in BOOLEAN /\ (gone' => buf' = 0)
  BY <1>1, <1>2, Zenon
<1>4. /\ sent' \in Seq(Message) /\ buf' \in Nat /\ decoded' \in Nat
      /\ decoded' + buf' = Len(sent')
  BY <1>1
<1>5. Cmd' \in Kinds \cup {NoCmd, "unknown"}
  BY NamedNext
<1>6. CommandsTypeOK'
  BY <1>3, <1>4, <1>5, Zenon DEF CommandsTypeOK
<1>7. (Cmd # NoCmd => LastNamed(Cmd, decoded))'
  <2> SUFFICES ASSUME Cmd' # NoCmd PROVE LastNamed(Cmd, decoded)'
    BY DEF NoCmd
  <2>1. LastNamed(Cmd', decoded + 1)
    BY NamedNext
  <2> QED
    BY <2>1, <1>1 DEF LastNamed, Meant
<1> QED
  BY <1>3, <1>6, <1>7

(* A value that is dropped names no command that the server knows and that its
   arguments fit. *)
LEMMA DropStep == CommandsInv /\ Drop => CommandsInv'
<1> SUFFICES ASSUME CommandsInv, Drop PROVE CommandsInv'
  OBVIOUS
<1>1. /\ NextMessage /\ (Current.cmd = "bad" \/ ~Parses(Current))
      /\ Cmd' = Named(Current) /\ inbox' = inbox
  BY DEF Drop
<1>2. inbox' \in Seq([kind : Kinds \cup {"nil"}, no : Nat])
  BY <1>1 DEF CommandsInv, CommandsTypeOK
<1>3. /\ CommandsTypeOK' /\ ~gone /\ ~gone'
      /\ (Cmd # NoCmd => LastNamed(Cmd, decoded))'
  BY <1>1, <1>2, DecodedType
<1>4. NilMeansGone'
  BY <1>1, <1>3, NoNilYet, NoNilStill
<1>5. decoded \in Nat /\ decoded' = decoded + 1 /\ sent' = sent
  BY <1>1, NamedNext
<1>6. CommandsAsNamed'
  <2>1. ASSUME NEW n \in 1 .. decoded',
               sent'[n].cmd \in {"Sync"} \cup (sent'[n].fits \cap Parsed)
        PROVE  Contains(inbox', [kind |-> sent'[n].cmd, no |-> n])
    <3>1. n # decoded + 1
      <4> SUFFICES ASSUME n = decoded + 1 PROVE FALSE
        OBVIOUS
      <4>1. Current.cmd \in {"Sync"} \cup (Current.fits \cap Parsed)
        BY <1>5, <2>1 DEF Current
      <4>2. Current.cmd \notin {"absent", "bad"}
        BY <4>1, ParsedAreNames
      <4>3. Named(Current) = Current.cmd
        BY <4>2 DEF Named
      <4>4. Parses(Current)
        BY <4>1, <4>3 DEF Parses
      <4> QED
        BY <1>1, <4>2, <4>4
    <3>2. n \in 1 .. decoded
      BY <3>1, <1>5
    <3>3. Contains(inbox, [kind |-> sent[n].cmd, no |-> n])
      BY <3>2, <1>5, <2>1 DEF CommandsInv, CommandsAsNamed
    <3> QED
      BY <3>3, <1>1, <1>5
  <2>2. ASSUME NEW i \in DOMAIN inbox', NEW m, m = inbox'[i], m # Nil
        PROVE  /\ \A j \in 1 .. i - 1 : inbox'[j].no < m.no
               /\ sent'[m.no].cmd # "bad"
               /\ LastNamed(m.kind, m.no)'
    BY <1>1, <1>5, <2>2, InboxKept
  <2> QED
    BY <2>1, <2>2 DEF CommandsAsNamed, Contains, LastNamed, Meant, Nil
<1>7. (\A i \in DOMAIN inbox : inbox[i].no <= decoded)'
  <2> SUFFICES ASSUME NEW i \in DOMAIN inbox PROVE inbox[i].no <= decoded + 1
    BY <1>1, <1>5
  <2>1. inbox[i].no <= decoded
    BY DEF CommandsInv
  <2>2. inbox[i] \in [kind : Kinds \cup {"nil"}, no : Nat]
    BY <1>1, <1>2, ElementOfSeq, LenProperties
  <2> QED
    BY <2>1, <2>2, <1>5
<1> QED
  BY <1>3, <1>4, <1>6, <1>7 DEF CommandsInv

(* A value that is delivered stands behind all that were before it, and has the
   command that was named last. *)
LEMMA DeliverStep == CommandsInv /\ Deliver => CommandsInv'
<1> SUFFICES ASSUME CommandsInv, Deliver PROVE CommandsInv'
  OBVIOUS
<1> DEFINE e == [kind |-> Named(Current), no |-> decoded + 1]
<1>1. /\ NextMessage /\ Current.cmd # "bad" /\ Parses(Current)
      /\ Cmd' = Named(Current) /\ inbox' = Append(inbox, e)
  BY DEF Deliver
<1>2. /\ decoded \in Nat /\ decoded' = decoded + 1 /\ sent' = sent
      /\ Current \in Message
  BY <1>1, NamedNext
<1>3. Cmd' \in Kinds
  BY <1>1, <1>2 DEF Parses, Message, Kinds
<1>4. e \in [kind : Kinds \cup {"nil"}, no : Nat] /\ e.kind = Cmd'
      /\ e.no = decoded + 1 /\ e # Nil
  BY <1>1, <1>2, <1>3 DEF Nil
<1>5. LastNamed(Cmd', decoded + 1)
  <2>1. Cmd' # NoCmd
    <3>1. Cmd' \in Parsed => Cmd' # NoCmd
      BY ParsedAreNames
    <3>2. "Sync" # NoCmd
      BY Zenon DEF NoCmd
    <3> QED
      BY <1>3, <3>1, <3>2 DEF Kinds
  <2> QED
    BY <2>1, <1>1, NamedNext
<1>6. PICK c : c = e
  OBVIOUS
<1> HIDE DEF e
<1>7. /\ Len(inbox) \in Nat /\ DOMAIN inbox = 1 .. Len(inbox)
      /\ inbox \in Seq([kind : Kinds \cup {"nil"}, no : Nat])
      /\ inbox' \in Seq([kind : Kinds \cup {"nil"}, no : Nat])
      /\ Len(inbox') = Len(inbox) + 1 /\ DOMAIN inbox' = 1 .. Len(inbox) + 1
      /\ \A i \in DOMAIN inbox : i \in DOMAIN inbox' /\ inbox'[i] = inbox[i]
      /\ inbox'[Len(inbox) + 1] = c
      /\ \A i \in DOMAIN inbox' : i \in DOMAIN inbox \/ i = Len(inbox) + 1
  BY <1>1, <1>4, <1>6, InboxMore
<1>8. /\ CommandsTypeOK' /\ ~gone /\ ~gone'
      /\ (Cmd # NoCmd => LastNamed(Cmd, decoded))'
  BY <1>1, <1>7, DecodedType
<1>9. NilMeansGone'
  <2>1. \A i \in DOMAIN inbox' : inbox'[i] # Nil
    BY <1>4, <1>6, <1>7, <1>8, NoNilYet
  <2> QED
    BY <2>1, <1>8, NoNilStill
<1>10. \A i \in DOMAIN inbox : inbox[i].no \in Nat /\ inbox[i].no <= decoded
  <2> TAKE i \in DOMAIN inbox
  <2>1. inbox[i] \in [kind : Kinds \cup {"nil"}, no : Nat]
    BY <1>7, ElementOfSeq
  <2> QED
    BY <2>1 DEF CommandsInv
<1>11. CommandsAsNamed'
  <2>1. ASSUME NEW n \in 1 .. decoded',
               sent'[n].cmd \in {"Sync"} \cup (sent'[n].fits \cap Parsed)
        PROVE  Contains(inbox', [kind |-> sent'[n].cmd, no |-> n])
    <3>1. CASE n = decoded + 1
      <4>1. Current.cmd \in {"Sync"} \cup (Current.fits \cap Parsed)
        BY <3>1, <1>2, <2>1 DEF Current
      <4>2. Named(Current) = sent'[n].cmd
        BY <4>1, <3>1, <1>2, ParsedAreNames DEF Named, Current
      <4>3. c = [kind |-> sent'[n].cmd, no |-> n]
        BY <4>2, <3>1, <1>6 DEF e
      <4> QED
        BY <4>3, <1>7 DEF Contains
    <3>2. CASE n # decoded + 1
      <4>1. n \in 1 .. decoded
        BY <3>2, <1>2
      <4> QED
        BY <4>1, <1>2, <1>7, <2>1, InboxKept DEF Contains
    <3> QED
      BY <3>1, <3>2
  <2>2. ASSUME NEW i \in DOMAIN inbox', NEW m, m = inbox'[i], m # Nil
        PROVE  /\ \A j \in 1 .. i - 1 : inbox'[j].no < m.no
               /\ sent'[m.no].cmd # "bad"
               /\ LastNamed(m.kind, m.no)'
    <3>1. CASE i \in DOMAIN inbox
      BY <3>1, <1>2, <1>7, <2>2, InboxKept
    <3>2. CASE i = Len(inbox) + 1
      <4>1. m = c /\ m.no = decoded + 1 /\ m.kind = Cmd'
        BY <3>2, <1>4, <1>6, <1>7, <2>2
      <4>2. \A j \in 1 .. i - 1 : inbox'[j].no < m.no
        <5> TAKE j \in 1 .. i - 1
        <5>1. j \in DOMAIN inbox
          BY <3>2, <1>7
        <5>2. inbox'[j] = inbox[j]
          BY <5>1, <1>7
        <5>3. inbox[j].no \in Nat /\ inbox[j].no <= decoded
          BY <5>1, <1>10
        <5>4. inbox[j].no < decoded + 1
          BY <5>3, <1>2
        <5> QED
          BY <5>2, <5>4, <4>1
      <4>3. sent'[m.no].cmd # "bad"
        BY <4>1, <1>1, <1>2 DEF Current
      <4>4. LastNamed(m.kind, m.no)
        BY <4>1, <1>5
      <4>5. LastNamed(m.kind, m.no)'
        BY <4>4, <1>2 DEF LastNamed, Meant
      <4> QED
        BY <4>2, <4>3, <4>5
    <3> QED
      BY <3>1, <3>2, <1>7
  <2> QED
    BY <2>1, <2>2 DEF CommandsAsNamed, Contains, LastNamed, Meant, Nil
<1>12. (\A i \in DOMAIN inbox : inbox[i].no <= decoded)'
  BY <1>2, <1>4, <1>6, <1>7, <1>10
<1> QED
  BY <1>8, <1>9, <1>11, <1>12 DEF CommandsInv

(* Every step of handleConnection keeps the invariant. *)
LEMMA CommandsInvStep ==
    CommandsInv /\ [CommandsNext]_commandVars => CommandsInv'
<1> SUFFICES ASSUME CommandsInv, [CommandsNext]_commandVars
             PROVE  CommandsInv'
  OBVIOUS
<1>1. CASE UNCHANGED commandVars
  <2>1. UNCHANGED <<sent, buf, decoded, Cmd, inbox, gone>>
    BY <1>1 DEF commandVars
  <2>2. CommandsTypeOK' /\ NilMeansGone'
    BY <2>1, Zenon DEF CommandsInv, CommandsTypeOK, NilMeansGone, Message, Nil, NoCmd,
                       Kinds
  <2>3. CommandsAsNamed'
    BY <2>1 DEF CommandsInv, CommandsAsNamed, Contains, LastNamed, Meant, Nil
  <2>4. (Cmd # NoCmd => LastNamed(Cmd, decoded))'
    BY <2>1 DEF CommandsInv, LastNamed, Meant, NoCmd
  <2> QED
    BY <2>1, <2>2, <2>3, <2>4 DEF CommandsInv
<1> QED
  BY <1>1, ReadPacketStep, ReadErrorStep, DeliverStep, DropStep DEF CommandsNext

(* For every set of commands and packets of every length: a command reaches the
   main loop as the one the client has named last, in the order they were sent,
   although unknownMessage keeps its Cmd from one value to the next
   (handleConnection in server.go). *)
THEOREM CommandsReachMainLoop ==
    CommandsSpec => []CommandsAsNamed
<1>1. CommandsInv => CommandsAsNamed
  BY DEF CommandsInv
<1>2. CommandsInv /\ [CommandsNext]_commandVars => CommandsInv'
  BY CommandsInvStep
<1> QED
  BY <1>1, <1>2, CommandsInvInit, PTL DEF CommandsSpec

(* The main loop gets nil from the inbox when the handler has returned, behind
   everything else, and never before: no value that cannot be parsed ends the
   session (handleConnection in server.go). *)
THEOREM NilEndsSession ==
    CommandsSpec => []NilMeansGone
<1>1. CommandsInv => NilMeansGone
  BY DEF CommandsInv
<1>2. CommandsInv /\ [CommandsNext]_commandVars => CommandsInv'
  BY CommandsInvStep
<1> QED
  BY <1>1, <1>2, CommandsInvInit, PTL DEF CommandsSpec

-----------------------------------------------------------------------------
(* DataStorage. *)

(* What the operations make. *)

(* How a round of the loop can come out. *)
Result(out) ==
    /\ out.end \in {"ok", "error", "panic"}
    /\ out.end = "ok" => Proper(out.val)

(* A round ends well, with an error or with a panic. *)
LEMMA ResultOk ==
    ASSUME NEW v
    PROVE  /\ Ok(v).end = "ok" /\ Ok(v).val = v
           /\ Error.end = "error" /\ Panic.end = "panic"
           /\ Proper(v) => Result(Ok(v))
           /\ Result(Error) /\ Result(Panic)
  BY DEF Ok, Error, Panic, Result, Proper

(* Numbers, lists and dictionaries are JSON. *)
LEMMA ProperJson ==
    ASSUME NEW x
    PROVE  /\ Proper(Num(x)) /\ Num(x).kind = "num"
           /\ Proper(Json("list", x)) /\ Proper(Json("dict", x))
           /\ \A k : Json(k, x).kind = k /\ Json(k, x).val = x
  BY DEF Proper, Num, Null, Json, JsonKind

(* The number that is not finite is none of the JSON values. *)
LEMMA ProperConstants ==
    /\ Proper(NotFinite) /\ NotFinite.kind = "nan"
    /\ Proper(Null) /\ Null # NotFinite
  BY DEF Proper, Null, NotFinite, Json, JsonKind

(* The functions that are given to mathOp. *)
LEMMA ComputeResult ==
    ASSUME NEW name \in MathOps, NEW a, NEW b
    PROVE  Result(Compute(name, a, b)) /\ (Compute(name, a, b).end = "ok" =>
              Compute(name, a, b).val.kind \in {"num", "nan"})
<1>1. \A x : Result(Ok(Num(x))) /\ Ok(Num(x)).val.kind = "num"
  BY ResultOk, ProperJson DEF Num
<1>2. Result(Ok(NotFinite)) /\ Ok(NotFinite).val.kind = "nan"
  BY ResultOk, ProperConstants
<1>3. Result(Panic) /\ Panic.end # "ok"
  BY ResultOk
<1>4. \/ \E x : Compute(name, a, b) = Ok(Num(x))
      \/ Compute(name, a, b) = Ok(NotFinite)
      \/ Compute(name, a, b) = Panic
  BY Zenon DEF Compute, MathOps
<1> QED
  BY <1>1, <1>2, <1>3, <1>4

(* mathOp makes a number, which may not be finite. *)
LEMMA MathOpResult ==
    ASSUME NEW name \in MathOps, NEW a, NEW b
    PROVE  Result(mathOp(name, a, b)) /\ (mathOp(name, a, b).end = "ok" =>
              mathOp(name, a, b).val.kind \in {"num", "nan"})
<1>1. \/ mathOp(name, a, b) = Compute(name, a.val, b.val)
      \/ mathOp(name, a, b) = Ok(NotFinite)
      \/ mathOp(name, a, b) = Error
  BY Zenon DEF mathOp
<1>2. Ok(NotFinite).val.kind = "nan" /\ Result(Ok(NotFinite))
  BY ResultOk, ProperConstants
<1>3. Error.end # "ok" /\ Result(Error)
  BY ResultOk
<1> QED
  BY <1>1, <1>2, <1>3, ComputeResult

(* add makes a number or the two lists in one, or keeps what was made last. *)
LEMMA AddResult ==
    ASSUME NEW orig, NEW v, NEW last
    PROVE  /\ Proper(last) => Result(Add(orig, v, last))
           /\ Add(orig, v, last).end = "ok" =>
                \/ Add(orig, v, last).val.kind \in {"num", "nan"}
                \/ /\ orig.kind = "list" /\ v.kind = "list"
                   /\ Add(orig, v, last).val = Json("list", orig.val \o v.val)
                \/ /\ orig.kind \notin {"num", "nan", "list"}
                   /\ Add(orig, v, last).val = last
<1>1. \/ Add(orig, v, last) = Ok(Num(orig.val + v.val))
      \/ Add(orig, v, last) = Ok(NotFinite)
      \/ /\ orig.kind = "list" /\ v.kind = "list"
         /\ Add(orig, v, last) = Ok(Json("list", orig.val \o v.val))
      \/ Add(orig, v, last) = Error
      \/ /\ orig.kind \notin {"num", "nan", "list"}
         /\ Add(orig, v, last) = Ok(last)
  BY DEF Add
<1>2. CASE Add(orig, v, last) = Ok(Num(orig.val + v.val))
  BY <1>2, ResultOk, ProperJson
<1>3. CASE Add(orig, v, last) = Ok(NotFinite)
  BY <1>3, ResultOk, ProperConstants
<1>4. CASE /\ orig.kind = "list" /\ v.kind = "list"
           /\ Add(orig, v, last) = Ok(Json("list", orig.val \o v.val))
  <2>1. Proper(Json("list", orig.val \o v.val))
    BY Zenon, ProperJson
  <2> QED
    BY <1>4, <2>1, ResultOk
<1>5. CASE Add(orig, v, last) = Error
  BY <1>5, ResultOk
<1>6. CASE /\ orig.kind \notin {"num", "nan", "list"}
           /\ Add(orig, v, last) = Ok(last)
  BY <1>6, ResultOk
<1> QED
  BY <1>1, <1>2, <1>3, <1>4, <1>5, <1>6

(* remove, pop and update make a list or a dictionary. *)
LEMMA InPlaceResult ==
    ASSUME NEW orig, NEW v
    PROVE  Result(Without(orig, v)) /\ Result(Pop(orig, v)) /\ Result(Update(orig, v))
<1>1. \/ \E x : Without(orig, v) = Ok(Json("list", x))
      \/ Without(orig, v) = Error
  BY Zenon DEF Without
<1>2. \/ \E x : Pop(orig, v) = Ok(Json("list", x)) \/ Pop(orig, v) = Ok(Json("dict", x))
      \/ Pop(orig, v) = Error
  BY Zenon DEF Pop
<1>3. \/ \E x : Update(orig, v) = Ok(Json("dict", x))
      \/ Update(orig, v) = Error
  BY Zenon DEF Update
<1>4. /\ \A x : Result(Ok(Json("list", x))) /\ Result(Ok(Json("dict", x)))
      /\ Result(Error)
  BY ResultOk, ProperJson
<1> QED
  BY <1>1, <1>2, <1>3, <1>4

(* The switch of updateDataStorage, for values that are JSON or NaN. *)
LEMMA OutcomeResult ==
    ASSUME NEW s, NEW op \in Operation,
           Proper(s.orig), Proper(s.new), Proper(s.default)
    PROVE  Result(Outcome(s, op))
<1>1. Proper(op.value)
  BY ClientsSendJson DEF Proper, IsJson
<1>2. CASE op.name = "replace"
  BY <1>1, <1>2, ResultOk DEF Outcome, MathOps
<1>3. CASE op.name = "default"
  <2>1. Outcome(s, op) = Ok(IF s.found THEN s.orig ELSE s.default)
    BY <1>3 DEF Outcome, MathOps
  <2> QED
    BY <2>1, ResultOk
<1>4. CASE op.name = "add"
  BY <1>4, AddResult DEF Outcome, MathOps
<1>5. CASE op.name \in {"remove", "pop", "update"}
  BY <1>5, InPlaceResult DEF Outcome, MathOps
<1>6. CASE op.name \in MathOps
  <2>1. Outcome(s, op) = mathOp(op.name, s.orig, op.value)
    BY <1>6 DEF Outcome, MathOps
  <2> QED
    BY <1>6, <2>1, MathOpResult
<1>7. CASE op.name \notin {"replace", "default", "add", "remove", "pop", "update"}
                            \cup MathOps
  <2>1. Outcome(s, op) = Error
    BY <1>7 DEF Outcome, MathOps
  <2> QED
    BY <2>1, ResultOk
<1> QED
  BY <1>2, <1>3, <1>4, <1>5, <1>6, <1>7

-----------------------------------------------------------------------------
(* A round of the loop. *)

Whole(s) ==
    s = [key |-> s.key, orig |-> s.orig, new |-> s.new, found |-> s.found,
         end |-> s.end, default |-> s.default, shared |-> s.shared,
         sent |-> s.sent, ops |-> s.ops, touched |-> s.touched]

(* A round field by field. *)
LEMMA StepFields ==
    ASSUME NEW s, NEW op, Whole(s),
           NEW out, out = Outcome(s, op), NEW t, t = Step(s, op)
    PROVE  /\ Whole(t) /\ t.key = s.key /\ t.sent = s.sent
           /\ t.ops = s.ops + 1
           /\ out.end # "ok" =>
                /\ t.end = out.end /\ t.orig = s.orig /\ t.new = s.new
                /\ t.found = s.found /\ t.default = s.default
                /\ t.shared = s.shared /\ t.touched = s.touched
           /\ out.end = "ok" =>
                /\ t.end = s.end /\ t.orig = out.val /\ t.new = out.val
                /\ t.found = (s.found \/ op.name = "default")
                /\ t.default = DefaultAfter(s, op, out.val)
                /\ t.shared = SharedAfter(s, op, out.val)
                /\ t.touched = (s.touched \/ ChangesShared(s, op, out.val))
<1>1. CASE out.end # "ok"
  <2>1. t = [s EXCEPT !.end = out.end, !.ops = @ + 1]
    BY <1>1 DEF Step
  <2>2. t = [key |-> s.key, orig |-> s.orig, new |-> s.new, found |-> s.found,
             end |-> out.end, default |-> s.default, shared |-> s.shared,
             sent |-> s.sent, ops |-> s.ops + 1, touched |-> s.touched]
    BY <2>1 DEF Whole
  <2> QED
    BY <1>1, <2>2 DEF Whole
<1>2. CASE out.end = "ok"
  <2> DEFINE d == DefaultAfter(s, op, out.val)
             h == SharedAfter(s, op, out.val)
             f == s.found \/ op.name = "default"
             i == s.touched \/ ChangesShared(s, op, out.val)
  <2>1. t = [s EXCEPT !.orig = out.val, !.new = out.val, !.found = f,
                      !.default = d, !.shared = h, !.ops = @ + 1, !.touched = i]
    BY <1>2 DEF Step
  <2>2. /\ d = DefaultAfter(s, op, out.val) /\ h = SharedAfter(s, op, out.val)
        /\ f = (s.found \/ op.name = "default")
        /\ i = (s.touched \/ ChangesShared(s, op, out.val))
    OBVIOUS
  <2> HIDE DEF d, h, f, i
  <2>3. t = [key |-> s.key, orig |-> out.val, new |-> out.val, found |-> f,
             end |-> s.end, default |-> d, shared |-> h,
             sent |-> s.sent, ops |-> s.ops + 1, touched |-> i]
    <3> DEFINE v == out.val
               k == s.ops + 1
    <3>1. t = [s EXCEPT !.orig = v, !.new = v, !.found = f, !.default = d,
                        !.shared = h, !.ops = k, !.touched = i]
      BY <2>1
    <3>2. s = [key |-> s.key, orig |-> s.orig, new |-> s.new, found |-> s.found,
               end |-> s.end, default |-> s.default, shared |-> s.shared,
               sent |-> s.sent, ops |-> s.ops, touched |-> s.touched]
      BY DEF Whole
    <3> HIDE DEF v, k
    <3>3. t = [key |-> s.key, orig |-> v, new |-> v, found |-> f,
               end |-> s.end, default |-> d, shared |-> h,
               sent |-> s.sent, ops |-> k, touched |-> i]
      BY <3>1, <3>2
    <3> QED
      BY <3>3 DEF v, k
  <2>4. /\ Whole(t) /\ t.key = s.key /\ t.sent = s.sent /\ t.ops = s.ops + 1
        /\ t.end = s.end /\ t.orig = out.val /\ t.new = out.val
        /\ t.found = f /\ t.default = d /\ t.shared = h /\ t.touched = i
    <3>1. /\ t.key = s.key /\ t.sent = s.sent /\ t.ops = s.ops + 1
          /\ t.end = s.end /\ t.orig = out.val /\ t.new = out.val
          /\ t.found = f /\ t.default = d /\ t.shared = h /\ t.touched = i
      BY <2>3
    <3>2. Whole(t)
      BY <2>3, <3>1 DEF Whole
    <3> QED
      BY <3>1, <3>2
  <2> QED
    BY <1>2, <2>2, <2>4
<1> QED
  BY <1>1, <1>2

(* A sequence is one of its own elements. *)
LEMMA ListOfItsElements ==
    ASSUME NEW U, NEW w \in Seq(U)
    PROVE  w \in Seq(ToSet(w))
<1>1. /\ DOMAIN w = 1 .. Len(w) /\ Len(w) \in Nat
      /\ \A i \in 1 .. Len(w) : w[i] \in ToSet(w)
  BY DEF ToSet
<1> QED
  BY <1>1, SeqDef

(* Two lists that JSON knows make another, and the joined one begins with the
   first. *)
LEMMA Joined ==
    ASSUME NEW a, NEW b, a \in Seq(ToSet(a)), b \in Seq(ToSet(b))
    PROVE  BeginsWith(a \o b, a)
<1> DEFINE U == ToSet(a) \cup ToSet(b)
<1>1. a \in Seq(U) /\ b \in Seq(U)
  <2>1. /\ DOMAIN a = 1 .. Len(a) /\ Len(a) \in Nat
        /\ \A i \in 1 .. Len(a) : a[i] \in U
    BY DEF ToSet
  <2>2. /\ DOMAIN b = 1 .. Len(b) /\ Len(b) \in Nat
        /\ \A i \in 1 .. Len(b) : b[i] \in U
    BY DEF ToSet
  <2> QED
    BY <2>1, <2>2, SeqDef
<1> HIDE DEF U
<1>2. /\ a \o b \in Seq(U) /\ Len(a \o b) = Len(a) + Len(b)
      /\ \A i \in 1 .. Len(a) : (a \o b)[i] = a[i]
  BY <1>1, ConcatProperties
<1>3. a \o b \in Seq(ToSet(a \o b))
  BY <1>2, ListOfItsElements
<1> QED
  BY <1>1, <1>2, <1>3 DEF BeginsWith

(* What append writes to the array of the default does not show in the default:
   it is the default itself that the list begins with. *)
LEMMA OverlayShowsNothing ==
    ASSUME NEW list, NEW start, list \in Seq(ToSet(list)), BeginsWith(start, list)
    PROVE  Overlay(list, start) = list
<1>1. /\ DOMAIN list = 1 .. Len(list) /\ DOMAIN start = 1 .. Len(start)
      /\ Len(list) \in Nat /\ Len(start) \in Nat /\ Len(list) <= Len(start)
      /\ list = [i \in DOMAIN list |-> list[i]]
  BY DEF BeginsWith
<1>2. \A i \in DOMAIN list : i \in DOMAIN start /\ start[i] = list[i]
  BY <1>1 DEF BeginsWith
<1> QED
  BY <1>1, <1>2 DEF Overlay

(* BeginsWith is an order. *)
LEMMA BeginsWithTransitive ==
    ASSUME NEW a, NEW b, NEW c, a \in Seq(ToSet(a)),
           BeginsWith(b, a), BeginsWith(c, b)
    PROVE  BeginsWith(c, a)
<1>1. /\ DOMAIN a = 1 .. Len(a) /\ DOMAIN b = 1 .. Len(b)
      /\ Len(a) \in Nat /\ Len(b) \in Nat /\ Len(c) \in Nat
  BY DEF BeginsWith
<1> QED
  BY <1>1 DEF BeginsWith

(* A list begins with itself: a default that is taken as it is. *)
LEMMA BeginsWithItself ==
    ASSUME NEW a, a \in Seq(ToSet(a))
    PROVE  BeginsWith(a, a)
<1>1. Len(a) \in Nat
  OBVIOUS
<1> QED
  BY <1>1 DEF BeginsWith

(* Whatever an operation does to the default, it stays JSON. *)
LEMMA DefaultStaysProper ==
    ASSUME NEW s, NEW op, NEW v, Proper(v), Proper(s.default)
    PROVE  Proper(DefaultAfter(s, op, v))
<1>1. \/ DefaultAfter(s, op, v) = v
      \/ DefaultAfter(s, op, v) =
           Json("list", Overlay(s.default.val, Append(v.val, Null)))
      \/ DefaultAfter(s, op, v) = Json("list", Overlay(s.default.val, v.val))
      \/ DefaultAfter(s, op, v) = s.default
  <2>1. CASE s.shared /\ op.name \in {"pop", "update"} /\ s.orig.kind = "dict"
    BY <2>1 DEF DefaultAfter
  <2>2. CASE /\ s.shared /\ op.name \in {"pop", "remove"}
             /\ s.orig.kind = "list" /\ v # s.orig
    BY <2>2 DEF DefaultAfter
  <2>3. CASE s.shared /\ Appended(s, op) /\ Fits(s, v)
    BY <2>3 DEF DefaultAfter, Appended
  <2>4. CASE ~\/ s.shared /\ op.name \in {"pop", "update"} /\ s.orig.kind = "dict"
              \/ /\ s.shared /\ op.name \in {"pop", "remove"}
                 /\ s.orig.kind = "list" /\ v # s.orig
              \/ s.shared /\ Appended(s, op) /\ Fits(s, v)
    BY <2>4 DEF DefaultAfter
  <2> QED
    BY Zenon, <2>1, <2>2, <2>3, <2>4
<1>2. \A x : Proper(Json("list", x))
  BY ProperJson
<1> QED
  BY Zenon, <1>1, <1>2

(* Whether the default is shared is always known. *)
LEMMA SharedStaysBoolean ==
    ASSUME NEW s, NEW op, NEW v, s.shared \in BOOLEAN
    PROVE  SharedAfter(s, op, v) \in BOOLEAN
<1>1. CASE op.name = "default"
  BY <1>1 DEF SharedAfter, Appended
<1>2. CASE op.name = "replace"
  BY <1>2 DEF SharedAfter, Appended
<1>3. CASE Appended(s, op)
  BY <1>3 DEF SharedAfter, Appended
<1>4. CASE op.name \notin {"default", "replace"} /\ ~Appended(s, op)
  BY <1>4 DEF SharedAfter
<1> QED
  BY <1>1, <1>2, <1>3, <1>4

(* The default is out of sight of what append writes, as long as nothing was
   changed in place. *)
LEMMA DefaultUntouched ==
    ASSUME NEW s, NEW op \in Operation, Running(s), ChainInv(s), ~s.touched,
           Outcome(s, op).end = "ok", ~ChangesShared(s, op, Outcome(s, op).val)
    PROVE  DefaultAfter(s, op, Outcome(s, op).val) = s.sent
<1> DEFINE v == Outcome(s, op).val
<1>1. s.default = s.sent /\ IsJson(s.sent) /\ IsJson(op.value)
  BY ClientsSendJson DEF ChainInv, Running
<1>2. CASE s.shared /\ Appended(s, op) /\ Fits(s, v)
  <2>1. Outcome(s, op) = Add(s.orig, op.value, s.new) /\ s.orig.kind = "list"
    BY <1>2 DEF Appended, Outcome, MathOps
  <2>2. op.value.kind = "list" /\ Outcome(s, op) = Ok(Json("list", s.orig.val \o op.value.val))
    BY <2>1, ResultOk DEF Add
  <2>a. \A x : Ok(Json("list", x)).val.val = x
    BY DEF Ok, Json
  <2>3. v.val = s.orig.val \o op.value.val
    BY Zenon, <2>2, <2>a
  <2>4. s.sent.kind = "list" /\ BeginsWith(s.orig.val, s.sent.val)
    BY <1>2, <2>1 DEF ChainInv
  <2>5. BeginsWith(v.val, s.orig.val)
    <3>1. /\ s.orig.val \in Seq(ToSet(s.orig.val))
          /\ op.value.val \in Seq(ToSet(op.value.val))
      BY <1>1, <2>2, <2>4 DEF IsJson, BeginsWith
    <3>2. BeginsWith(s.orig.val \o op.value.val, s.orig.val)
      BY <3>1, Joined
    <3> QED
      BY Zenon, <3>2, <2>3
  <2>6. s.sent.val \in Seq(ToSet(s.sent.val))
    BY <1>1, <2>4 DEF IsJson
  <2>7. BeginsWith(v.val, s.sent.val)
    BY <2>4, <2>5, <2>6, BeginsWithTransitive
  <2>8. Overlay(s.sent.val, v.val) = s.sent.val
    BY <2>6, <2>7, OverlayShowsNothing
  <2>9. DefaultAfter(s, op, v) = Json("list", Overlay(s.default.val, v.val))
    BY <1>2 DEF DefaultAfter, Appended
  <2> QED
    BY <1>1, <2>4, <2>8, <2>9 DEF IsJson
<1>3. CASE ~(s.shared /\ Appended(s, op) /\ Fits(s, v)) /\ op.name \notin InPlace
  <2>1. DefaultAfter(s, op, v) = s.default
    BY <1>3 DEF DefaultAfter, InPlace
  <2> QED
    BY <1>1, <2>1
<1>4. CASE op.name \in InPlace
  <2>1. s.shared => v = s.orig
    BY <1>4 DEF ChangesShared
  <2>2. s.shared /\ s.orig.kind = "dict" => s.orig = s.default
    BY DEF ChainInv
  <2>3. op.name # "add"
    BY <1>4 DEF InPlace
  <2> HIDE DEF v
  <2>4. DefaultAfter(s, op, v) = s.default
    <3>1. CASE s.shared /\ op.name \in {"pop", "update"} /\ s.orig.kind = "dict"
      BY <2>1, <2>2, <3>1 DEF DefaultAfter, Appended
    <3>2. CASE ~(s.shared /\ op.name \in {"pop", "update"} /\ s.orig.kind = "dict")
      BY <2>1, <2>3, <3>2 DEF DefaultAfter, Appended
    <3> QED
      BY <3>1, <3>2
  <2> QED
    BY <1>1, <2>4 DEF v
<1> QED
  BY <1>2, <1>3, <1>4

(* A list that shares the default's array begins with the default: only add makes
   another list of it, by appending. *)
LEMMA SharedListGrows ==
    ASSUME NEW s, NEW op \in Operation, Running(s), ChainInv(s), s.end = "ok",
           ~s.touched, ~ChangesShared(s, op, Outcome(s, op).val),
           Outcome(s, op).end = "ok", Outcome(s, op).val.kind = "list",
           SharedAfter(s, op, Outcome(s, op).val)
    PROVE  s.sent.kind = "list" /\ BeginsWith(Outcome(s, op).val.val, s.sent.val)
<1> DEFINE v == Outcome(s, op).val
<1>1. s.default = s.sent /\ IsJson(s.sent) /\ IsJson(op.value)
  BY ClientsSendJson DEF ChainInv, Running
<1>2. op.name # "replace"
  BY DEF SharedAfter, Appended
<1>3. CASE op.name = "default"
  <2>1. v = IF s.found THEN s.orig ELSE s.default
    BY <1>3, ResultOk DEF Outcome, MathOps
  <2>2. CASE s.found
    <3>1. s.shared
      BY <1>3, <2>2 DEF SharedAfter, Appended
    <3> QED
      BY <2>1, <2>2, <3>1 DEF ChainInv
  <2>3. CASE ~s.found
    BY <1>1, <2>1, <2>3, BeginsWithItself DEF IsJson
  <2> QED
    BY <2>2, <2>3
<1>4. CASE op.name = "add"
  <2>1. Outcome(s, op) = Add(s.orig, op.value, s.new)
    BY <1>4 DEF Outcome, MathOps
  <2>2. s.orig.kind = "list" /\ op.value.kind = "list"
    <3>1. s.orig.kind \notin {"num", "nan", "list"} => s.new.kind # "list"
      <4>1. s.ops = 0 => s.new.kind # "list"
        BY DEF ChainInv, Null, Json
      <4> QED
        BY <4>1 DEF ChainInv
    <3> QED
      BY <2>1, <3>1, AddResult
  <2>3. v = Json("list", s.orig.val \o op.value.val)
    BY <2>1, <2>2, ResultOk DEF Add
  <2>4. v.val = s.orig.val \o op.value.val
    <3>1. \A x : Json("list", x).val = x
      BY DEF Json
    <3> QED
      BY Zenon, <2>3, <3>1
  <2>5. s.shared
    BY <1>4, <2>2 DEF SharedAfter, Appended
  <2>6. s.sent.kind = "list" /\ BeginsWith(s.orig.val, s.sent.val)
    BY <2>2, <2>5 DEF ChainInv
  <2>7. /\ s.orig.val \in Seq(ToSet(s.orig.val))
        /\ op.value.val \in Seq(ToSet(op.value.val))
        /\ s.sent.val \in Seq(ToSet(s.sent.val))
    BY <1>1, <2>2, <2>6 DEF IsJson, BeginsWith
  <2>8. BeginsWith(s.orig.val \o op.value.val, s.orig.val)
    BY <2>7, Joined
  <2>9. BeginsWith(s.orig.val \o op.value.val, s.sent.val)
    BY <2>6, <2>7, <2>8, BeginsWithTransitive
  <2> QED
    BY Zenon, <2>4, <2>6, <2>9
<1>5. CASE op.name \in MathOps
  <2>1. Outcome(s, op) = mathOp(op.name, s.orig, op.value)
    BY <1>5 DEF Outcome, MathOps
  <2> QED
    BY <1>5, <2>1, MathOpResult
<1>6. CASE op.name \in InPlace
  <2>1. s.shared
    BY <1>6 DEF SharedAfter, Appended, InPlace
  <2>2. v = s.orig
    BY <1>6, <2>1 DEF ChangesShared
  <2> QED
    BY <2>1, <2>2 DEF ChainInv
<1>7. CASE op.name \notin {"replace", "default", "add"} \cup MathOps \cup InPlace
  <2>1. Outcome(s, op) = Error
    BY <1>7 DEF Outcome, MathOps, InPlace
  <2> QED
    BY <2>1, ResultOk
<1> QED
  BY <1>2, <1>3, <1>4, <1>5, <1>6, <1>7

(* What shares its storage with the default is of its kind: a dictionary is the
   default itself. *)
LEMMA SharedIsDefault ==
    ASSUME NEW s, NEW op \in Operation, Running(s), ChainInv(s),
           s.end = "ok", Outcome(s, op).end = "ok",
           SharedAfter(s, op, Outcome(s, op).val)
    PROVE  LET v == Outcome(s, op).val
           IN  /\ v.kind = "dict" => v = DefaultAfter(s, op, v)
               /\ v.kind = "list" => s.sent.kind = "list"
<1> DEFINE v == Outcome(s, op).val
<1>1. /\ s.shared /\ s.orig.kind = "dict" => s.orig = s.default
      /\ s.shared /\ s.orig.kind = "list" => s.sent.kind = "list"
      /\ s.default.kind = s.sent.kind
      /\ s.new = Null \/ s.new = s.orig
  BY DEF ChainInv, SameShape
<1>2. op.name # "replace"
  BY DEF SharedAfter, Appended
<1>3. CASE op.name = "default"
  <2>1. v = IF s.found THEN s.orig ELSE s.default
    BY <1>3, ResultOk DEF Outcome, MathOps
  <2>2. DefaultAfter(s, op, v) = s.default
    BY <1>3 DEF DefaultAfter, Appended
  <2>3. s.found => s.shared
    BY <1>3 DEF SharedAfter, Appended
  <2> QED
    BY <1>1, <2>1, <2>2, <2>3
<1>4. CASE op.name \in MathOps
  <2>1. Outcome(s, op) = mathOp(op.name, s.orig, op.value)
    BY <1>4 DEF Outcome, MathOps
  <2> QED
    BY <1>4, <2>1, MathOpResult
<1>5. CASE op.name \in InPlace
  <2>1. s.shared
    BY <1>5 DEF SharedAfter, Appended, InPlace
  <2>2. v.kind = s.orig.kind /\ s.orig.kind \in {"list", "dict"}
        /\ (s.orig.kind = "dict" => op.name \in {"pop", "update"})
    <3>1. \/ Outcome(s, op) = Without(s.orig, op.value) /\ op.name = "remove"
          \/ Outcome(s, op) = Pop(s.orig, op.value) /\ op.name = "pop"
          \/ Outcome(s, op) = Update(s.orig, op.value) /\ op.name = "update"
      BY <1>5 DEF Outcome, MathOps, InPlace
    <3>2. \A x : /\ Ok(Json("list", x)).val.kind = "list"
                 /\ Ok(Json("dict", x)).val.kind = "dict"
      BY DEF Ok, Json
    <3>3. \/ s.orig.kind = "list" /\ \E x : Without(s.orig, op.value) = Ok(Json("list", x))
          \/ Without(s.orig, op.value) = Error
      BY Zenon DEF Without
    <3>4. \/ s.orig.kind = "list" /\ \E x : Pop(s.orig, op.value) = Ok(Json("list", x))
          \/ s.orig.kind = "dict" /\ \E x : Pop(s.orig, op.value) = Ok(Json("dict", x))
          \/ Pop(s.orig, op.value) = Error
      BY Zenon DEF Pop
    <3>5. \/ s.orig.kind = "dict" /\ \E x : Update(s.orig, op.value) = Ok(Json("dict", x))
          \/ Update(s.orig, op.value) = Error
      BY Zenon DEF Update
    <3>6. Error.end # "ok"
      BY ResultOk
    <3> QED
      BY <3>1, <3>2, <3>3, <3>4, <3>5, <3>6
  <2> HIDE DEF v
  <2>3. v.kind = "dict" => DefaultAfter(s, op, v) = v
    BY <2>1, <2>2 DEF DefaultAfter, Appended
  <2> QED
    BY <1>1, <2>1, <2>2, <2>3 DEF v
<1>6. CASE op.name = "add"
  <2>1. Outcome(s, op) = Add(s.orig, op.value, s.new)
    BY <1>6 DEF Outcome, MathOps
  <2>2. CASE s.orig.kind = "list"
    <3>1. s.shared
      BY <1>6, <2>2 DEF SharedAfter, Appended
    <3>2. v.kind # "dict"
      BY <2>1, <2>2, AddResult, ProperJson
    <3> QED
      BY <1>1, <2>2, <3>1, <3>2
  <2>3. CASE s.orig.kind # "list" /\ v.kind \in {"dict", "list"}
    <3>1. v = s.new
      BY <2>1, <2>3, AddResult
    <3>2. v = s.orig /\ v.kind = "dict"
      <4>1. Null.kind = "null"
        BY DEF Null, Json
      <4> QED
        BY <1>1, <2>3, <3>1, <4>1
    <3>3. s.shared
      BY <1>6, <2>3 DEF SharedAfter, Appended
    <3>4. DefaultAfter(s, op, v) = s.default
      BY <1>6, <2>3 DEF DefaultAfter, Appended
    <3> QED
      BY <1>1, <3>2, <3>3, <3>4
  <2> QED
    BY <2>2, <2>3
<1>7. CASE op.name \notin {"replace", "default", "add"} \cup MathOps \cup InPlace
  <2>1. Outcome(s, op) = Error
    BY <1>7 DEF Outcome, MathOps, InPlace
  <2> QED
    BY <2>1, ResultOk
<1> QED
  BY <1>2, <1>3, <1>4, <1>5, <1>6, <1>7

(* The default keeps its kind, and a list its length. *)
LEMMA DefaultKeepsShape ==
    ASSUME NEW s, NEW op \in Operation, ChainInv(s), Outcome(s, op).end = "ok"
    PROVE  LET d == DefaultAfter(s, op, Outcome(s, op).val)
           IN  SameShape(d, s.sent) /\ d.kind # "nan"
<1> DEFINE v == Outcome(s, op).val
<1>1. /\ SameShape(s.default, s.sent) /\ s.default.kind # "nan"
      /\ s.shared /\ s.orig.kind = "dict" => s.orig = s.default
      /\ s.shared /\ s.orig.kind = "list" => s.sent.kind = "list"
  BY DEF ChainInv
<1>2. CASE s.shared /\ op.name \in {"pop", "update"} /\ s.orig.kind = "dict"
  <2>1. DefaultAfter(s, op, v) = v
    BY <1>2 DEF DefaultAfter, Appended
  <2>2. Outcome(s, op) \in {Pop(s.orig, op.value), Update(s.orig, op.value)}
    BY <1>2 DEF Outcome, MathOps
  <2>3. v.kind = "dict"
    <3>1. \/ \E x : Pop(s.orig, op.value) = Ok(Json("dict", x))
          \/ Pop(s.orig, op.value) = Error
      BY <1>2 DEF Pop
    <3>2. \/ \E x : Update(s.orig, op.value) = Ok(Json("dict", x))
          \/ Update(s.orig, op.value) = Error
      BY Zenon DEF Update
    <3>3. \A x : Ok(Json("dict", x)).val.kind = "dict"
      BY DEF Ok, Json
    <3> QED
      BY <2>2, <3>1, <3>2, <3>3, ResultOk
  <2>4. s.sent.kind = "dict"
    BY <1>1, <1>2 DEF SameShape
  <2> QED
    BY <2>1, <2>3, <2>4 DEF SameShape
<1>3. ASSUME NEW x, s.shared, s.orig.kind = "list",
             DefaultAfter(s, op, v) = Json("list", Overlay(s.default.val, x))
      PROVE  SameShape(DefaultAfter(s, op, v), s.sent) /\ DefaultAfter(s, op, v).kind # "nan"
  <2>1. DOMAIN Overlay(s.default.val, x) = DOMAIN s.default.val
    BY DEF Overlay
  <2>2. s.sent.kind = "list" /\ DOMAIN s.default.val = DOMAIN s.sent.val
    BY <1>1, <1>3 DEF SameShape
  <2>3. \A y : Json("list", y).kind = "list" /\ Json("list", y).val = y
    BY DEF Json
  <2> QED
    BY <1>3, <2>1, <2>2, <2>3 DEF SameShape
<1>4. CASE /\ s.shared /\ op.name \in {"pop", "remove"}
           /\ s.orig.kind = "list" /\ v # s.orig
  <2>1. DefaultAfter(s, op, v) =
           Json("list", Overlay(s.default.val, Append(v.val, Null)))
    BY <1>4 DEF DefaultAfter, Appended
  <2> QED
    BY <1>3, <1>4, <2>1
<1>5. CASE s.shared /\ Appended(s, op) /\ Fits(s, v)
  <2>1. DefaultAfter(s, op, v) = Json("list", Overlay(s.default.val, v.val))
    BY <1>5 DEF DefaultAfter, Appended
  <2> QED
    BY <1>3, <1>5, <2>1 DEF Appended
<1>6. CASE ~\/ s.shared /\ op.name \in {"pop", "update"} /\ s.orig.kind = "dict"
            \/ /\ s.shared /\ op.name \in {"pop", "remove"}
               /\ s.orig.kind = "list" /\ v # s.orig
            \/ s.shared /\ Appended(s, op) /\ Fits(s, v)
  <2>1. DefaultAfter(s, op, v) = s.default
    BY <1>6 DEF DefaultAfter
  <2> QED
    BY <1>1, <2>1
<1> QED
  BY <1>2, <1>4, <1>5, <1>6

(* Every round of the loop keeps the invariant of the Set that runs. *)
LEMMA StepKeeps ==
    ASSUME NEW s, NEW op \in Operation, Running(s), ChainInv(s), s.end = "ok"
    PROVE  Running(Step(s, op)) /\ ChainInv(Step(s, op))
<1> DEFINE out == Outcome(s, op)
           t == Step(s, op)
<1>1. Whole(s)
  BY DEF Running, Whole
<1>2. Result(out)
  BY OutcomeResult DEF Running
<1>3. /\ Whole(t) /\ t.key = s.key /\ t.sent = s.sent
      /\ t.ops = s.ops + 1 /\ s.ops \in Nat /\ t.ops \in Nat /\ t.ops # 0
  BY <1>1, StepFields DEF Running
<1>4. CASE out.end # "ok"
  <2>1. /\ t.end = out.end /\ t.orig = s.orig /\ t.new = s.new
        /\ t.found = s.found /\ t.default = s.default
        /\ t.shared = s.shared /\ t.touched = s.touched
    BY <1>1, <1>4, StepFields
  <2> HIDE DEF t
  <2>2. Running(t)
    BY <1>2, <1>3, <2>1 DEF Running, Whole, Result
  <2>3. ChainInv(t)
    BY <1>3, <1>4, <2>1 DEF ChainInv
  <2> QED
    BY <2>2, <2>3 DEF t
<1>5. CASE out.end = "ok"
  <2>1. /\ t.end = s.end /\ t.orig = out.val /\ t.new = out.val
        /\ t.found = (s.found \/ op.name = "default")
        /\ t.default = DefaultAfter(s, op, out.val)
        /\ t.shared = SharedAfter(s, op, out.val)
        /\ t.touched = (s.touched \/ ChangesShared(s, op, out.val))
    BY <1>1, <1>5, StepFields
  <2>2. Proper(out.val)
    BY <1>2, <1>5 DEF Result
  <2>3. Proper(t.default)
    BY <2>1, <2>2, DefaultStaysProper DEF Running
  <2>4. t.shared \in BOOLEAN
    BY <2>1, SharedStaysBoolean DEF Running
  <2>5. t.found \in BOOLEAN /\ t.touched \in BOOLEAN
    BY <2>1 DEF Running
  <2>6. ~t.touched => t.default = t.sent
    BY <1>3, <1>5, <2>1, DefaultUntouched
  <2>7. t.shared /\ ~t.touched /\ t.orig.kind = "list" =>
          BeginsWith(t.orig.val, t.sent.val)
    BY <1>3, <1>5, <2>1, SharedListGrows
  <2>a. /\ t.shared /\ t.orig.kind = "dict" => t.orig = t.default
        /\ t.shared /\ t.orig.kind = "list" => t.sent.kind = "list"
    BY <1>3, <1>5, <2>1, SharedIsDefault
  <2>b. SameShape(t.default, t.sent) /\ t.default.kind # "nan"
    BY <1>3, <1>5, <2>1, DefaultKeepsShape
  <2> HIDE DEF t
  <2>8. Running(t)
    BY <1>3, <2>1, <2>2, <2>3, <2>4, <2>5 DEF Running, Whole
  <2>9. ChainInv(t)
    BY <1>3, <2>1, <2>6, <2>7, <2>a, <2>b DEF ChainInv
  <2> QED
    BY <2>8, <2>9 DEF t
<1> QED
  BY <1>4, <1>5

-----------------------------------------------------------------------------
(* The inductive invariant. *)

(* The marks of the table are none of the JSON values. *)
LEMMA Constants ==
    /\ Absent.kind = "absent" /\ Fixed.kind = "fixed" /\ Null.kind = "null"
    /\ Absent # Fixed /\ Idle.end = "idle"
    /\ Absent.kind \notin JsonKind /\ Fixed.kind \notin JsonKind
    /\ Null.kind \in JsonKind
  BY DEF Absent, Fixed, Null, Idle, Json, JsonKind

(* A Set begins with what is stored, or with its default. *)
LEMMA BeginKeeps ==
    ASSUME NEW k \in Key \ ReadOnly, NEW default \in Default,
           NEW found \in BOOLEAN, NEW orig,
           IF found THEN orig.kind \in JsonKind ELSE orig = default
    PROVE  /\ Running(Begin(k, orig, found, default))
           /\ ChainInv(Begin(k, orig, found, default))
<1> DEFINE s == Begin(k, orig, found, default)
<1>1. /\ s = [key |-> s.key, orig |-> s.orig, new |-> s.new, found |-> s.found,
              end |-> s.end, default |-> s.default, shared |-> s.shared,
              sent |-> s.sent, ops |-> s.ops, touched |-> s.touched]
      /\ s.key = k /\ s.orig = orig /\ s.new = Null /\ s.found = found
      /\ s.end = "ok" /\ s.default = default /\ s.shared = ~found
      /\ s.sent = default /\ s.ops = 0 /\ s.touched = FALSE
  BY DEF Begin
<1> HIDE DEF s
<1>2. IsJson(default)
  BY ClientsSendJson
<1>3. Proper(orig) /\ Proper(default) /\ Proper(Null)
  BY <1>2, ProperConstants DEF IsJson, Proper
<1>4. Running(s)
  <2>1. {s.found, s.shared, s.touched} \subseteq BOOLEAN
    BY <1>1
  <2>2. s.ops \in Nat /\ s.key \in Key \ ReadOnly /\ s.end \in {"ok", "error", "panic"}
    BY <1>1
  <2> QED
    BY <1>1, <1>3, <2>1, <2>2, Zenon DEF Running
<1>5. ChainInv(s)
  <2>1. s.shared /\ s.orig.kind = "list" =>
          default.kind = "list" /\ orig = default /\ BeginsWith(default.val, default.val)
    BY <1>1, <1>2, BeginsWithItself DEF IsJson
  <2>2. SameShape(default, default) /\ default.kind # "nan"
    BY <1>2 DEF SameShape, IsJson, JsonKind
  <2> QED
    BY <1>1, <2>1, <2>2 DEF ChainInv
<1> QED
  BY <1>4, <1>5 DEF s

(* What json.Marshal lets through is JSON. *)
LEMMA MarshalResult ==
    ASSUME NEW s, Proper(s.new), Marshal(s).end = "ok"
    PROVE  s.end = "ok" /\ Marshal(s).val = s.new /\ s.new.kind \in JsonKind
<1>1. s.end = "ok"
  BY DEF Marshal
<1>2. s.new # NotFinite
  BY <1>1, ResultOk DEF Marshal
<1>3. Marshal(s) = Ok(s.new)
  BY <1>1, <1>2 DEF Marshal
<1> QED
  BY <1>1, <1>2, <1>3, ResultOk DEF Proper

(* At first the table is empty and no Set runs. *)
LEMMA InitStorageInv == Init => StorageInv
  BY Constants DEF Init, StorageInv, WatcherInSync

(* A Set starts from what is stored or from the default. *)
LEMMA BeginSetKeeps ==
    ASSUME StorageInv, NEW k \in Key, NEW default \in Default, BeginSet(k, default)
    PROVE  StorageInv'
<1> DEFINE found == table[k] # Absent
           orig == IF found THEN table[k] ELSE default
<1>1. chain' = Begin(k, orig, found, default) /\ k \in Key \ ReadOnly
      /\ UNCHANGED <<table, watchedKeys, known>>
  BY DEF BeginSet
<1>2. IF found THEN orig.kind \in JsonKind ELSE orig = default
  BY <1>1 DEF StorageInv
<1>3. found \in BOOLEAN
  OBVIOUS
<1> HIDE DEF found, orig
<1>4. Running(Begin(k, orig, found, default)) /\ ChainInv(Begin(k, orig, found, default))
  BY <1>1, <1>2, <1>3, BeginKeeps
<1>5. Running(chain)' /\ ChainInv(chain)'
  BY <1>1, <1>4 DEF Running, ChainInv
<1> QED
  BY <1>1, <1>5 DEF StorageInv, WatcherInSync

(* One operation. *)
LEMMA OperateKeeps ==
    ASSUME StorageInv, NEW op \in Operation, Operate(op)
    PROVE  StorageInv'
<1>1. /\ chain.end = "ok" /\ chain' = Step(chain, op)
      /\ UNCHANGED <<table, watchedKeys, known>>
  BY DEF Operate
<1>2. Running(chain) /\ ChainInv(chain)
  BY <1>1, Constants DEF StorageInv
<1>3. Running(Step(chain, op)) /\ ChainInv(Step(chain, op))
  BY <1>1, <1>2, StepKeeps
<1>4. Running(chain') /\ ChainInv(chain')
  BY <1>1, <1>3
<1> QED
  BY <1>1, <1>4 DEF StorageInv, WatcherInSync

(* The end of a session leaves the table alone. *)
LEMMA SessionEndsKeeps ==
    ASSUME StorageInv, SessionEnds
    PROVE  StorageInv'
  BY DEF SessionEnds, StorageInv, WatcherInSync

(* What is stored is what the watcher is told, unless it was not saved. *)
LEMMA EndSetKeeps ==
    ASSUME StorageInv, EndSet
    PROVE  StorageInv'
<1> DEFINE out == Marshal(chain)
           k == chain.key
<1>1. chain # Idle /\ chain' = Idle
  BY DEF EndSet
<1>2. Running(chain) /\ k \in Key \ ReadOnly /\ Proper(chain.new)
  BY <1>1 DEF StorageInv, Running
<1>3. ASSUME NEW wantReply \in BOOLEAN, Store(k, out, wantReply)
      PROVE  StorageInv'
  <2>1. out.val.kind \in JsonKind
    BY <1>2, <1>3, MarshalResult DEF Store
  <2>2. /\ table' = [table EXCEPT ![k] = out.val]
        /\ known' = known \/ known' = [known EXCEPT ![k] = out.val]
        /\ k \in watchedKeys => known' = [known EXCEPT ![k] = out.val]
        /\ k \notin watchedKeys => known' = known
        /\ watchedKeys' = watchedKeys
    BY <1>3 DEF Store, SetReply, Tells
  <2> HIDE DEF out, k
  <2>3. out.val # Absent /\ out.val # Fixed /\ AsJson(out.val) = out.val
    BY <2>1, Constants DEF AsJson
  <2> QED
    BY <1>1, <1>2, <2>1, <2>2, <2>3 DEF StorageInv, WatcherInSync
<1>4. ASSUME NEW wantReply \in BOOLEAN, StoreFails(k, out, wantReply)
      PROVE  StorageInv'
  <2>1. /\ UNCHANGED <<table, watchedKeys>>
        /\ k \in watchedKeys => known' = [known EXCEPT ![k] = Unsaved]
        /\ k \notin watchedKeys => known' = known
    BY <1>4 DEF StoreFails, SetReply, Tells
  <2> HIDE DEF out, k
  <2> QED
    BY <1>1, <1>2, <2>1 DEF StorageInv, WatcherInSync
<1>5. CASE SetPanics(out)
  BY <1>5, SessionEndsKeeps DEF SetPanics
<1>6. CASE SetFails(out)
  BY <1>1, <1>6 DEF SetFails, StorageInv, WatcherInSync
<1> QED
  BY <1>3, <1>4, <1>5, <1>6 DEF EndSet

(* Every step keeps the invariant. *)
LEMMA NextStorageInv ==
    ASSUME StorageInv, [Next]_vars
    PROVE  StorageInv'
<1>1. ASSUME NEW K \in SUBSET Key, SetNotify(K)
      PROVE  StorageInv'
  BY <1>1 DEF SetNotify, StorageInv, WatcherInSync
<1>2. ASSUME NEW K \in SUBSET Key, Get(K)
      PROVE  StorageInv'
  BY <1>2 DEF Get, StorageInv, WatcherInSync
<1>3. CASE UNCHANGED vars
  BY <1>3 DEF vars, StorageInv, WatcherInSync
<1> QED
  BY BeginSetKeeps, OperateKeeps, EndSetKeeps, SessionEndsKeeps, <1>1, <1>2, <1>3
     DEF Next

(* No Set leaves the invariant, whatever its operations. *)
THEOREM StorageInvariant == Spec => []StorageInv
  BY InitStorageInv, NextStorageInv, PTL DEF Spec

-----------------------------------------------------------------------------
(* A client that watches a key was told what the table holds, through any Sets,
   unless the error of setStoredData was dropped. *)
THEOREM WatchersInSync == Spec => []WatcherInSync
<1>1. StorageInv => WatcherInSync
  BY DEF StorageInv
<1> QED
  BY <1>1, StorageInvariant, PTL

(* What a chain comes to after one more operation is decided by what the
   operation comes to. *)
LEMMA MarshalStep ==
    ASSUME NEW s, NEW t, NEW op, Whole(s), Whole(t), s.end = t.end,
           Outcome(s, op) = Outcome(t, op)
    PROVE  Marshal(Step(s, op)) = Marshal(Step(t, op))
<1> DEFINE out == Outcome(s, op)
           a == Step(s, op)
           b == Step(t, op)
<1>1. CASE out.end # "ok"
  <2>1. a.end = out.end /\ b.end = out.end
    BY <1>1, StepFields
  <2> HIDE DEF a, b, out
  <2>2. Marshal(a) = Marshal(b)
    BY <1>1, <2>1 DEF Marshal
  <2> QED
    BY <2>2 DEF a, b
<1>2. CASE out.end = "ok"
  <2>1. a.end = s.end /\ a.new = out.val /\ b.end = s.end /\ b.new = out.val
    BY <1>2, StepFields
  <2> HIDE DEF a, b, out
  <2>2. Marshal(a) = Marshal(b)
    BY <2>1 DEF Marshal
  <2> QED
    BY <2>2 DEF a, b
<1> QED
  BY <1>1, <1>2

(* The outcome depends on the value that has been reached, except where default
   goes back and where add does not fit. *)
LEMMA OutcomeAnew ==
    ASSUME NEW s, NEW t, NEW op, s.orig = t.orig, t.found = TRUE,
           op.name = "default" => s.found,
           op.name = "add" => s.orig.kind \in {"num", "list"}
    PROVE  Outcome(s, op) = Outcome(t, op)
<1>1. CASE op.name = "default"
  BY <1>1 DEF Outcome, MathOps
<1>2. CASE op.name = "add"
  <2>1. Add(s.orig, op.value, s.new) = Add(t.orig, op.value, t.new)
    BY <1>2 DEF Add
  <2> QED
    BY <1>2, <2>1 DEF Outcome, MathOps
<1>3. CASE op.name = "replace"
  BY <1>3 DEF Outcome, MathOps
<1>4. CASE op.name \in InPlace
  BY <1>4 DEF Outcome, MathOps, InPlace
<1>5. CASE op.name \in MathOps
  BY <1>5 DEF Outcome, MathOps
<1>6. CASE op.name \notin {"default", "add", "replace"} \cup InPlace \cup MathOps
  BY <1>6 DEF Outcome, MathOps, InPlace
<1> QED
  BY <1>1, <1>2, <1>3, <1>4, <1>5, <1>6

(* What an operation makes of NaN cannot be stored, unless it replaces it. *)
LEMMA NotFiniteStays ==
    ASSUME NEW s, NEW op, Whole(s), s.end = "ok", s.orig = NotFinite,
           ~GoesBack(s, op), Covered(s, op)
    PROVE  op.name # "replace" => Marshal(Step(s, op)) = Error
<1> SUFFICES ASSUME op.name # "replace"
             PROVE  Marshal(Step(s, op)) = Error
  OBVIOUS
<1>1. s.orig.kind = "nan"
  BY ProperConstants
<1>2. Outcome(s, op) = Ok(NotFinite) \/ Outcome(s, op) = Error
  <2>1. CASE op.name = "default"
    BY <2>1 DEF Outcome, MathOps, GoesBack
  <2>2. CASE op.name = "add"
    BY <1>1, <2>2 DEF Outcome, MathOps, Add
  <2>3. CASE op.name \in InPlace
    BY <1>1, <2>3 DEF Outcome, MathOps, InPlace, Without, Pop, Update
  <2>4. CASE op.name \in MathOps
    BY <1>1, <2>4 DEF Outcome, MathOps, mathOp
  <2>5. CASE op.name \notin {"replace", "default", "add"} \cup MathOps \cup InPlace
    BY <2>5 DEF Outcome, MathOps, InPlace
  <2> QED
    BY <2>1, <2>2, <2>3, <2>4, <2>5
<1> DEFINE t == Step(s, op)
<1>3. CASE Outcome(s, op) = Ok(NotFinite)
  <2>1. t.end = "ok" /\ t.new = NotFinite
    BY <1>3, StepFields, ResultOk
  <2> HIDE DEF t
  <2>2. Marshal(t) = Error
    BY <2>1 DEF Marshal
  <2> QED
    BY <2>2 DEF t
<1>4. CASE Outcome(s, op) = Error
  <2>1. t.end = "error"
    BY <1>4, StepFields, ResultOk
  <2> HIDE DEF t
  <2>2. Marshal(t) = Error
    BY <2>1 DEF Marshal, Error
  <2> QED
    BY <2>2 DEF t
<1> QED
  BY <1>2, <1>3, <1>4

(* A round that makes JSON can be stored. *)
LEMMA MarshalOk ==
    ASSUME NEW s, NEW op, NEW v, Whole(s), s.end = "ok",
           Outcome(s, op) = Ok(v), v # NotFinite
    PROVE  Marshal(Step(s, op)) = Ok(v)
<1> DEFINE t == Step(s, op)
<1>1. t.end = "ok" /\ t.new = v
  BY StepFields, ResultOk
<1> HIDE DEF t
<1>2. Marshal(t) = Ok(v)
  BY <1>1 DEF Marshal
<1> QED
  BY <1>2 DEF t

(* In a chain of any length, each operation comes to what it comes to by itself:
   the aliasing of origVal and msg.Default shows only where a default goes back
   to a value that was changed in place, NaN that is never stored fails the chain
   unless it is replaced, and an add that does not fit keeps the value. *)
THEOREM ChainsInSequence == Spec => []ChainInSequence
<1>1. ASSUME StorageInv
      PROVE  ChainInSequence
  <2> DEFINE t == Begin(chain.key, chain.new, TRUE, chain.sent)
  <2>1. SUFFICES ASSUME chain.end = "ok", chain.ops > 0,
                        NEW op \in Operation, Covered(chain, op)
                 PROVE  /\ GoesBack(chain, op) =>
                             IF chain.touched
                             THEN /\ Marshal(Step(chain, op)).end = "ok"
                                  /\ SameShape(Marshal(Step(chain, op)).val, chain.sent)
                             ELSE Marshal(Step(chain, op)) = Ok(chain.sent)
                        /\ ~GoesBack(chain, op) =>
                             IF chain.new = NotFinite
                             THEN Marshal(Step(chain, op)) =
                                    IF op.name = "replace" THEN Ok(op.value) ELSE Error
                             ELSE IF Misfit(chain.new, op)
                                  THEN /\ Marshal(Step(chain, op)) = Ok(chain.new)
                                       /\ Marshal(Step(t, op)) = Ok(Null)
                                  ELSE Marshal(Step(chain, op)) = Marshal(Step(t, op))
    BY DEF ChainInSequence
  <2>2. Running(chain) /\ ChainInv(chain) /\ Whole(chain)
    BY <1>1, <2>1, Constants DEF StorageInv, Running, Whole
  <2>3. chain.orig = chain.new
    BY <2>1, <2>2 DEF ChainInv
  <2>4. Whole(t) /\ t.end = "ok" /\ t.orig = chain.new /\ t.found = TRUE /\ t.new = Null
    BY DEF Whole, Begin
  <2> HIDE DEF t
  <2>5. CASE GoesBack(chain, op)
    <3>1. Outcome(chain, op) = Ok(chain.default)
      BY <2>5 DEF Outcome, MathOps, GoesBack
    <3>2. SameShape(chain.default, chain.sent) /\ chain.default # NotFinite
      BY <2>2, ProperConstants DEF ChainInv
    <3>3. Marshal(Step(chain, op)) = Ok(chain.default)
      BY <2>1, <2>2, <3>1, <3>2, MarshalOk
    <3>4. ~chain.touched => chain.default = chain.sent
      BY <2>2 DEF ChainInv
    <3> QED
      BY <2>5, <3>2, <3>3, <3>4, ResultOk
  <2>6. CASE ~GoesBack(chain, op) /\ chain.new = NotFinite
    <3>1. CASE op.name = "replace"
      <4>1. Outcome(chain, op) = Ok(op.value)
        BY <3>1 DEF Outcome, MathOps
      <4>2. op.value # NotFinite
        BY ClientsSendJson, ProperConstants DEF IsJson, JsonKind
      <4>3. Marshal(Step(chain, op)) = Ok(op.value)
        BY <2>1, <2>2, <4>1, <4>2, MarshalOk
      <4> QED
        BY <2>6, <3>1, <4>3
    <3>2. CASE op.name # "replace"
      BY <2>1, <2>2, <2>3, <2>6, <3>2, NotFiniteStays
    <3> QED
      BY <3>1, <3>2
  <2>7. CASE ~GoesBack(chain, op) /\ chain.new # NotFinite /\ Misfit(chain.new, op)
    <3>1. op.name = "add" /\ chain.new.kind \notin {"num", "nan", "list"}
      BY <2>2, <2>7 DEF Misfit, Running, Proper, JsonKind
    <3>2. Outcome(chain, op) = Ok(chain.new) /\ Outcome(t, op) = Ok(Null)
      BY <2>3, <2>4, <3>1 DEF Outcome, MathOps, Add
    <3>3. /\ Marshal(Step(chain, op)) = Ok(chain.new)
          /\ Marshal(Step(t, op)) = Ok(Null)
      BY <2>1, <2>2, <2>4, <2>7, <3>2, MarshalOk, ProperConstants
    <3> QED
      BY <2>7, <3>3
  <2>8. CASE ~GoesBack(chain, op) /\ chain.new # NotFinite /\ ~Misfit(chain.new, op)
    <3>1. Outcome(chain, op) = Outcome(t, op)
      <4>1. op.name = "default" => chain.found
        BY <2>8 DEF GoesBack
      <4>2. op.name = "add" => chain.orig.kind \in {"num", "list"}
        BY <2>3, <2>8 DEF Misfit
      <4>3. chain.orig = t.orig /\ t.found = TRUE
        BY <2>3, <2>4
      <4> QED
        BY <4>1, <4>2, <4>3, OutcomeAnew
    <3>2. Marshal(Step(chain, op)) = Marshal(Step(t, op))
      BY <2>1, <2>2, <2>4, <3>1, MarshalStep
    <3> QED
      BY <2>8, <3>2
  <2> QED
    BY <2>5, <2>6, <2>7, <2>8
<1> QED
  BY <1>1, StorageInvariant, PTL
=============================================================================
