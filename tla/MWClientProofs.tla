--------------------------- MODULE MWClientProofs ---------------------------
(***************************************************************************)
(* The messages of a multiworld connection on their way through the three  *)
(* goroutines, for every buffer size, ping limit and number of messages.   *)
(***************************************************************************)
EXTENDS MWClient, SequenceTheorems, TLAPS

-----------------------------------------------------------------------------
(* Streams. *)

(* What an appended message does to the positions of a sequence. *)
LEMMA Appended ==
    ASSUME NEW T, NEW s \in Seq(T), NEW x \in T
    PROVE  /\ Append(s, x) \in Seq(T)
           /\ Len(s) \in Nat /\ DOMAIN s = 1 .. Len(s)
           /\ Len(Append(s, x)) = Len(s) + 1
           /\ DOMAIN Append(s, x) = 1 .. Len(s) + 1
           /\ \A i \in 1 .. Len(s) : Append(s, x)[i] = s[i]
           /\ Append(s, x)[Len(s) + 1] = x
<1> DEFINE t == Append(s, x)
<1>1. t \in Seq(T) /\ Len(t) = Len(s) + 1 /\ t[Len(s) + 1] = x BY AppendProperties
<1>2. \A i \in 1 .. Len(s) : t[i] = s[i] BY AppendProperties
<1> HIDE DEF t
<1>3. Len(s) \in Nat /\ DOMAIN s = 1 .. Len(s) /\ DOMAIN t = 1 .. Len(t)
  BY <1>1, LenProperties
<1>4. /\ t \in Seq(T) /\ Len(s) \in Nat /\ DOMAIN s = 1 .. Len(s)
      /\ Len(t) = Len(s) + 1 /\ DOMAIN t = 1 .. Len(s) + 1
      /\ \A i \in 1 .. Len(s) : t[i] = s[i]
      /\ t[Len(s) + 1] = x
  BY <1>1, <1>2, <1>3
<1> QED BY <1>4 DEF t

(* What a message that is taken does to them. *)
LEMMA Taken ==
    ASSUME NEW T, NEW s \in Seq(T), s # <<>>
    PROVE  /\ Tail(s) \in Seq(T) /\ Head(s) \in T /\ Head(s) = s[1]
           /\ Len(s) \in Nat \ {0} /\ DOMAIN s = 1 .. Len(s)
           /\ Len(Tail(s)) = Len(s) - 1
           /\ DOMAIN Tail(s) = 1 .. Len(s) - 1
           /\ \A i \in 1 .. Len(s) - 1 : Tail(s)[i] = s[i + 1]
  OBVIOUS

(* An empty channel carries nothing. *)
LEMMA CarriesNothing ==
    ASSUME NEW a \in Nat, NEW b
    PROVE  Carries(<<>>, a, b) <=> a = b
<1>1. Len(<<>>) = 0 OBVIOUS
<1>2. ASSUME a = b PROVE Carries(<<>>, a, b)
  <2> DEFINE n == [i \in 0 .. 0 |-> a]
  <2>1. n \in [0 .. 0 -> Nat] /\ n[0] = a OBVIOUS
  <2> HIDE DEF n
  <2>2. \A i \in 1 .. 0 : Follows(n[i - 1], <<>>[i], n[i]) OBVIOUS
  <2> QED BY <2>1, <2>2, <1>1, <1>2 DEF Carries
<1>3. ASSUME Carries(<<>>, a, b) PROVE a = b BY <1>1, <1>3 DEF Carries
<1> QED BY <1>2, <1>3

(* A message put into a channel goes on where the channel ended. *)
LEMMA CarriesMore ==
    ASSUME NEW s \in Seq(Nat), NEW x \in Nat, NEW a, NEW b, NEW c \in Nat,
           Carries(s, a, b), Follows(b, x, c)
    PROVE  Carries(Append(s, x), a, c)
<1> DEFINE t == Append(s, x)
<1>1. PICK n \in [0 .. Len(s) -> Nat] :
        /\ n[0] = a /\ n[Len(s)] = b
        /\ \A i \in 1 .. Len(s) : Follows(n[i - 1], s[i], n[i])
  BY DEF Carries
<1>2. /\ Len(s) \in Nat /\ Len(t) = Len(s) + 1
      /\ \A i \in 1 .. Len(s) : t[i] = s[i]
      /\ t[Len(s) + 1] = x
  BY Appended
<1> DEFINE m == [i \in 0 .. Len(s) + 1 |-> IF i <= Len(s) THEN n[i] ELSE c]
<1>3. /\ m \in [0 .. Len(t) -> Nat]
      /\ \A i \in 0 .. Len(s) : m[i] = n[i]
      /\ m[Len(s) + 1] = c
  BY <1>2
<1> HIDE DEF m, t
<1>4. m[0] = a /\ m[Len(t)] = c BY <1>1, <1>2, <1>3
<1>5. ASSUME NEW i \in 1 .. Len(t) PROVE Follows(m[i - 1], t[i], m[i])
  <2>1. CASE i \in 1 .. Len(s)
    <3>1. m[i - 1] = n[i - 1] /\ m[i] = n[i] /\ t[i] = s[i] BY <2>1, <1>2, <1>3
    <3> QED BY <3>1, <2>1, <1>1
  <2>2. CASE i = Len(s) + 1
    <3>1. m[i - 1] = b /\ m[i] = c /\ t[i] = x BY <2>2, <1>1, <1>2, <1>3
    <3> QED BY <3>1
  <2> QED BY <2>1, <2>2, <1>2
<1>6. Carries(t, a, c) BY <1>3, <1>4, <1>5 DEF Carries
<1> QED BY <1>6 DEF t

(* The first message of a channel goes on where the stage before it ended, and
   the rest goes on from there. *)
LEMMA CarriesRest ==
    ASSUME NEW s \in Seq(Nat), s # <<>>, NEW a \in Nat, NEW b, Carries(s, a, b)
    PROVE  \E c \in Nat : Follows(a, Head(s), c) /\ Carries(Tail(s), c, b)
<1>1. PICK n \in [0 .. Len(s) -> Nat] :
        /\ n[0] = a /\ n[Len(s)] = b
        /\ \A i \in 1 .. Len(s) : Follows(n[i - 1], s[i], n[i])
  BY DEF Carries
<1> DEFINE t == Tail(s)
           m == [i \in 0 .. Len(s) - 1 |-> n[i + 1]]
<1>2. /\ Head(s) = s[1] /\ Len(s) \in Nat \ {0} /\ Len(t) = Len(s) - 1
      /\ \A i \in 1 .. Len(s) - 1 : t[i] = s[i + 1]
  BY Taken
<1>3. m \in [0 .. Len(t) -> Nat] /\ \A i \in 0 .. Len(s) - 1 : m[i] = n[i + 1]
  BY <1>2
<1> HIDE DEF m, t
<1>4. n[1] \in Nat /\ Follows(a, Head(s), n[1])
  <2>1. 1 \in 1 .. Len(s) /\ 1 - 1 = 0 BY <1>2
  <2> QED BY <2>1, <1>1, <1>2
<1>5. m[0] = n[1] /\ m[Len(t)] = b BY <1>1, <1>2, <1>3
<1>6. ASSUME NEW i \in 1 .. Len(t) PROVE Follows(m[i - 1], t[i], m[i])
  <2>1. i + 1 \in 1 .. Len(s) /\ (i + 1) - 1 = i BY <1>2
  <2>a. i \in 1 .. Len(s) - 1 BY <1>2
  <2>b. i - 1 \in 0 .. Len(s) - 1 /\ i \in 0 .. Len(s) - 1 /\ (i - 1) + 1 = i
    BY <1>2, <2>a
  <2>c. t[i] = s[i + 1] BY <1>2, <2>a
  <2>d. m[i - 1] = n[(i - 1) + 1] /\ m[i] = n[i + 1] BY <1>3, <2>b
  <2>2. m[i - 1] = n[i] /\ m[i] = n[i + 1] /\ t[i] = s[i + 1]
    BY <2>b, <2>c, <2>d
  <2>3. Follows(n[(i + 1) - 1], s[i + 1], n[i + 1]) BY <2>1, <1>1
  <2> QED BY <2>1, <2>2, <2>3
<1>7. Carries(t, n[1], b) BY <1>3, <1>5, <1>6 DEF Carries
<1> QED BY <1>4, <1>7 DEF t

-----------------------------------------------------------------------------
(* The pipeline. *)

(* At first nothing is under way. *)
LEMMA PipeInit == Init => PipeInv
<1> SUFFICES ASSUME Init PROVE PipeInv OBVIOUS
<1>1. <<>> \in Seq(Nat) /\ Len(<<>>) = 0 /\ DOMAIN <<>> = {} OBVIOUS
<1>2. InOrder /\ Passed = 0
  BY <1>1 DEF Init, InOrder, Passed
<1>3. Carries(<<>>, 0, 0) BY CarriesNothing
<1> QED BY <1>1, <1>2, <1>3 DEF Init, PipeInv, Ping

(* One step of a goroutine or of the server moves a message from the front of a
   stage to the end of the next, and changes no order. *)
LEMMA PipeStep == PipeInv /\ [Next]_vars => PipeInv'
<1> SUFFICES ASSUME PipeInv, [Next]_vars PROVE PipeInv' OBVIOUS
<1> DEFINE Types == /\ told \in Nat /\ held \in Nat
                    /\ down \in Seq(Nat) /\ realInbox \in Seq(Nat)
           Ahead == /\ inbox \in Seq(Nat) /\ got \in Seq(Nat)
                    /\ InOrder
                    /\ \A i \in DOMAIN inbox : inbox[i] = Len(got) + i
                    /\ pinger = "forward" => carried = Passed
           Behind(r, d, e) ==
                    /\ Carries(realInbox, Passed, r)
                    /\ IF recv = "push" THEN Follows(r, held, d) ELSE d = r
                    /\ Carries(down, d, e)
                    /\ tcp \in {"up", "eof", "silent"} => e = told
<1>i. Types /\ Ahead BY DEF PipeInv
<1>k. PICK r \in Nat, d \in Nat, e \in Nat : Behind(r, d, e) BY DEF PipeInv
<1>g. ASSUME Types', Ahead', NEW x \in Nat, NEW y \in Nat, NEW z \in Nat, Behind(x, y, z)'
      PROVE  PipeInv'
  BY <1>g DEF PipeInv
<1>p. Passed \in Nat /\ Len(got) \in Nat /\ Len(inbox) \in Nat
  BY <1>i, LenProperties DEF Passed
<1>f. ASSUME UNCHANGED <<inbox, got>>, pinger' = "forward" <=> pinger = "forward",
             UNCHANGED carried
      PROVE  Ahead' /\ Passed' = Passed
  BY <1>f, <1>i DEF Passed, InOrder
<1>b. ASSUME UNCHANGED <<realInbox, recv, held, down, told>>, Passed' = Passed,
             tcp' = tcp \/ tcp' = "closed", Ahead'
      PROVE  PipeInv'
  <2>1. Types' /\ Behind(r, d, e)' BY <1>b, <1>i, <1>k
  <2> QED BY <2>1, <1>b, <1>g
<1>n. Ping = 0 BY DEF Ping
<1> HIDE DEF Ahead, Types, Behind
<1> USE DEF wires, chans, recvVars, pingVars, sendVars, userVars
<1>1. CASE Tell
  <2>1. Ahead' /\ Passed' = Passed BY <1>1, <1>f DEF Tell
  <2>2. e = told /\ told \in Nat BY <1>1, <1>i, <1>k DEF Tell, Behind, Types
  <2>3. PICK f \in Nat : f = told + 1 BY <2>2
  <2>4. Carries(down, d, e) /\ down \in Seq(Nat) BY <1>i, <1>k DEF Behind, Types
  <2>5. Follows(e, f, f) BY <2>2, <2>3, <1>n DEF Follows
  <2>6. Carries(Append(down, f), d, f) BY <2>4, <2>5, CarriesMore
  <2>7. Append(down, f) \in Seq(Nat) BY <2>4, Appended
  <2>8. told' = f /\ down' = Append(down, f) BY <1>1, <2>3 DEF Tell
  <2>9. Types' BY <1>1, <1>i, <2>7, <2>8 DEF Tell, Types
  <2>10. Behind(r, d, f)' BY <1>1, <1>k, <2>1, <2>6, <2>8 DEF Tell, Behind
  <2> QED BY <2>1, <2>9, <2>10, <1>g
<1>2. CASE Answer
  <2>1. Ahead' /\ Passed' = Passed BY <1>2, <1>f DEF Answer
  <2>2. Carries(down, d, e) /\ down \in Seq(Nat) BY <1>i, <1>k DEF Behind, Types
  <2>3. Follows(e, Ping, e) BY DEF Follows
  <2>4. Carries(Append(down, Ping), d, e) BY <2>2, <2>3, <1>n, CarriesMore
  <2>5. Append(down, Ping) \in Seq(Nat) BY <2>2, <1>n, Appended
  <2>6. Types' BY <1>2, <1>i, <2>5 DEF Answer, Types
  <2>7. Behind(r, d, e)' BY <1>2, <1>k, <2>1, <2>4 DEF Answer, Behind
  <2> QED BY <2>1, <2>6, <2>7, <1>g
<1>3. ASSUME NEW how \in Outages, Outage(how) PROVE PipeInv'
  <2>1. Ahead' /\ Passed' = Passed BY <1>3, <1>f DEF Outage
  <2>2. Types'
    <3>1. <<>> \in Seq(Nat) OBVIOUS
    <3> QED BY <1>3, <1>i, <3>1 DEF Outage, Types
  <2>3. CASE how = "reset"
    <3>1. Carries(<<>>, d, d) BY CarriesNothing
    <3>2. Behind(r, d, d)' BY <1>3, <1>k, <2>1, <2>3, <3>1 DEF Outage, Behind
    <3> QED BY <2>1, <2>2, <3>2, <1>g
  <2>4. CASE how # "reset"
    <3>1. Behind(r, d, e)' BY <1>3, <1>k, <2>1, <2>4 DEF Outage, Behind
    <3> QED BY <2>1, <2>2, <3>1, <1>g
  <2> QED BY <2>3, <2>4
<1>4. CASE RecvRead
  <2>1. Ahead' /\ Passed' = Passed BY <1>4, <1>f DEF RecvRead
  <2>2. Carries(down, d, e) /\ down \in Seq(Nat) /\ down # <<>> /\ d = r
    BY <1>4, <1>i, <1>k DEF RecvRead, Behind, Types
  <2>3. PICK c \in Nat : Follows(d, Head(down), c) /\ Carries(Tail(down), c, e)
    BY <2>2, CarriesRest
  <2>4. Head(down) \in Nat /\ Tail(down) \in Seq(Nat) BY <2>2, Taken
  <2>5. Types' BY <1>4, <1>i, <2>4 DEF RecvRead, Types
  <2>6. Behind(r, c, e)' BY <1>4, <1>k, <2>1, <2>2, <2>3 DEF RecvRead, Behind
  <2> QED BY <2>1, <2>5, <2>6, <1>g
<1>5. CASE RecvPush
  <2>1. Ahead' /\ Passed' = Passed BY <1>5, <1>f DEF RecvPush
  <2>2. /\ Carries(realInbox, Passed, r) /\ realInbox \in Seq(Nat) /\ held \in Nat
        /\ Follows(r, held, d)
    BY <1>5, <1>i, <1>k DEF RecvPush, Behind, Types
  <2>3. Carries(Append(realInbox, held), Passed, d) BY <2>2, CarriesMore
  <2>4. Append(realInbox, held) \in Seq(Nat) BY <2>2, Appended
  <2>5. Types' BY <1>5, <1>i, <2>4 DEF RecvPush, Types
  <2>6. Behind(d, d, e)' BY <1>5, <1>k, <2>1, <2>3 DEF RecvPush, Behind
  <2> QED BY <2>1, <2>5, <2>6, <1>g
<1>6. CASE RecvEnd
  <2>1. Ahead' /\ Passed' = Passed BY <1>6, <1>f DEF RecvEnd
  <2>2. Types' BY <1>6, <1>i DEF RecvEnd, Types
  <2>3. Behind(r, d, e)' BY <1>6, <1>k, <2>1 DEF RecvEnd, Behind
  <2> QED BY <2>1, <2>2, <2>3, <1>g
<1>7. CASE Tick \/ GiveUp \/ PingSend \/ PingPanic \/ PingEnd
  <2>1. Ahead' /\ Passed' = Passed
    BY <1>7, <1>f DEF Tick, GiveUp, PingSend, PingPanic, PingEnd, PingExit
  <2> QED BY <1>7, <2>1, <1>b DEF Tick, GiveUp, PingSend, PingPanic, PingEnd
<1>8. CASE PingAnswered \/ PingTake
  <2>1. /\ Carries(realInbox, Passed, r) /\ realInbox \in Seq(Nat) /\ realInbox # <<>>
        /\ realInbox' = Tail(realInbox)
    BY <1>8, <1>i, <1>k DEF PingAnswered, PingTake, Behind, Types
  <2>2. PICK c \in Nat : Follows(Passed, Head(realInbox), c) /\ Carries(realInbox', c, r)
    BY <2>1, <1>p, CarriesRest
  <2>3. realInbox' \in Seq(Nat) BY <2>1, Taken
  <2>4. Types' BY <1>8, <1>i, <2>3 DEF PingAnswered, PingTake, Types
  <2>5. Ahead' /\ Passed' = c
    <3>1. CASE PingAnswered
      <4>1. c = Passed BY <2>2, <3>1 DEF PingAnswered, Follows
      <4> QED BY <3>1, <4>1, <1>f DEF PingAnswered
    <3>2. CASE PingTake
      <4>1. c = Passed + 1 /\ carried' = c BY <2>2, <3>2 DEF PingTake, Follows
      <4>2. pinger # "forward" /\ pinger' = "forward" /\ UNCHANGED <<inbox, got>>
        BY <3>2 DEF PingTake
      <4>3. Passed' = Passed + 1 BY <4>2, <1>p DEF Passed
      <4> QED BY <4>1, <4>2, <4>3, <1>i DEF Ahead, InOrder
    <3> QED BY <1>8, <3>1, <3>2
  <2>6. Behind(r, d, e)' BY <1>8, <1>k, <2>2, <2>5 DEF PingAnswered, PingTake, Behind
  <2> QED BY <2>4, <2>5, <2>6, <1>g
<1>9. CASE PingForward
  <2>1. /\ pinger = "forward" /\ pinger' = "select" /\ inbox' = Append(inbox, carried)
        /\ got' = got /\ inbox \in Seq(Nat) /\ carried = Passed
    BY <1>9, <1>i DEF PingForward, Ahead
  <2>2. carried = Len(got) + (Len(inbox) + 1) BY <2>1, <1>p DEF Passed
  <2>3. /\ inbox' \in Seq(Nat) /\ Len(inbox') = Len(inbox) + 1
        /\ DOMAIN inbox' = 1 .. Len(inbox) + 1 /\ DOMAIN inbox = 1 .. Len(inbox)
        /\ \A i \in 1 .. Len(inbox) : inbox'[i] = inbox[i]
        /\ inbox'[Len(inbox) + 1] = carried
    BY <2>1, <1>p, Appended
  <2>4. Passed' = Passed BY <2>1, <2>3, <1>p DEF Passed
  <2>5. ASSUME NEW i \in DOMAIN inbox' PROVE inbox'[i] = Len(got) + i
    <3>1. i \in 1 .. Len(inbox) \/ i = Len(inbox) + 1 BY <2>3, <1>p
    <3> QED BY <3>1, <2>2, <2>3, <1>i DEF Ahead
  <2>6. Ahead' BY <2>1, <2>3, <2>5, <1>i DEF Ahead, InOrder
  <2> QED BY <1>9, <2>4, <2>6, <1>b DEF PingForward
<1>10. CASE SendStep
  <2>1. Ahead' /\ Passed' = Passed BY <1>10, <1>f DEF SendStep, SendTake, SendWrite, SendEnd
  <2> QED BY <1>10, <2>1, <1>b DEF SendStep, SendTake, SendWrite, SendEnd
<1>11. CASE UserReceive
  <2>1. /\ inbox # <<>> /\ got' = Append(got, Head(inbox)) /\ inbox' = Tail(inbox)
        /\ pinger' = pinger /\ carried' = carried
        /\ inbox \in Seq(Nat) /\ got \in Seq(Nat)
    BY <1>11, <1>i DEF UserReceive, Ahead
  <2>2. /\ inbox' \in Seq(Nat) /\ Head(inbox) \in Nat /\ Head(inbox) = inbox[1]
        /\ Len(inbox) \in Nat \ {0} /\ DOMAIN inbox = 1 .. Len(inbox)
        /\ Len(inbox') = Len(inbox) - 1 /\ DOMAIN inbox' = 1 .. Len(inbox) - 1
        /\ \A i \in 1 .. Len(inbox) - 1 : inbox'[i] = inbox[i + 1]
    BY <2>1, Taken
  <2>3. Head(inbox) = Len(got) + 1
    <3>1. 1 \in DOMAIN inbox BY <2>2
    <3> QED BY <3>1, <2>2, <1>i DEF Ahead
  <2>4. /\ got' \in Seq(Nat) /\ Len(got') = Len(got) + 1
        /\ DOMAIN got' = 1 .. Len(got) + 1
        /\ \A i \in 1 .. Len(got) : got'[i] = got[i]
        /\ got'[Len(got) + 1] = Len(got) + 1
    BY <2>1, <2>2, <2>3, Appended
  <2>5. ASSUME NEW i \in 1 .. Len(got) + 1 PROVE got'[i] = i
    <3>1. i \in 1 .. Len(got) \/ i = Len(got) + 1 BY <1>p
    <3>2. i \in 1 .. Len(got) => got[i] = i BY <1>i DEF Ahead, InOrder
    <3> QED BY <3>1, <3>2, <2>4
  <2>6. InOrder'
    <3>1. got' = [i \in 1 .. Len(got) + 1 |-> got'[i]] BY <2>4
    <3> QED BY <3>1, <2>4, <2>5 DEF InOrder
  <2>7. ASSUME NEW i \in DOMAIN inbox' PROVE inbox'[i] = Len(got') + i
    <3>1. i + 1 \in DOMAIN inbox /\ inbox'[i] = inbox[i + 1] BY <2>2
    <3>2. inbox[i + 1] = Len(got) + (i + 1) BY <3>1, <1>i DEF Ahead
    <3> QED BY <3>1, <3>2, <2>2, <2>4, <1>p
  <2>8. Passed' = Passed BY <2>1, <2>2, <2>4, <1>p DEF Passed
  <2>9. Ahead' BY <2>1, <2>2, <2>4, <2>6, <2>7, <2>8, <1>i DEF Ahead
  <2> QED BY <1>11, <2>8, <2>9, <1>b DEF UserReceive
<1>12. CASE UserNotices \/ UserSend \/ UserSent \/ UserLeaves
  <2>1. Ahead' /\ Passed' = Passed
    BY <1>12, <1>f DEF UserNotices, UserSend, UserSent, UserLeaves, Close
  <2> QED BY <1>12, <2>1, <1>b DEF UserNotices, UserSend, UserSent, UserLeaves, Close
<1>13. CASE UNCHANGED vars
  <2>1. Ahead' /\ Passed' = Passed BY <1>13, <1>f DEF vars
  <2> QED BY <1>13, <2>1, <1>b DEF vars
<1> QED BY <1>1, <1>2, <1>3, <1>4, <1>5, <1>6, <1>7, <1>8, <1>9, <1>10, <1>11, <1>12, <1>13
       DEF Next, ServerStep, RecvStep, PingStep, UserStep

(* The main loop reads the server's messages in order, without gaps, repetitions
   or pings, for every size of the buffers, every ping limit and every
   interleaving of the three goroutines. *)
THEOREM MessagesInOrder == Spec => []InOrder
<1>1. Init => PipeInv BY PipeInit
<1>2. PipeInv /\ [Next]_vars => PipeInv' BY PipeStep
<1>3. PipeInv => InOrder BY DEF PipeInv
<1> QED BY <1>1, <1>2, <1>3, PTL DEF Spec

-----------------------------------------------------------------------------
(* The end of the connection. *)

(* One step leaves the ends of the channels in their order. *)
LEMMA EndStep == EndInv /\ [Next]_vars => EndInv'
<1> SUFFICES ASSUME EndInv, [Next]_vars PROVE EndInv' OBVIOUS
<1> USE DEF EndInv, wires, chans, recvVars, pingVars, sendVars, userVars
<1>1. CASE ServerStep BY <1>1 DEF ServerStep, Tell, Answer, Outage
<1>2. CASE RecvStep BY <1>2 DEF RecvStep, RecvRead, RecvPush, RecvEnd
<1>3. CASE Tick \/ GiveUp \/ PingSend \/ PingPanic
  BY <1>3 DEF Tick, GiveUp, PingSend, PingPanic, PingExit
<1>4. CASE PingAnswered \/ PingTake \/ PingForward \/ PingEnd
  BY <1>4 DEF PingAnswered, PingTake, PingForward, PingEnd, PingExit
<1>5. CASE SendStep BY <1>5 DEF SendStep, SendTake, SendWrite, SendEnd
<1>6. CASE UserStep \/ UserSend \/ UserLeaves
  BY <1>6 DEF UserStep, UserReceive, UserNotices, UserSend, UserSent, UserLeaves, Close
<1>7. CASE UNCHANGED vars BY <1>7 DEF vars
<1> QED BY <1>1, <1>2, <1>3, <1>4, <1>5, <1>6, <1>7 DEF Next, PingStep

(* When the main loop learns of an orderly end of the connection, and ping has
   not given up, it has read every message the server sent: the ends of the
   three channels never overtake what is in them. *)
THEOREM EndAfterMessages == Spec => []NothingCutOff
<1>1. Init => PipeInv /\ EndInv
  <2>1. Init => EndInv BY DEF Init, EndInv
  <2> QED BY <2>1, PipeInit
<1>2. PipeInv /\ EndInv /\ [Next]_vars => (PipeInv /\ EndInv)' BY PipeStep, EndStep
<1>3. PipeInv /\ EndInv => NothingCutOff
  <2> SUFFICES ASSUME PipeInv, EndInv, user = "noticed", tcp = "eof",
                      unanswered < reconnectThreshold
               PROVE  Len(got) = told
    BY DEF NothingCutOff
  <2>1. unanswered # reconnectThreshold BY ClientAssumption
  <2>2. /\ inbox = <<>> /\ pinger = "done" /\ realInbox = <<>> /\ recv = "done"
        /\ down = <<>>
    BY <2>1 DEF EndInv
  <2>3. Len(got) \in Nat BY LenProperties DEF PipeInv
  <2>4. Passed = Len(got) BY <2>2, <2>3 DEF Passed
  <2>5. PICK r \in Nat, d \in Nat, e \in Nat :
          /\ Carries(<<>>, Len(got), r) /\ d = r /\ Carries(<<>>, d, e) /\ e = told
    BY <2>2, <2>4 DEF PipeInv
  <2> QED BY <2>3, <2>5, CarriesNothing
<1> QED BY <1>1, <1>2, <1>3, PTL DEF Spec

=============================================================================
