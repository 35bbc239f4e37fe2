---------------------------- MODULE SetupProofs ----------------------------
(***************************************************************************)
(* Proofs about Setup, for every bound and whether or not the server       *)
(* denies entry and names fail to parse.                                   *)
(***************************************************************************)
EXTENDS Setup, SequenceTheorems, TLAPS

-----------------------------------------------------------------------------
(* The savefile that sessions are played on. *)

(* How many tables there are, and how many get rows. *)
LEMMA Sizes == Len(Schema) = 9 /\ Len(Filled) = 5
  BY DEF Schema, Filled

(* A step that leaves the savefile alone, and starts no session. *)
LEMMA FileKept ==
    ASSUME FileInv, UNCHANGED saved, inserted' = inserted \/ inserted' = 0,
           proc' \in {"play", "insert"} => proc' = proc
    PROVE  FileInv'
  BY DEF FileInv, PlaysOnComplete, Complete, saved

(* One step of process or server brings rows only all at once, after all the
   tables, and starts no session before. *)
LEMMA FileStep == FileInv /\ [SetupNext]_setupVars => FileInv'
<1> SUFFICES ASSUME FileInv, [SetupNext]_setupVars PROVE FileInv' OBVIOUS
<1>1. CASE Run \/ Crash \/ DialFails \/ ConnectionLost \/ Disconnected
  BY <1>1, FileKept DEF Run, Crash, DialFails, ConnectionLost, Disconnected, Quit
<1>2. CASE Stat \/ Ignore \/ InsertFails \/ PreparePanics \/ NoParams
  BY <1>2, FileKept DEF Stat, Ignore, InsertFails, PreparePanics, NoParams, Quit
<1>3. CASE Advance
  <2>1. \A p \in Waiting : Following[p] \notin {"play", "insert"}
    BY DEF Waiting, Following
  <2> QED BY <1>3, <2>1, FileKept DEF Advance
<1>4. CASE CreateFile
  BY <1>4 DEF CreateFile, FileInv, PlaysOnComplete, Complete
<1>5. CASE CreateTable
  <2>1. tables < Len(Schema) /\ tables' = tables + 1 /\ rows' = rows
        /\ inserted' = inserted
        /\ proc' = IF tables' = Len(Schema) THEN "insert" ELSE "create"
    BY <1>5 DEF CreateTable
  <2>2. rows = 0 BY <2>1, Sizes DEF FileInv, Complete
  <2> QED BY <2>1, <2>2, Sizes DEF FileInv, PlaysOnComplete
<1>6. CASE Insert
  BY <1>6 DEF Insert, FileInv, PlaysOnComplete, Complete, saved
<1>7. CASE Commit
  BY <1>7, Sizes DEF Commit, FileInv, PlaysOnComplete, Complete
<1>8. CASE Open
  <2>1. rows # 0 BY <1>8, Sizes DEF Open, HasParams
  <2> QED BY <1>8, <2>1 DEF Open, FileInv, PlaysOnComplete, Complete, saved
<1>9. CASE RoomStep \/ SrvJoin \/ SrvDisconnect
  BY <1>9, FileKept DEF RoomStep, SrvConnect, SrvReady, SrvDeny, SrvResult, SrvStart,
     SrvJoin, SrvDisconnect, Serve, Announce
<1>10. CASE UNCHANGED setupVars BY <1>10, FileKept DEF setupVars
<1> QED BY <1>1, <1>2, <1>3, <1>4, <1>5, <1>6, <1>7, <1>8, <1>9, <1>10
       DEF SetupNext, ProcessStep

(* No session is played on a savefile that createSavefile did not finish,
   wherever it was when the process was killed, a name did not parse, or a row
   was refused: openSavefile and getConnectionParams look at the tables and at
   one row only, and the transaction does the rest. *)
THEOREM SessionsComplete == SetupSpec => []PlaysOnComplete
<1>1. SetupInit => FileInv
  BY Sizes DEF SetupInit, FileInv, PlaysOnComplete
<1>2. FileInv /\ [SetupNext]_setupVars => FileInv' BY FileStep
<1>3. FileInv => PlaysOnComplete BY DEF FileInv
<1> QED BY <1>1, <1>2, <1>3, PTL DEF SetupSpec

-----------------------------------------------------------------------------
(* Messages in a stream. *)

(* Reading the first message leaves the others. *)
LEMMA StreamRead ==
    ASSUME NEW T, NEW s \in Seq(T), s # <<>>, NEW m
    PROVE  /\ Tail(s) \in Seq(T)
           /\ Has(Tail(s), m) => Has(s, m)
           /\ AtMostOnce(s, m) => AtMostOnce(Tail(s), m)
           /\ AtMostOnce(s, m) /\ Head(s) = m => ~Has(Tail(s), m)
<1>1. /\ Tail(s) \in Seq(T)
      /\ Len(s) \in Nat \ {0} /\ DOMAIN s = 1 .. Len(s)
      /\ DOMAIN Tail(s) = 1 .. Len(s) - 1
      /\ \A i \in 1 .. Len(s) - 1 : Tail(s)[i] = s[i + 1]
      /\ Head(s) = s[1]
  OBVIOUS
<1>2. ASSUME Has(Tail(s), m) PROVE \E i \in DOMAIN s : i # 1 /\ s[i] = m
  <2>1. PICK i \in DOMAIN Tail(s) : Tail(s)[i] = m BY <1>2 DEF Has
  <2>2. i + 1 \in DOMAIN s /\ i + 1 # 1 /\ s[i + 1] = m BY <2>1, <1>1
  <2> QED BY <2>2
<1>3. ASSUME AtMostOnce(s, m) PROVE AtMostOnce(Tail(s), m)
  <2> SUFFICES ASSUME NEW i \in DOMAIN Tail(s), NEW j \in DOMAIN Tail(s),
                      Tail(s)[i] = m, Tail(s)[j] = m
               PROVE  i = j
    BY DEF AtMostOnce
  <2>1. i + 1 \in DOMAIN s /\ j + 1 \in DOMAIN s /\ s[i + 1] = m /\ s[j + 1] = m
    BY <1>1
  <2>2. i + 1 = j + 1 BY <2>1, <1>3 DEF AtMostOnce
  <2> QED BY <2>2, <1>1
<1>4. ASSUME AtMostOnce(s, m), Head(s) = m, Has(Tail(s), m) PROVE FALSE
  <2>1. PICK i \in DOMAIN s : i # 1 /\ s[i] = m BY <1>2, <1>4
  <2>2. 1 \in DOMAIN s /\ s[1] = m BY <1>1, <1>4
  <2> QED BY <2>1, <2>2, <1>4 DEF AtMostOnce
<1> QED BY <1>1, <1>2, <1>3, <1>4 DEF Has

(* A message that is sent comes after the others. *)
LEMMA StreamSent ==
    ASSUME NEW T, NEW s \in Seq(T), NEW x \in T, NEW m
    PROVE  /\ Append(s, x) \in Seq(T)
           /\ Has(Append(s, x), m) => Has(s, m) \/ x = m
           /\ AtMostOnce(s, m) /\ (x # m \/ ~Has(s, m)) => AtMostOnce(Append(s, x), m)
<1> DEFINE a == Append(s, x)
<1>1. /\ a \in Seq(T)
      /\ Len(s) \in Nat /\ DOMAIN s = 1 .. Len(s)
      /\ DOMAIN a = 1 .. Len(s) + 1
      /\ \A i \in 1 .. Len(s) : a[i] = s[i]
      /\ a[Len(s) + 1] = x
  <2>1. a \in Seq(T) /\ Len(a) = Len(s) + 1 /\ a[Len(s) + 1] = x
    BY AppendProperties
  <2>2. \A i \in 1 .. Len(s) : a[i] = s[i] BY AppendProperties
  <2> HIDE DEF a
  <2>3. Len(s) \in Nat /\ DOMAIN s = 1 .. Len(s) /\ DOMAIN a = 1 .. Len(a)
    BY <2>1, LenProperties
  <2> QED BY <2>1, <2>2, <2>3
<1> HIDE DEF a
<1>2. ASSUME NEW i \in DOMAIN a, a[i] = m
      PROVE  (i \in DOMAIN s /\ s[i] = m) \/ (i = Len(s) + 1 /\ x = m)
  <2>1. i \in 1 .. Len(s) \/ i = Len(s) + 1 BY <1>1
  <2> QED BY <2>1, <1>2, <1>1
<1>3. Has(a, m) => Has(s, m) \/ x = m BY <1>2 DEF Has
<1>4. ASSUME AtMostOnce(s, m), x # m \/ ~Has(s, m) PROVE AtMostOnce(a, m)
  <2>1. CASE x # m BY <2>1, <1>2, <1>4 DEF AtMostOnce
  <2>2. CASE ~Has(s, m) BY <2>2, <1>2 DEF AtMostOnce, Has
  <2> QED BY <2>1, <2>2, <1>4
<1> QED BY <1>1, <1>3, <1>4 DEF a

(* An empty stream has no message. *)
LEMMA StreamEmpty ==
    ASSUME NEW T, NEW m
    PROVE  <<>> \in Seq(T) /\ ~Has(<<>>, m) /\ AtMostOnce(<<>>, m)
  BY DEF Has, AtMostOnce

-----------------------------------------------------------------------------
(* Our placements. *)

(* A connection that ends leaves nothing in its streams. *)
LEMMA NoConnection ==
    ASSUME toUs' = <<>>, toServer' = <<>>, stage' = "none",
           proc' \in {"off", "stat", "open", "play"}
    PROVE  SetupInv'
  BY StreamEmpty DEF SetupInv, Control, Asked

(* What setupMW says when it goes on, and where it goes. *)
LEMMA AnswersGiven ==
    /\ AnswerTo["greet"] = <<"Ready">> /\ Following["greet"] = "room"
    /\ AnswerTo["room"] = <<>> /\ Following["room"] = "start"
    /\ AnswerTo["start"] = <<"RandoGenerated">> /\ Following["start"] = "result"
    /\ AnswerTo["result"] = <<>> /\ Following["result"] = "create"
    /\ Expected["start"] = "RequestRando"
  BY DEF AnswerTo, Following, Expected

(* One step of process or server keeps requests and answers paired. *)
LEMMA SetupInvStep == SetupInv /\ [SetupNext]_setupVars => SetupInv'
<1> SUFFICES ASSUME SetupInv, [SetupNext]_setupVars PROVE SetupInv' OBVIOUS
<1>t. toUs \in Seq(FromServer) /\ toServer \in Seq(FromUs) BY DEF SetupInv
<1>u. ASSUME UNCHANGED <<proc, toUs, toServer, stage>> PROVE SetupInv'
  BY <1>u DEF SetupInv
<1>1. CASE Run BY <1>1, NoConnection DEF Run, SetupInv
<1>2. CASE Crash \/ DialFails \/ ConnectionLost \/ Disconnected \/ InsertFails
         \/ PreparePanics \/ NoParams
  BY <1>2, NoConnection
     DEF Crash, DialFails, ConnectionLost, Disconnected, InsertFails, PreparePanics,
         NoParams, Quit
<1>3. CASE Stat
  <2>1. toUs = <<>> /\ toServer = <<>> /\ stage = "none" /\ proc = "stat"
    BY <1>3 DEF Stat, SetupInv
  <2>2. CASE proc' = "open" /\ toServer' = <<>>
    BY <1>3, <2>1, <2>2, NoConnection DEF Stat
  <2>3. CASE proc' = "greet" /\ toServer' = <<"Connect">>
    <3>1. /\ toServer' \in Seq(FromUs) /\ ~Has(toServer', "RandoGenerated")
          /\ AtMostOnce(toServer', "RandoGenerated")
      <4>1. toServer' = Append(toServer, "Connect") /\ "Connect" \in FromUs
        BY <2>1, <2>3 DEF FromUs
      <4>2. ~Has(toServer, "RandoGenerated") /\ AtMostOnce(toServer, "RandoGenerated")
        BY <2>1, StreamEmpty
      <4> QED BY <4>1, <4>2, <1>t, StreamSent
    <3> QED BY <1>3, <2>1, <2>3, <3>1, StreamEmpty
           DEF Stat, SetupInv, Control, Waiting, Asked
  <2> QED BY <1>3, <2>1, <2>2, <2>3 DEF Stat
<1>4. CASE Advance
  <2>1. /\ proc \in Waiting /\ toUs # <<>> /\ Head(toUs) = Expected[proc]
        /\ toUs' = Tail(toUs) /\ toServer' = toServer \o AnswerTo[proc]
        /\ proc' = Following[proc] /\ stage' = stage
    BY <1>4 DEF Advance
  <2>2. /\ toUs' \in Seq(FromServer) /\ AtMostOnce(toUs', "RequestRando")
        /\ Has(toUs', "RequestRando") => Has(toUs, "RequestRando")
    BY <2>1, <1>t, StreamRead DEF SetupInv
  <2>3. \A x \in FromUs : toServer \o <<x>> = Append(toServer, x)
    BY <1>t, AppendIsConcat
  <2>4. toServer \o <<>> = toServer BY <1>t, ConcatEmptySeq
  <2>5. CASE proc = "greet"
    <3>1. toServer' = Append(toServer, "Ready") /\ proc' = "room"
      BY <2>1, <2>3, <2>5, AnswersGiven DEF FromUs
    <3>2. /\ toServer' \in Seq(FromUs) /\ AtMostOnce(toServer', "RandoGenerated")
          /\ Has(toServer', "RandoGenerated") => Has(toServer, "RandoGenerated")
      <4>1. "Ready" \in FromUs /\ AtMostOnce(toServer, "RandoGenerated")
        BY DEF SetupInv, FromUs
      <4> QED BY <3>1, <4>1, <1>t, StreamSent
    <3> QED BY <2>1, <2>2, <2>5, <3>1, <3>2 DEF SetupInv, Control, Waiting, Asked
  <2>6. CASE proc = "room"
    <3>1. toServer' = toServer /\ proc' = "start" BY <2>1, <2>4, <2>6, AnswersGiven
    <3> QED BY <2>1, <2>2, <2>6, <3>1 DEF SetupInv, Control, Waiting, Asked
  <2>7. CASE proc = "start"
    <3>1. toServer' = Append(toServer, "RandoGenerated") /\ proc' = "result"
      BY <2>1, <2>3, <2>7, AnswersGiven DEF FromUs
    <3>2. Head(toUs) = "RequestRando" BY <2>1, <2>7, AnswersGiven
    <3>3. Has(toUs, "RequestRando") BY <2>1, <3>2, <1>t DEF Has
    <3>4. ~Has(toUs', "RequestRando") BY <2>1, <3>2, <1>t, StreamRead DEF SetupInv
    <3>5. ~Has(toServer, "RandoGenerated") BY <2>7 DEF SetupInv, Asked
    <3>6. toServer' \in Seq(FromUs) /\ AtMostOnce(toServer', "RandoGenerated")
      <4>1. "RandoGenerated" \in FromUs /\ AtMostOnce(toServer, "RandoGenerated")
        BY DEF SetupInv, FromUs
      <4> QED BY <3>1, <3>5, <4>1, <1>t, StreamSent
    <3>7. stage \in {"started", "gone"} BY <3>3 DEF SetupInv
    <3> QED BY <2>1, <2>2, <3>1, <3>4, <3>6, <3>7 DEF SetupInv, Control, Waiting, Asked
  <2>8. CASE proc = "result"
    <3>1. toServer' = toServer /\ proc' = "create" BY <2>1, <2>4, <2>8, AnswersGiven
    <3> QED BY <2>1, <2>2, <2>8, <3>1 DEF SetupInv, Control, Asked
  <2> QED BY <2>1, <2>5, <2>6, <2>7, <2>8 DEF Waiting
<1>5. CASE Ignore
  <2>1. toUs # <<>> /\ toUs' = Tail(toUs) /\ UNCHANGED <<proc, toServer, stage>>
        /\ proc \in Waiting
    BY <1>5 DEF Ignore
  <2>2. /\ toUs' \in Seq(FromServer) /\ AtMostOnce(toUs', "RequestRando")
        /\ Has(toUs', "RequestRando") => Has(toUs, "RequestRando")
    BY <2>1, <1>t, StreamRead DEF SetupInv
  <2> QED BY <2>1, <2>2 DEF SetupInv, Waiting
<1>6. CASE CreateFile \/ Insert BY <1>6, <1>u DEF CreateFile, Insert
<1>7. CASE CreateTable
  BY <1>7 DEF CreateTable, SetupInv, Control, Asked
<1>8. CASE Commit BY <1>8, NoConnection DEF Commit
<1>9. CASE Open BY <1>9, NoConnection DEF Open, SetupInv
<1>10. ASSUME NEW from, NEW heard, NEW said \in FromServer, NEW to, Serve(from, heard, said, to),
             said # "RequestRando",
             \/ from \in {"none", "greeted"}
             \/ from = "started" /\ heard = "RandoGenerated" /\ to = "finished"
       PROVE SetupInv'
  <2>1. /\ stage = from /\ toServer # <<>> /\ Head(toServer) = heard
        /\ toServer' = Tail(toServer) /\ toUs' = Append(toUs, said) /\ stage' = to
        /\ proc' = proc
    BY <1>10 DEF Serve
  <2>2. /\ toServer' \in Seq(FromUs) /\ AtMostOnce(toServer', "RandoGenerated")
        /\ Has(toServer', "RandoGenerated") => Has(toServer, "RandoGenerated")
    BY <2>1, <1>t, StreamRead DEF SetupInv
  <2>3. /\ toUs' \in Seq(FromServer) /\ AtMostOnce(toUs', "RequestRando")
        /\ Has(toUs', "RequestRando") => Has(toUs, "RequestRando")
    BY <2>1, <1>10, <1>t, StreamSent DEF SetupInv
  <2>4. proc \notin {"off", "stat", "open", "play"} BY <2>1 DEF SetupInv
  <2>5. CASE from \in {"none", "greeted"}
    BY <2>1, <2>2, <2>3, <2>4, <2>5 DEF SetupInv
  <2>6. CASE from = "started" /\ heard = "RandoGenerated" /\ to = "finished"
    <3>1. Has(toServer, "RandoGenerated") BY <2>1, <2>6, <1>t DEF Has
    <3>2. ~Has(toServer', "RandoGenerated")
      BY <2>1, <2>6, <1>t, StreamRead DEF SetupInv
    <3> QED BY <2>1, <2>2, <2>3, <2>4, <2>6, <3>1, <3>2 DEF SetupInv
  <2> QED BY <2>5, <2>6, <1>10
<1>11. CASE SrvConnect \/ SrvReady \/ SrvDeny \/ SrvResult
  BY <1>11, <1>10 DEF SrvConnect, SrvReady, SrvDeny, SrvResult, FromServer
<1>12. ASSUME NEW said \in FromServer, NEW to, toUs' = Append(toUs, said), stage' = to,
              UNCHANGED <<proc, toServer>>, stage \in {"ready", "denied", "started"},
              \/ said # "RequestRando" /\ (to = "gone" \/ (stage = "ready" /\ to = "ready"))
              \/ stage = "ready" /\ to = "started"
       PROVE  SetupInv'
  <2>1. stage = "ready" => ~Has(toUs, "RequestRando") /\ proc \notin Asked
    BY DEF SetupInv
  <2>2. /\ toUs' \in Seq(FromServer) /\ AtMostOnce(toUs', "RequestRando")
        /\ Has(toUs', "RequestRando") =>
             Has(toUs, "RequestRando") \/ said = "RequestRando"
    BY <2>1, <1>12, <1>t, StreamSent DEF SetupInv
  <2>3. proc \notin {"off", "stat", "open", "play"} BY <1>12 DEF SetupInv
  <2> QED BY <2>1, <2>2, <2>3, <1>12 DEF SetupInv
<1>13. CASE SrvStart \/ SrvJoin \/ SrvDisconnect
  BY <1>13, <1>12 DEF SrvStart, SrvJoin, SrvDisconnect, Announce, FromServer
<1>14. CASE UNCHANGED setupVars BY <1>14, <1>u DEF setupVars
<1> QED BY <1>1, <1>2, <1>3, <1>4, <1>5, <1>6, <1>7, <1>8, <1>9, <1>11, <1>13, <1>14
       DEF SetupNext, ProcessStep, RoomStep

(* Our placements are on the connection only while the server waits for the
   ones it asked for, and at most once: players that join after us, a denied
   entry and unexpected messages never make setupMW send them. *)
THEOREM PlacementsSentOnRequest == SetupSpec => []PlacementsOnRequest
<1>1. SetupInit => SetupInv BY NoConnection, StreamEmpty DEF SetupInit, SetupInv, Control, Asked
<1>2. SetupInv /\ [SetupNext]_setupVars => SetupInv' BY SetupInvStep
<1>3. SetupInv => PlacementsOnRequest
  BY DEF SetupInv, PlacementsOnRequest, Has, Asked
<1> QED BY <1>1, <1>2, <1>3, PTL DEF SetupSpec

=============================================================================
