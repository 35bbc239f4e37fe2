----------------------------- MODULE PlayProofs -----------------------------
(***************************************************************************)
(* Proofs about Play, for every set of places and every bound: what is     *)
(* kept through crashes and lost connections, and that Play implements     *)
(* ItemExchange and pays for every surplus copy.                           *)
(***************************************************************************)
EXTENDS Play, FiniteSetTheorems, SequenceTheorems, TLAPS

-----------------------------------------------------------------------------
(* Sequences. *)

(* Appending to the log adds exactly the appended items to what is in it
   (addSentItems). *)
LEMMA ToSetConcat ==
    ASSUME NEW T, NEW s \in Seq(T), NEW t \in Seq(T)
    PROVE  ToSet(s \o t) = ToSet(s) \cup ToSet(t)
<1>1. /\ s \o t \in Seq(T)
      /\ Len(s \o t) = Len(s) + Len(t)
      /\ \A i \in 1 .. Len(s) + Len(t) :
           (s \o t)[i] = IF i <= Len(s) THEN s[i] ELSE t[i - Len(s)]
  BY ConcatProperties
<1>2. ASSUME NEW i \in DOMAIN s PROVE s[i] \in ToSet(s \o t)
  <2>1. i \in DOMAIN (s \o t) /\ (s \o t)[i] = s[i]
    BY <1>1
  <2> QED BY <2>1 DEF ToSet
<1>3. ASSUME NEW i \in DOMAIN t PROVE t[i] \in ToSet(s \o t)
  <2>1. i + Len(s) \in DOMAIN (s \o t) /\ (s \o t)[i + Len(s)] = t[i]
    BY <1>1
  <2> QED BY <2>1 DEF ToSet
<1>4. ASSUME NEW i \in DOMAIN (s \o t) PROVE (s \o t)[i] \in ToSet(s) \cup ToSet(t)
  <2>1. CASE i <= Len(s) BY <1>1, <2>1 DEF ToSet
  <2>2. CASE i > Len(s)
    <3>1. i - Len(s) \in DOMAIN t /\ (s \o t)[i] = t[i - Len(s)]
      BY <1>1, <2>2
    <3> QED BY <3>1 DEF ToSet
  <2> QED BY <2>1, <2>2, <1>1
<1> QED BY <1>2, <1>3, <1>4 DEF ToSet

(* The items of a log are of the type its entries have. *)
LEMMA ToSetType ==
    ASSUME NEW T, NEW s \in Seq(T)
    PROVE  ToSet(s) \subseteq T
  BY DEF ToSet

(* An order in which !collect lists items is a sequence of them. *)
LEMMA OrdersType ==
    ASSUME NEW S, IsFiniteSet(S), NEW s \in SetToSeqs(S)
    PROVE  s \in Seq(S)
<1>1. Cardinality(S) \in Nat BY FS_CardinalityType
<1>2. s \in [1 .. Cardinality(S) -> S] BY DEF SetToSeqs
<1> QED BY <1>1, <1>2

(* What DatasReceive appends to its items joins the ones it has. *)
LEMMA ToSetAppend ==
    ASSUME NEW T, NEW s \in Seq(T), NEW x \in T
    PROVE  ToSet(Append(s, x)) = ToSet(s) \cup {x}
<1>1. <<x>> \in Seq(T) OBVIOUS
<1>2. ToSet(s \o <<x>>) = ToSet(s) \cup ToSet(<<x>>)
  <2> DEFINE t == <<x>>
  <2>1. t \in Seq(T) BY <1>1
  <2> HIDE DEF t
  <2>2. ToSet(s \o t) = ToSet(s) \cup ToSet(t) BY <2>1, ToSetConcat
  <2> QED BY <2>2 DEF t
<1>3. ToSet(<<x>>) = {x} BY DEF ToSet
<1>4. Append(s, x) = s \o <<x>> OBVIOUS
<1> QED BY <1>2, <1>3, <1>4

(* Messages of different types, or about different items, are different. *)
LEMMA MsgDistinct ==
    ASSUME NEW t, NEW u, NEW S, NEW T, Msg(t, S) = Msg(u, T)
    PROVE  t = u /\ S = T
  BY DEF Msg

-----------------------------------------------------------------------------
(* Types. *)

(* What !collect appends is a sequence of our items. *)
LEMMA CollectOrder ==
    ASSUME NEW items \in SetToSeqs(Abroad \ received)
    PROVE  items \in Seq(OwnItem)
<1>1. IsFiniteSet(Abroad \ received) BY PlacesAssumption, FS_Difference
<1>2. items \in Seq(Abroad \ received) BY <1>1, OrdersType
<1> QED BY <1>2 DEF OwnItem

(* Every message that is sent has one of the types and carries items only. *)
LEMMA MsgType ==
    /\ \A t \in ToIsthmus, S \in SUBSET (ForeignLoc \cup Abroad) : Msg(t, S) \in InMsg
    /\ \A t \in ToServer, S \in SUBSET (ForeignLoc \cup Abroad) : Msg(t, S) \in OutMsg
  BY DEF Msg, InMsg, OutMsg

(* A new savefile and no session have the types. *)
LEMMA TypeInit == Init => TypeOK
<1> SUFFICES ASSUME Init PROVE TypeOK OBVIOUS
<1>1. Precollected \in Seq(OwnItem)
  BY PlacesAssumption DEF OwnItem
<1>2. <<>> \in Seq(OwnItem) /\ <<>> \in Seq(Abroad) OBVIOUS
<1> QED BY <1>1, <1>2 DEF Init, TablesInit, TypeOK, TablesOK, LocalsOK, LinkOK, ServerOK,
           HistoryOK, ControlOK, Control

(* One step of any actor keeps the types. *)
LEMMA TypeStep == TypeOK /\ [Next]_vars => TypeOK'
<1> SUFFICES ASSUME TypeOK, [Next]_vars PROVE TypeOK' OBVIOUS
<1>a. ToSet(acc) \subseteq Abroad
  BY ToSetType DEF TypeOK, LocalsOK
<1>p. /\ ForeignLoc \subseteq Location /\ OwnLoc \cup BareLoc \subseteq Location
      /\ OwnLoc \cup BareLoc \subseteq OwnItem
  BY DEF Location, OwnItem
<1>s. /\ \A s, t \in Seq(OwnItem) : s \o t \in Seq(OwnItem)
      /\ Seq(Abroad) \subseteq Seq(OwnItem)
      /\ \A x \in OwnItem : <<x>> \in Seq(OwnItem)
      /\ Abroad \subseteq OwnItem
      /\ \A s \in Seq(Abroad), x \in Abroad : Append(s, x) \in Seq(Abroad)
  BY DEF OwnItem
<1>e. <<>> \in Seq(OwnItem) /\ <<>> \in Seq(Abroad)
  OBVIOUS
<1>m. /\ \A t \in ToIsthmus, S \in SUBSET (ForeignLoc \cup Abroad) : Msg(t, S) \in InMsg
      /\ \A t \in ToServer, S \in SUBSET (ForeignLoc \cup Abroad) : Msg(t, S) \in OutMsg
  BY MsgType
<1> USE BoundsAssumption
      DEF TypeOK, TablesOK, LocalsOK, LinkOK, ServerOK, HistoryOK, ControlOK,
          Control, ToIsthmus, ToServer, vars, tables, local, link, server,
          history
<1>g. ASSUME SessionGone, pc' \in {"down", "accept"}
      PROVE  TablesOK' /\ LocalsOK' /\ LinkOK' /\ ServerOK' /\ ControlOK'
  BY <1>g, <1>e DEF SessionGone
<1>1. CASE SessionStep
  <2>1. CASE Accept
    BY <2>1 DEF Accept
  <2>2. CASE DialFails
    <3>1. HistoryOK' BY <2>2, <1>a DEF DialFails, Die, SessionGone
    <3> QED BY <2>2, <3>1, <1>g DEF DialFails, Die
  <2>3. CASE ConnectionLost
    <3>1. HistoryOK' BY <2>3 DEF ConnectionLost, SessionGone
    <3> QED BY <2>3, <3>1, <1>g DEF ConnectionLost
  <2>4. CASE Crash
    <3>1. HistoryOK' BY <2>4, <1>a DEF Crash, Die, SessionGone
    <3> QED BY <2>4, <3>1, <1>g DEF Crash, Die
  <2>5. CASE Restart
    BY <2>5 DEF Restart
  <2> QED BY <1>1, <2>1, <2>2, <2>3, <2>4, <2>5 DEF SessionStep
<1>2. CASE ClientStep
  <2>1. ASSUME NEW f \in Modes, Connect(f) PROVE TypeOK'
    BY <2>1, <1>m DEF Connect, Send, ApplyReceived
  <2>2. CASE ConnectNil
    <3>1. HistoryOK' BY <2>2, <1>a DEF ConnectNil, Fail, Die, SessionGone
    <3> QED BY <2>2, <3>1, <1>g DEF ConnectNil, Fail, Die
  <2>3. ASSUME NEW L \in SUBSET Location, LocationChecks(L) PROVE TypeOK'
    BY <2>3 DEF LocationChecks
  <2>4. ASSUME NEW items \in SetToSeqs(getCollectablePlacements), Collect(items) PROVE TypeOK'
    <3>1. items \in Seq(OwnItem)
      BY CollectOrder DEF getCollectablePlacements
    <3>2. HistoryOK' BY <2>4 DEF Collect
    <3>3. TablesOK' /\ LocalsOK' BY <2>4, <1>s, <3>1 DEF Collect, addSentItems, ApplyReceived
    <3> QED BY <2>4, <3>2, <3>3 DEF Collect
  <2>5. CASE Release
    BY <2>5, <1>p DEF Release, addUnconfirmedItems, Releasable
  <2>6. CASE ReleaseFails
    <3>1. HistoryOK' BY <2>6, <1>a DEF ReleaseFails, Fail, Die, SessionGone
    <3> QED BY <2>6, <3>1, <1>g DEF ReleaseFails, Fail, Die
  <2>7. CASE Sync
    BY <2>7 DEF Sync, ApplyReceived
  <2> QED BY <1>2, <2>1, <2>2, <2>3, <2>4, <2>5, <2>6, <2>7 DEF ClientStep
<1>3. CASE HandlerStep
  <2>1. ASSUME NEW l \in Location, CheckSkip(l) PROVE TypeOK'
    BY <2>1 DEF CheckSkip, NextRound
  <2>2. ASSUME NEW l \in Location, CheckOwn(l) PROVE TypeOK'
    BY <2>2, <1>p, <1>s DEF CheckOwn, addSentItems, Forward, ApplyReceived,
       SentIndex
  <2>3. ASSUME NEW l \in Location, CheckForeign(l) PROVE TypeOK'
    BY <2>3, <1>p, <1>m DEF CheckForeign, addUnconfirmedItems, Send
  <2>4. ASSUME NEW l \in Location, CheckForeignFails(l) PROVE TypeOK'
    <3>1. HistoryOK' BY <2>4, <1>a DEF CheckForeignFails, Fail, Die, SessionGone
    <3> QED BY <2>4, <3>1, <1>g DEF CheckForeignFails, Fail, Die
  <2>5. CASE ClearChecked
    BY <2>5 DEF ClearChecked, clearLocations, NextRound
  <2>6. CASE ReleaseClear
    BY <2>6, <1>p, <1>m DEF ReleaseClear, clearLocations, Send
  <2>7. CASE MarkReceived
    BY <2>7, <1>m DEF MarkReceived, addReceivedItem, Send
  <2>8. ASSUME NEW o \in Abroad, BatchSkip(o) PROVE TypeOK'
    BY <2>8 DEF BatchSkip
  <2>9. ASSUME NEW o \in Abroad, BatchItem(o) PROVE TypeOK'
    BY <2>9, <1>s DEF BatchItem, addReceivedItem
  <2>10. CASE BatchCommit
    BY <2>10, <1>e, <1>m, <1>s DEF BatchCommit, addSentItems, Forward,
       ApplyReceived, SentIndex, Send
  <2> QED BY <1>3, <2>1, <2>2, <2>3, <2>4, <2>5, <2>6, <2>7, <2>8, <2>9,
       <2>10 DEF HandlerStep
<1>4. CASE InboxStep
  <2>1. CASE HandleJoinConfirm
    BY <2>1, <1>m DEF HandleJoinConfirm, Receive, Send, Resend
  <2>2. ASSUME NEW o \in Abroad, HandleDataReceive(o) PROVE TypeOK'
    BY <2>2, <1>m, <1>s DEF HandleDataReceive, Receive, addSentItems,
       Forward, ApplyReceived, SentIndex, Send
  <2>3. ASSUME NEW o \in Abroad, HandleDuplicate(o) PROVE TypeOK'
    BY <2>3, <1>m DEF HandleDuplicate, Receive
  <2>4. ASSUME NEW S \in SUBSET Abroad, HandleDatasReceive(S) PROVE TypeOK'
    BY <2>4, <1>m DEF HandleDatasReceive, Receive
  <2>5. ASSUME NEW l \in ForeignLoc, HandleDataSendConfirm(l) PROVE TypeOK'
    BY <2>5, <1>m DEF HandleDataSendConfirm, Receive, confirmItem
  <2>6. ASSUME NEW type \in Talk, HandleChatter(type) PROVE TypeOK'
    BY <2>6, <1>m DEF HandleChatter, Receive, Send, Reply, Talk
  <2> QED BY <1>4, <2>1, <2>2, <2>3, <2>4, <2>5, <2>6 DEF InboxStep
<1>5. CASE ServerStep
  <2>1. CASE SrvJoin
    BY <2>1, <1>m DEF SrvJoin, Arrive, Tell, isthmus
  <2>2. ASSUME NEW l \in ForeignLoc, SrvTakeItem(l) PROVE TypeOK'
    BY <2>2, <1>m DEF SrvTakeItem, Arrive, Tell, isthmus
  <2>3. ASSUME NEW l \in ForeignLoc, SrvIgnoreItem(l) PROVE TypeOK'
    BY <2>3, <1>m DEF SrvIgnoreItem, Arrive, isthmus
  <2>4. ASSUME NEW o \in Abroad, SrvFind(o) PROVE TypeOK'
    BY <2>4 DEF SrvFind, isthmus
  <2>5. ASSUME NEW o \in Abroad, SrvDeliver(o) PROVE TypeOK'
    BY <2>5, <1>m DEF SrvDeliver, Tell, isthmus
  <2>6. ASSUME NEW S \in SUBSET Abroad, SrvDeliverBatch(S) PROVE TypeOK'
    BY <2>6, <1>m DEF SrvDeliverBatch, Tell, isthmus
  <2>7. ASSUME NEW type \in {"DataReceiveConfirm", "DatasReceiveConfirm"},
              NEW S \in SUBSET Abroad, SrvTakeConfirm(type, S)
       PROVE  TypeOK'
    BY <2>7, <1>m DEF SrvTakeConfirm, Arrive, isthmus
  <2>8. ASSUME NEW type \in Silent, SrvAbsorb(type) PROVE TypeOK'
    BY <2>8, <1>m DEF SrvAbsorb, Arrive, Silent, isthmus
  <2>9. ASSUME NEW type \in Talk, SrvChat(type) PROVE TypeOK'
    BY <2>9, <1>m DEF SrvChat, Tell, Talk, Alive, isthmus
  <2> QED BY <1>5, <2>1, <2>2, <2>3, <2>4, <2>5, <2>6, <2>7, <2>8, <2>9 DEF ServerStep
<1>6. CASE UNCHANGED vars BY <1>6
<1> QED BY <1>1, <1>2, <1>3, <1>4, <1>5, <1>6 DEF Next

(* The tables, locals, messages and history variables of every execution have
   their types, and no handler or session leaves its locals or messages behind. *)
THEOREM TypeCorrect == Spec => []TypeOK
<1>1. Init => TypeOK BY TypeInit
<1>2. TypeOK /\ [Next]_vars => TypeOK' BY TypeStep
<1> QED BY <1>1, <1>2, PTL DEF Spec

-----------------------------------------------------------------------------
(* Items for other players. *)

(* At first no location is cleared and no message is under way. *)
LEMMA SendInvInit == Init => SendInv
  BY DEF Init, TablesInit, SendInv, NoSentItemLost

(* One step of any actor keeps every cleared foreign item in the queue or with
   the server. *)
LEMMA SendInvStep == TypeOK /\ SendInv /\ [Next]_vars => SendInv'
<1> SUFFICES ASSUME TypeOK, SendInv, [Next]_vars PROVE SendInv' OBVIOUS
<1> USE DEF SendInv, NoSentItemLost, vars, tables, local, link, server, history
<1>1. CASE SessionStep
  <2>1. CASE Accept
    BY <2>1 DEF Accept
  <2>2. CASE DialFails
    BY <2>2 DEF DialFails, Die, SessionGone
  <2>3. CASE ConnectionLost
    BY <2>3 DEF ConnectionLost, SessionGone
  <2>4. CASE Crash
    BY <2>4 DEF Crash, Die, SessionGone
  <2>5. CASE Restart
    BY <2>5 DEF Restart
  <2> QED BY <1>1, <2>1, <2>2, <2>3, <2>4, <2>5 DEF SessionStep
<1>2. CASE ClientStep
  <2>1. ASSUME NEW f \in Modes, Connect(f) PROVE SendInv'
    BY <2>1 DEF Connect, Send
  <2>2. CASE ConnectNil
    BY <2>2 DEF ConnectNil, Fail, Die, SessionGone
  <2>3. ASSUME NEW L \in SUBSET Location, LocationChecks(L) PROVE SendInv'
    BY <2>3 DEF LocationChecks
  <2>4. ASSUME NEW items \in SetToSeqs(getCollectablePlacements), Collect(items) PROVE SendInv'
    BY <2>4 DEF Collect
  <2>5. CASE Release
    BY <2>5 DEF Release, addUnconfirmedItems, Releasable
  <2>6. CASE ReleaseFails
    BY <2>6 DEF ReleaseFails, Fail, Die, SessionGone, Releasable
  <2>7. CASE Sync
    BY <2>7 DEF Sync
  <2> QED BY <1>2, <2>1, <2>2, <2>3, <2>4, <2>5, <2>6, <2>7 DEF ClientStep
<1>3. CASE HandlerStep
  <2>1. ASSUME NEW l \in Location, CheckSkip(l) PROVE SendInv'
    BY <2>1 DEF CheckSkip, NextRound
  <2>2. ASSUME NEW l \in Location, CheckOwn(l) PROVE SendInv'
    BY <2>2, PlacesAssumption DEF CheckOwn
  <2>3. ASSUME NEW l \in Location, CheckForeign(l) PROVE SendInv'
    BY <2>3 DEF CheckForeign, addUnconfirmedItems, Send
  <2>4. ASSUME NEW l \in Location, CheckForeignFails(l) PROVE SendInv'
    BY <2>4 DEF CheckForeignFails, Fail, Die, SessionGone
  <2>5. CASE ClearChecked
    BY <2>5 DEF ClearChecked, clearLocations, NextRound
  <2>6. CASE ReleaseClear
    BY <2>6 DEF ReleaseClear, clearLocations, Send
  <2>7. CASE MarkReceived
    BY <2>7 DEF MarkReceived, Send
  <2>8. ASSUME NEW o \in Abroad, BatchSkip(o) PROVE SendInv'
    BY <2>8 DEF BatchSkip
  <2>9. ASSUME NEW o \in Abroad, BatchItem(o) PROVE SendInv'
    BY <2>9 DEF BatchItem
  <2>10. CASE BatchCommit
    BY <2>10 DEF BatchCommit, Send
  <2> QED BY <1>3, <2>1, <2>2, <2>3, <2>4, <2>5, <2>6, <2>7, <2>8, <2>9,
       <2>10 DEF HandlerStep
<1>4. CASE InboxStep
  <2>1. CASE HandleJoinConfirm
    BY <2>1 DEF HandleJoinConfirm, Receive, Send
  <2>2. ASSUME NEW o \in Abroad, HandleDataReceive(o) PROVE SendInv'
    BY <2>2 DEF HandleDataReceive, Receive, Send
  <2>3. ASSUME NEW o \in Abroad, HandleDuplicate(o) PROVE SendInv'
    BY <2>3 DEF HandleDuplicate, Receive
  <2>4. ASSUME NEW S \in SUBSET Abroad, HandleDatasReceive(S) PROVE SendInv'
    BY <2>4 DEF HandleDatasReceive, Receive
  <2>5. ASSUME NEW l \in ForeignLoc, HandleDataSendConfirm(l) PROVE SendInv'
    BY <2>5 DEF HandleDataSendConfirm, Receive, confirmItem
  <2>6. ASSUME NEW type \in Talk, HandleChatter(type) PROVE SendInv'
    BY <2>6 DEF HandleChatter, Receive, Send, Talk
  <2> QED BY <1>4, <2>1, <2>2, <2>3, <2>4, <2>5, <2>6 DEF InboxStep
<1>5. CASE ServerStep
  <2>1. CASE SrvJoin
    BY <2>1, MsgDistinct DEF SrvJoin, Arrive, Tell, isthmus
  <2>2. ASSUME NEW l \in ForeignLoc, SrvTakeItem(l) PROVE SendInv'
    BY <2>2, MsgDistinct DEF SrvTakeItem, Arrive, Tell, isthmus
  <2>3. ASSUME NEW l \in ForeignLoc, SrvIgnoreItem(l) PROVE SendInv'
    BY <2>3 DEF SrvIgnoreItem, Arrive, isthmus
  <2>4. ASSUME NEW o \in Abroad, SrvFind(o) PROVE SendInv'
    BY <2>4 DEF SrvFind, isthmus
  <2>5. ASSUME NEW o \in Abroad, SrvDeliver(o) PROVE SendInv'
    BY <2>5, MsgDistinct DEF SrvDeliver, Tell, isthmus
  <2>6. ASSUME NEW S \in SUBSET Abroad, SrvDeliverBatch(S) PROVE SendInv'
    BY <2>6, MsgDistinct DEF SrvDeliverBatch, Tell, isthmus
  <2>7. ASSUME NEW type \in {"DataReceiveConfirm", "DatasReceiveConfirm"},
              NEW S \in SUBSET Abroad, SrvTakeConfirm(type, S)
       PROVE  SendInv'
    BY <2>7 DEF SrvTakeConfirm, Arrive, isthmus
  <2>8. ASSUME NEW type \in Silent, SrvAbsorb(type) PROVE SendInv'
    BY <2>8 DEF SrvAbsorb, Arrive, isthmus
  <2>9. ASSUME NEW type \in Talk, SrvChat(type) PROVE SendInv'
    BY <2>9, MsgDistinct DEF SrvChat, Tell, Talk, isthmus
  <2> QED BY <1>5, <2>1, <2>2, <2>3, <2>4, <2>5, <2>6, <2>7, <2>8, <2>9 DEF ServerStep
<1>6. CASE UNCHANGED vars BY <1>6
<1> QED BY <1>1, <1>2, <1>3, <1>4, <1>5, <1>6 DEF Next

(* An item of another player at a cleared location is with the MW server or in
   the queue that JoinConfirm resends: no kill between the commits of
   LocationChecks or !release, no lost connection and no confirmation can lose
   it. *)
THEOREM SentItemsSafe == Spec => []NoSentItemLost
<1>1. Init => SendInv BY SendInvInit
<1>2. TypeOK /\ SendInv /\ [Next]_vars => SendInv' BY SendInvStep
<1>3. SendInv => NoSentItemLost BY DEF SendInv
<1> QED BY <1>1, <1>2, <1>3, TypeCorrect, PTL DEF Spec

-----------------------------------------------------------------------------
(* Primary keys. *)

(* At first the tables have no keys. *)
LEMMA KeysInvInit == Init => KeysInv
  BY DEF Init, TablesInit, KeysInv, ConstraintOnlyAfterCrash

(* One step of any actor keeps the keys that handlers are about to insert out of
   the tables. *)
LEMMA KeysInvStep == TypeOK /\ KeysInv /\ [Next]_vars => KeysInv'
<1> SUFFICES ASSUME TypeOK, KeysInv, [Next]_vars PROVE KeysInv' OBVIOUS
<1> USE DEF TypeOK, HistoryOK, ControlOK, KeysInv, ConstraintOnlyAfterCrash, vars, tables, local, link, server, history
<1>1. CASE SessionStep
  <2>1. CASE Accept
    BY <2>1 DEF Accept
  <2>2. CASE DialFails
    BY <2>2 DEF DialFails, Die, SessionGone
  <2>3. CASE ConnectionLost
    BY <2>3 DEF ConnectionLost, SessionGone
  <2>4. CASE Crash
    BY <2>4 DEF Crash, Die, SessionGone
  <2>5. CASE Restart
    BY <2>5 DEF Restart
  <2> QED BY <1>1, <2>1, <2>2, <2>3, <2>4, <2>5 DEF SessionStep
<1>2. CASE ClientStep
  <2>1. ASSUME NEW f \in Modes, Connect(f) PROVE KeysInv'
    BY <2>1 DEF Connect
  <2>2. CASE ConnectNil
    BY <2>2 DEF ConnectNil, Fail, Die, SessionGone
  <2>3. ASSUME NEW L \in SUBSET Location, LocationChecks(L) PROVE KeysInv'
    BY <2>3 DEF LocationChecks
  <2>4. ASSUME NEW items \in SetToSeqs(getCollectablePlacements), Collect(items) PROVE KeysInv'
    BY <2>4 DEF Collect
  <2>5. CASE Release
    BY <2>5 DEF Release, addUnconfirmedItems, Releasable, isLocationCleared
  <2>6. CASE ReleaseFails
    BY <2>6 DEF ReleaseFails, Fail, Die, SessionGone, Releasable,
       isLocationCleared
  <2>7. CASE Sync
    BY <2>7 DEF Sync
  <2> QED BY <1>2, <2>1, <2>2, <2>3, <2>4, <2>5, <2>6, <2>7 DEF ClientStep
<1>3. CASE HandlerStep
  <2>1. ASSUME NEW l \in Location, CheckSkip(l) PROVE KeysInv'
    BY <2>1 DEF CheckSkip, NextRound
  <2>2. ASSUME NEW l \in Location, CheckOwn(l) PROVE KeysInv'
    BY <2>2 DEF CheckOwn, Skipped, isLocationCleared
  <2>3. ASSUME NEW l \in Location, CheckForeign(l) PROVE KeysInv'
    BY <2>3 DEF CheckForeign, addUnconfirmedItems, Skipped,
       isLocationCleared
  <2>4. ASSUME NEW l \in Location, CheckForeignFails(l) PROVE KeysInv'
    BY <2>4 DEF CheckForeignFails, Fail, Die, SessionGone, Skipped,
       isLocationCleared
  <2>5. CASE ClearChecked
    BY <2>5 DEF ClearChecked, clearLocations, NextRound
  <2>6. CASE ReleaseClear
    BY <2>6 DEF ReleaseClear, clearLocations
  <2>7. CASE MarkReceived
    BY <2>7 DEF MarkReceived, addReceivedItem
  <2>8. ASSUME NEW o \in Abroad, BatchSkip(o) PROVE KeysInv'
    BY <2>8 DEF BatchSkip, hasReceivedItem
  <2>9. ASSUME NEW o \in Abroad, BatchItem(o) PROVE KeysInv'
    BY <2>9 DEF BatchItem, hasReceivedItem, addReceivedItem
  <2>10. CASE BatchCommit
    BY <2>10 DEF BatchCommit
  <2> QED BY <1>3, <2>1, <2>2, <2>3, <2>4, <2>5, <2>6, <2>7, <2>8, <2>9,
       <2>10 DEF HandlerStep
<1>4. CASE InboxStep
  <2>1. CASE HandleJoinConfirm
    BY <2>1 DEF HandleJoinConfirm, Receive
  <2>2. ASSUME NEW o \in Abroad, HandleDataReceive(o) PROVE KeysInv'
    BY <2>2 DEF HandleDataReceive, Receive, hasReceivedItem
  <2>3. ASSUME NEW o \in Abroad, HandleDuplicate(o) PROVE KeysInv'
    BY <2>3 DEF HandleDuplicate, Receive, hasReceivedItem
  <2>4. ASSUME NEW S \in SUBSET Abroad, HandleDatasReceive(S) PROVE KeysInv'
    BY <2>4 DEF HandleDatasReceive, Receive
  <2>5. ASSUME NEW l \in ForeignLoc, HandleDataSendConfirm(l) PROVE KeysInv'
    BY <2>5 DEF HandleDataSendConfirm, Receive, confirmItem
  <2>6. ASSUME NEW type \in Talk, HandleChatter(type) PROVE KeysInv'
    BY <2>6 DEF HandleChatter, Receive
  <2> QED BY <1>4, <2>1, <2>2, <2>3, <2>4, <2>5, <2>6 DEF InboxStep
<1>5. CASE ServerStep
  <2>1. CASE SrvJoin
    BY <2>1 DEF SrvJoin, isthmus
  <2>2. ASSUME NEW l \in ForeignLoc, SrvTakeItem(l) PROVE KeysInv'
    BY <2>2 DEF SrvTakeItem, isthmus
  <2>3. ASSUME NEW l \in ForeignLoc, SrvIgnoreItem(l) PROVE KeysInv'
    BY <2>3 DEF SrvIgnoreItem, isthmus
  <2>4. ASSUME NEW o \in Abroad, SrvFind(o) PROVE KeysInv'
    BY <2>4 DEF SrvFind, isthmus
  <2>5. ASSUME NEW o \in Abroad, SrvDeliver(o) PROVE KeysInv'
    BY <2>5 DEF SrvDeliver, isthmus
  <2>6. ASSUME NEW S \in SUBSET Abroad, SrvDeliverBatch(S) PROVE KeysInv'
    BY <2>6 DEF SrvDeliverBatch, isthmus
  <2>7. ASSUME NEW type \in {"DataReceiveConfirm", "DatasReceiveConfirm"},
              NEW S \in SUBSET Abroad, SrvTakeConfirm(type, S)
       PROVE  KeysInv'
    BY <2>7 DEF SrvTakeConfirm, isthmus
  <2>8. ASSUME NEW type \in Silent, SrvAbsorb(type) PROVE KeysInv'
    BY <2>8 DEF SrvAbsorb, isthmus
  <2>9. ASSUME NEW type \in Talk, SrvChat(type) PROVE KeysInv'
    BY <2>9 DEF SrvChat, isthmus
  <2> QED BY <1>5, <2>1, <2>2, <2>3, <2>4, <2>5, <2>6, <2>7, <2>8, <2>9 DEF ServerStep
<1>6. CASE UNCHANGED vars BY <1>6
<1> QED BY <1>1, <1>2, <1>3, <1>4, <1>5, <1>6 DEF Next

(* No order of messages makes an INSERT fail on a primary key in a process whose
   savefile never saw a kill between two commits; and the inserts of
   clearLocations and addReceivedItem never fail at all. *)
THEOREM KeysSafe == Spec => []ConstraintOnlyAfterCrash
<1>1. Init => KeysInv BY KeysInvInit
<1>2. TypeOK /\ KeysInv /\ [Next]_vars => KeysInv' BY KeysInvStep
<1>3. KeysInv => ConstraintOnlyAfterCrash BY DEF KeysInv
<1> QED BY <1>1, <1>2, <1>3, TypeCorrect, PTL DEF Spec

-----------------------------------------------------------------------------
(* The list of the client. *)

(* Before a Connect no client takes remote items. *)
LEMMA RemoteClientInSyncInit == Init => RemoteClientInSync
  BY DEF Init, RemoteClientInSync, ItemHandlingMode

(* One step of any actor changes log and client list alike. *)
LEMMA RemoteClientInSyncStep == TypeOK /\ RemoteClientInSync /\ [Next]_vars => RemoteClientInSync'
<1> SUFFICES ASSUME TypeOK, RemoteClientInSync, [Next]_vars PROVE RemoteClientInSync' OBVIOUS
<1>t. sent \in Seq(OwnItem) /\ view \in Seq(OwnItem) /\ acc \in Seq(Abroad)
  BY DEF TypeOK, TablesOK, LocalsOK
<1>c. \A v : ApplyReceived(v, 0, sent) = sent
  BY DEF ApplyReceived
<1>i. ASSUME NEW T, NEW items \in Seq(T), view = sent
      PROVE  ApplyReceived(view, SentIndex(items), items) = sent \o items
  <2>1. CASE items = <<>>
    <3>1. SentIndex(items) = -1 /\ Len(view) \in Nat
      BY <2>1, <1>t DEF SentIndex
    <3>2. ApplyReceived(view, SentIndex(items), items) = view
      BY <3>1 DEF ApplyReceived
    <3> QED BY <3>2, <2>1, <1>i, <1>t
  <2>2. CASE items # <<>> /\ sent = <<>>
    BY <2>2, <1>i, <1>t DEF SentIndex, ApplyReceived
  <2>3. CASE items # <<>> /\ sent # <<>>
    <3>1. SentIndex(items) = Len(view) /\ Len(view) # 0
      BY <2>3, <1>i, <1>t DEF SentIndex
    <3> QED BY <3>1, <1>i DEF ApplyReceived
  <2> QED BY <2>1, <2>2, <2>3
<1>h. ItemHandlingMode # {} /\ ReceiveOthersItems \in ItemHandlingMode
      /\ ReceiveOwnItems \in ItemHandlingMode
  BY DEF ItemHandlingMode
<1> USE DEF RemoteClientInSync, vars, tables, local, link, server, history
<1>1. CASE SessionStep
  <2>1. CASE Accept
    BY <2>1 DEF Accept
  <2>2. CASE DialFails
    BY <2>2, <1>h DEF DialFails, Die, SessionGone
  <2>3. CASE ConnectionLost
    BY <2>3, <1>h DEF ConnectionLost, SessionGone
  <2>4. CASE Crash
    BY <2>4, <1>h DEF Crash, Die, SessionGone
  <2>5. CASE Restart
    BY <2>5 DEF Restart
  <2> QED BY <1>1, <2>1, <2>2, <2>3, <2>4, <2>5 DEF SessionStep
<1>2. CASE ClientStep
  <2>1. ASSUME NEW f \in Modes, Connect(f) PROVE RemoteClientInSync'
    BY <2>1, <1>c DEF Connect
  <2>2. CASE ConnectNil
    BY <2>2, <1>h DEF ConnectNil, Fail, Die, SessionGone
  <2>3. ASSUME NEW L \in SUBSET Location, LocationChecks(L) PROVE RemoteClientInSync'
    BY <2>3 DEF LocationChecks
  <2>4. ASSUME NEW items \in SetToSeqs(getCollectablePlacements), Collect(items) PROVE RemoteClientInSync'
    <3>1. items \in Seq(OwnItem)
      BY CollectOrder DEF getCollectablePlacements
    <3> QED BY <2>4, <3>1, <1>i DEF Collect, addSentItems
  <2>5. CASE Release
    BY <2>5 DEF Release
  <2>6. CASE ReleaseFails
    BY <2>6, <1>h DEF ReleaseFails, Fail, Die, SessionGone
  <2>7. CASE Sync
    BY <2>7, <1>c DEF Sync
  <2> QED BY <1>2, <2>1, <2>2, <2>3, <2>4, <2>5, <2>6, <2>7 DEF ClientStep
<1>3. CASE HandlerStep
  <2>1. ASSUME NEW l \in Location, CheckSkip(l) PROVE RemoteClientInSync'
    BY <2>1 DEF CheckSkip
  <2>2. ASSUME NEW l \in Location, CheckOwn(l) PROVE RemoteClientInSync'
    <3>1. <<l>> \in Seq({l}) OBVIOUS
    <3> QED BY <2>2, <3>1, <1>i, <1>h DEF CheckOwn, addSentItems, Forward
  <2>3. ASSUME NEW l \in Location, CheckForeign(l) PROVE RemoteClientInSync'
    BY <2>3 DEF CheckForeign
  <2>4. ASSUME NEW l \in Location, CheckForeignFails(l) PROVE RemoteClientInSync'
    BY <2>4, <1>h DEF CheckForeignFails, Fail, Die, SessionGone
  <2>5. CASE ClearChecked
    BY <2>5 DEF ClearChecked
  <2>6. CASE ReleaseClear
    BY <2>6 DEF ReleaseClear
  <2>7. CASE MarkReceived
    BY <2>7 DEF MarkReceived
  <2>8. ASSUME NEW o \in Abroad, BatchSkip(o) PROVE RemoteClientInSync'
    BY <2>8 DEF BatchSkip
  <2>9. ASSUME NEW o \in Abroad, BatchItem(o) PROVE RemoteClientInSync'
    BY <2>9 DEF BatchItem
  <2>10. CASE BatchCommit
    BY <2>10, <1>t, <1>i, <1>h DEF BatchCommit, addSentItems, Forward
  <2> QED BY <1>3, <2>1, <2>2, <2>3, <2>4, <2>5, <2>6, <2>7, <2>8, <2>9,
       <2>10 DEF HandlerStep
<1>4. CASE InboxStep
  <2>1. CASE HandleJoinConfirm
    BY <2>1 DEF HandleJoinConfirm, Receive
  <2>2. ASSUME NEW o \in Abroad, HandleDataReceive(o) PROVE RemoteClientInSync'
    <3>1. <<o>> \in Seq({o}) OBVIOUS
    <3> QED BY <2>2, <3>1, <1>i, <1>h DEF HandleDataReceive, addSentItems, Forward
  <2>3. ASSUME NEW o \in Abroad, HandleDuplicate(o) PROVE RemoteClientInSync'
    BY <2>3 DEF HandleDuplicate, Receive
  <2>4. ASSUME NEW S \in SUBSET Abroad, HandleDatasReceive(S) PROVE RemoteClientInSync'
    BY <2>4 DEF HandleDatasReceive, Receive
  <2>5. ASSUME NEW l \in ForeignLoc, HandleDataSendConfirm(l) PROVE RemoteClientInSync'
    BY <2>5 DEF HandleDataSendConfirm, Receive
  <2>6. ASSUME NEW type \in Talk, HandleChatter(type) PROVE RemoteClientInSync'
    BY <2>6 DEF HandleChatter, Receive
  <2> QED BY <1>4, <2>1, <2>2, <2>3, <2>4, <2>5, <2>6 DEF InboxStep
<1>5. CASE ServerStep
  <2>1. CASE SrvJoin
    BY <2>1 DEF SrvJoin, isthmus
  <2>2. ASSUME NEW l \in ForeignLoc, SrvTakeItem(l) PROVE RemoteClientInSync'
    BY <2>2 DEF SrvTakeItem, isthmus
  <2>3. ASSUME NEW l \in ForeignLoc, SrvIgnoreItem(l) PROVE RemoteClientInSync'
    BY <2>3 DEF SrvIgnoreItem, isthmus
  <2>4. ASSUME NEW o \in Abroad, SrvFind(o) PROVE RemoteClientInSync'
    BY <2>4 DEF SrvFind, isthmus
  <2>5. ASSUME NEW o \in Abroad, SrvDeliver(o) PROVE RemoteClientInSync'
    BY <2>5 DEF SrvDeliver, isthmus
  <2>6. ASSUME NEW S \in SUBSET Abroad, SrvDeliverBatch(S) PROVE RemoteClientInSync'
    BY <2>6 DEF SrvDeliverBatch, isthmus
  <2>7. ASSUME NEW type \in {"DataReceiveConfirm", "DatasReceiveConfirm"},
              NEW S \in SUBSET Abroad, SrvTakeConfirm(type, S)
       PROVE  RemoteClientInSync'
    BY <2>7 DEF SrvTakeConfirm, isthmus
  <2>8. ASSUME NEW type \in Silent, SrvAbsorb(type) PROVE RemoteClientInSync'
    BY <2>8 DEF SrvAbsorb, isthmus
  <2>9. ASSUME NEW type \in Talk, SrvChat(type) PROVE RemoteClientInSync'
    BY <2>9 DEF SrvChat, isthmus
  <2> QED BY <1>5, <2>1, <2>2, <2>3, <2>4, <2>5, <2>6, <2>7, <2>8, <2>9 DEF ServerStep
<1>6. CASE UNCHANGED vars BY <1>6
<1> QED BY <1>1, <1>2, <1>3, <1>4, <1>5, <1>6 DEF Next

(* A client with remote items holds exactly the log of items, in order, at every
   moment: each index addSentItems returns is the one this client expects. *)
THEOREM ClientInSync == Spec => []RemoteClientInSync
<1>1. Init => RemoteClientInSync BY RemoteClientInSyncInit
<1>2. TypeOK /\ RemoteClientInSync /\ [Next]_vars => RemoteClientInSync' BY RemoteClientInSyncStep
<1>3. RemoteClientInSync => RemoteClientInSync BY DEF RemoteClientInSync
<1> QED BY <1>1, <1>2, <1>3, TypeCorrect, PTL DEF Spec

-----------------------------------------------------------------------------
(* Our items from other worlds. *)

(* At first nothing is received or confirmed. *)
LEMMA ReceiveInvInit == Init => ReceiveInv
<1> SUFFICES ASSUME Init PROVE ReceiveInv OBVIOUS
<1> QED BY DEF Init, TablesInit, ReceiveInv, ConfirmedItemLogged

(* One step of any actor keeps every item that is received or confirmed in the
   log, in the batch, or among the torn ones. *)
LEMMA ReceiveInvStep == TypeOK /\ ReceiveInv /\ [Next]_vars => ReceiveInv'
<1> SUFFICES ASSUME TypeOK, ReceiveInv, [Next]_vars PROVE ReceiveInv' OBVIOUS
<1>t. sent \in Seq(OwnItem) /\ acc \in Seq(Abroad)
  BY DEF TypeOK, TablesOK, LocalsOK
<1>l. ASSUME NEW items \in Seq(OwnItem), addSentItems(items)
      PROVE  Logged' = Logged \cup ToSet(items)
  BY <1>l, <1>t, ToSetConcat DEF Logged, addSentItems
<1>o. \A x \in OwnItem : <<x>> \in Seq(OwnItem) /\ ToSet(<<x>>) = {x}
  BY DEF ToSet
<1>u. ASSUME UNCHANGED sent PROVE Logged' = Logged
  BY <1>u DEF Logged
<1>e. ToSet(<<>>) = {}
  BY DEF ToSet
<1> USE DEF ReceiveInv, ConfirmedItemLogged, vars, tables, local, link, server, history
<1>1. CASE SessionStep
  <2>1. CASE Accept
    BY <2>1, <1>u DEF Accept
  <2>2. CASE DialFails
    BY <2>2, <1>u, <1>e DEF DialFails, Die, SessionGone
  <2>3. CASE ConnectionLost
    BY <2>3, <1>u, <1>e DEF ConnectionLost, SessionGone, TypeOK, ControlOK
  <2>4. CASE Crash
    BY <2>4, <1>u, <1>e DEF Crash, Die, SessionGone
  <2>5. CASE Restart
    BY <2>5, <1>u DEF Restart
  <2> QED BY <1>1, <2>1, <2>2, <2>3, <2>4, <2>5 DEF SessionStep
<1>2. CASE ClientStep
  <2>1. ASSUME NEW f \in Modes, Connect(f) PROVE ReceiveInv'
    BY <2>1, <1>u, MsgDistinct DEF Connect, Send
  <2>2. CASE ConnectNil
    BY <2>2, <1>u, <1>e DEF ConnectNil, Fail, Die, SessionGone
  <2>3. ASSUME NEW L \in SUBSET Location, LocationChecks(L) PROVE ReceiveInv'
    BY <2>3, <1>u DEF LocationChecks
  <2>4. ASSUME NEW items \in SetToSeqs(getCollectablePlacements), Collect(items) PROVE ReceiveInv'
    <3>1. items \in Seq(OwnItem)
      BY CollectOrder DEF getCollectablePlacements
    <3>2. Logged \subseteq Logged' BY <2>4, <3>1, <1>l DEF Collect
    <3> QED BY <2>4, <3>2 DEF Collect
  <2>5. CASE Release
    BY <2>5, <1>u DEF Release
  <2>6. CASE ReleaseFails
    BY <2>6, <1>u, <1>e DEF ReleaseFails, Fail, Die, SessionGone
  <2>7. CASE Sync
    BY <2>7, <1>u DEF Sync
  <2> QED BY <1>2, <2>1, <2>2, <2>3, <2>4, <2>5, <2>6, <2>7 DEF ClientStep
<1>3. CASE HandlerStep
  <2>1. ASSUME NEW l \in Location, CheckSkip(l) PROVE ReceiveInv'
    BY <2>1, <1>u DEF CheckSkip, NextRound
  <2>2. ASSUME NEW l \in Location, CheckOwn(l) PROVE ReceiveInv'
    <3>1. l \in OwnItem BY <2>2 DEF CheckOwn, OwnItem
    <3>2. Logged \subseteq Logged' BY <2>2, <3>1, <1>o, <1>l DEF CheckOwn
    <3> QED BY <2>2, <3>2 DEF CheckOwn
  <2>3. ASSUME NEW l \in Location, CheckForeign(l) PROVE ReceiveInv'
    BY <2>3, <1>u, MsgDistinct DEF CheckForeign, Send
  <2>4. ASSUME NEW l \in Location, CheckForeignFails(l) PROVE ReceiveInv'
    BY <2>4, <1>u, <1>e DEF CheckForeignFails, Fail, Die, SessionGone
  <2>5. CASE ClearChecked
    BY <2>5, <1>u DEF ClearChecked, NextRound
  <2>6. CASE ReleaseClear
    BY <2>6, <1>u, MsgDistinct DEF ReleaseClear, Send
  <2>7. CASE MarkReceived
    BY <2>7, <1>u, MsgDistinct DEF MarkReceived, addReceivedItem, Send
  <2>8. ASSUME NEW o \in Abroad, BatchSkip(o) PROVE ReceiveInv'
    BY <2>8, <1>u DEF BatchSkip, hasReceivedItem
  <2>9. ASSUME NEW o \in Abroad, BatchItem(o) PROVE ReceiveInv'
    <3>1. ToSet(acc') = ToSet(acc) \cup {o}
      BY <2>9, <1>t, ToSetAppend DEF BatchItem
    <3> QED BY <2>9, <3>1, <1>u DEF BatchItem, addReceivedItem
  <2>10. CASE BatchCommit
    <3>1. acc \in Seq(OwnItem) BY <1>t DEF OwnItem
    <3>2. Logged' = Logged \cup ToSet(acc) BY <2>10, <3>1, <1>l DEF BatchCommit
    <3>3. ToSet(acc') = {} BY <2>10, <1>e DEF BatchCommit
    <3>4. \A S \in SUBSET Abroad :
            /\ Msg("DataReceiveConfirm", S) \in mwOut' =>
                 Msg("DataReceiveConfirm", S) \in mwOut
            /\ Msg("DatasReceiveConfirm", S) \in mwOut' =>
                 Msg("DatasReceiveConfirm", S) \in mwOut \/ S = cur
      BY <2>10, MsgDistinct DEF BatchCommit, Send
    <3> QED BY <2>10, <3>2, <3>3, <3>4 DEF BatchCommit
  <2> QED BY <1>3, <2>1, <2>2, <2>3, <2>4, <2>5, <2>6, <2>7, <2>8, <2>9,
       <2>10 DEF HandlerStep
<1>4. CASE InboxStep
  <2>1. CASE HandleJoinConfirm
    BY <2>1, <1>u, MsgDistinct DEF HandleJoinConfirm, Receive, Send, Resend
  <2>2. ASSUME NEW o \in Abroad, HandleDataReceive(o) PROVE ReceiveInv'
    <3>1. <<o>> \in Seq(OwnItem) /\ ToSet(<<o>>) = {o}
      BY <1>o DEF OwnItem
    <3>2. Logged' = Logged \cup {o} BY <2>2, <3>1, <1>l DEF HandleDataReceive
    <3>3. \A S \in SUBSET Abroad :
            /\ Msg("DataReceiveConfirm", S) \in mwOut' =>
                 Msg("DataReceiveConfirm", S) \in mwOut \/ S = {o}
            /\ Msg("DatasReceiveConfirm", S) \in mwOut' =>
                 Msg("DatasReceiveConfirm", S) \in mwOut
      BY <2>2, MsgDistinct DEF HandleDataReceive, Send
    <3> QED BY <2>2, <3>2, <3>3 DEF HandleDataReceive
  <2>3. ASSUME NEW o \in Abroad, HandleDuplicate(o) PROVE ReceiveInv'
    BY <2>3, <1>u DEF HandleDuplicate, Receive, hasReceivedItem
  <2>4. ASSUME NEW S \in SUBSET Abroad, HandleDatasReceive(S) PROVE ReceiveInv'
    BY <2>4, <1>u DEF HandleDatasReceive, Receive
  <2>5. ASSUME NEW l \in ForeignLoc, HandleDataSendConfirm(l) PROVE ReceiveInv'
    BY <2>5, <1>u DEF HandleDataSendConfirm, Receive
  <2>6. ASSUME NEW type \in Talk, HandleChatter(type) PROVE ReceiveInv'
    BY <2>6, <1>u, MsgDistinct DEF HandleChatter, Receive, Send, Reply
  <2> QED BY <1>4, <2>1, <2>2, <2>3, <2>4, <2>5, <2>6 DEF InboxStep
<1>5. CASE ServerStep
  <2>1. CASE SrvJoin
    BY <2>1, <1>u DEF SrvJoin, Arrive, isthmus
  <2>2. ASSUME NEW l \in ForeignLoc, SrvTakeItem(l) PROVE ReceiveInv'
    BY <2>2, <1>u DEF SrvTakeItem, Arrive, isthmus
  <2>3. ASSUME NEW l \in ForeignLoc, SrvIgnoreItem(l) PROVE ReceiveInv'
    BY <2>3, <1>u DEF SrvIgnoreItem, Arrive, isthmus
  <2>4. ASSUME NEW o \in Abroad, SrvFind(o) PROVE ReceiveInv'
    BY <2>4, <1>u DEF SrvFind, isthmus
  <2>5. ASSUME NEW o \in Abroad, SrvDeliver(o) PROVE ReceiveInv'
    BY <2>5, <1>u DEF SrvDeliver, isthmus
  <2>6. ASSUME NEW S \in SUBSET Abroad, SrvDeliverBatch(S) PROVE ReceiveInv'
    BY <2>6, <1>u DEF SrvDeliverBatch, isthmus
  <2>7. ASSUME NEW type \in {"DataReceiveConfirm", "DatasReceiveConfirm"},
              NEW S \in SUBSET Abroad, SrvTakeConfirm(type, S)
       PROVE  ReceiveInv'
    BY <2>7, <1>u DEF SrvTakeConfirm, Arrive, isthmus
  <2>8. ASSUME NEW type \in Silent, SrvAbsorb(type) PROVE ReceiveInv'
    BY <2>8, <1>u DEF SrvAbsorb, Arrive, Silent, isthmus
  <2>9. ASSUME NEW type \in Talk, SrvChat(type) PROVE ReceiveInv'
    BY <2>9, <1>u DEF SrvChat, isthmus
  <2> QED BY <1>5, <2>1, <2>2, <2>3, <2>4, <2>5, <2>6, <2>7, <2>8, <2>9 DEF ServerStep
<1>6. CASE UNCHANGED vars BY <1>6, <1>u
<1> QED BY <1>1, <1>2, <1>3, <1>4, <1>5, <1>6 DEF Next

(* An item we confirmed to the MW server, which may then forget it, is in the
   log of items for the client, except those a kill inside DatasReceive cut
   off from it. *)
THEOREM ConfirmedItemsSafe == Spec => []ConfirmedItemLogged
<1>1. Init => ReceiveInv BY ReceiveInvInit
<1>2. TypeOK /\ ReceiveInv /\ [Next]_vars => ReceiveInv' BY ReceiveInvStep
<1>3. ReceiveInv => ConfirmedItemLogged BY DEF ReceiveInv
<1> QED BY <1>1, <1>2, <1>3, TypeCorrect, PTL DEF Spec

-----------------------------------------------------------------------------
(* The log. *)

(* Items that are not among the appended ones keep their number of copies. *)
LEMMA CopiesConcat ==
    ASSUME NEW T, NEW s \in Seq(T), NEW t \in Seq(T), NEW x, x \notin ToSet(t)
    PROVE  {i \in DOMAIN (s \o t) : (s \o t)[i] = x} = {i \in DOMAIN s : s[i] = x}
<1>1. /\ DOMAIN s = 1 .. Len(s) /\ Len(s) \in Nat
      /\ DOMAIN t = 1 .. Len(t) /\ Len(t) \in Nat
      /\ DOMAIN (s \o t) = 1 .. Len(s) + Len(t)
      /\ \A i \in 1 .. Len(s) + Len(t) :
           (s \o t)[i] = IF i <= Len(s) THEN s[i] ELSE t[i - Len(s)]
  BY ConcatProperties
<1>2. ASSUME NEW i \in 1 .. Len(s) + Len(t), i > Len(s) PROVE (s \o t)[i] # x
  <2>1. i - Len(s) \in DOMAIN t /\ (s \o t)[i] = t[i - Len(s)] BY <1>1, <1>2
  <2> QED BY <2>1 DEF ToSet
<1> QED BY <1>1, <1>2

(* addSentItems adds no copy of an item that is not in its argument. *)
LEMMA CopiesAdded ==
    ASSUME TypeOK, NEW items \in Seq(OwnItem), addSentItems(items),
           NEW x, x \notin ToSet(items)
    PROVE  Copies(x)' = Copies(x)
<1>1. sent \in Seq(OwnItem) BY DEF TypeOK, TablesOK
<1>2. {i \in DOMAIN (sent \o items) : (sent \o items)[i] = x}
        = {i \in DOMAIN sent : sent[i] = x}
  BY <1>1, CopiesConcat
<1> QED BY <1>2 DEF Copies, addSentItems

(* The actions that do not touch the log. *)
LEMMA LogUntouched ==
    ASSUME [Next]_vars,
           \A l \in Location : ~CheckOwn(l),
           \A o \in Abroad : ~HandleDataReceive(o),
           \A items \in SetToSeqs(getCollectablePlacements) : ~Collect(items),
           ~BatchCommit
    PROVE  UNCHANGED sent
<1> USE DEF tables, vars
<1>1. CASE SessionStep
  BY <1>1 DEF SessionStep, Accept, DialFails, ConnectionLost, Crash, Restart,
     Die, SessionGone
<1>2. CASE ClientStep
  BY <1>2 DEF ClientStep, Connect, ConnectNil, LocationChecks, Release,
     ReleaseFails, Sync, Fail, Die, SessionGone
<1>3. CASE HandlerStep
  BY <1>3 DEF HandlerStep, CheckSkip, CheckForeign, CheckForeignFails,
     ClearChecked, ReleaseClear, MarkReceived, BatchSkip, BatchItem, Fail, Die,
     SessionGone
<1>4. CASE InboxStep
  BY <1>4 DEF InboxStep, HandleJoinConfirm, HandleDuplicate,
     HandleDatasReceive, HandleDataSendConfirm, HandleChatter
<1>5. CASE ServerStep
  BY <1>5 DEF ServerStep, SrvJoin, SrvTakeItem, SrvIgnoreItem, SrvFind,
     SrvDeliver, SrvDeliverBatch, SrvTakeConfirm, SrvAbsorb, SrvChat, isthmus
<1>6. CASE UNCHANGED vars BY <1>6
<1> QED BY <1>1, <1>2, <1>3, <1>4, <1>5, <1>6 DEF Next

(* One step: nothing that is settled gets another copy. *)
LEMMA SettledStep ==
    ASSUME TypeOK, [Next]_vars,
           NEW x \in (received \cup cleared) \ ToSet(acc)
    PROVE  Copies(x)' = Copies(x)
<1>t. /\ received \subseteq Abroad /\ cleared \subseteq Location
      /\ acc \in Seq(Abroad) /\ Location \cap Abroad = {}
  BY PlacesAssumption DEF TypeOK, TablesOK, LocalsOK
<1>o. \A y \in OwnItem : <<y>> \in Seq(OwnItem) /\ ToSet(<<y>>) = {y}
  BY DEF ToSet
<1>1. ASSUME NEW l \in Location, CheckOwn(l) PROVE Copies(x)' = Copies(x)
  <2>1. l \in OwnItem /\ addSentItems(<<l>>) /\ l \notin cleared
    BY <1>1 DEF CheckOwn, OwnItem, Skipped, isLocationCleared
  <2>2. x \notin ToSet(<<l>>) BY <2>1, <1>t, <1>o
  <2> QED BY <2>1, <2>2, <1>o, CopiesAdded
<1>2. ASSUME NEW o \in Abroad, HandleDataReceive(o) PROVE Copies(x)' = Copies(x)
  <2>1. o \in OwnItem /\ addSentItems(<<o>>) /\ o \notin received
    BY <1>2 DEF HandleDataReceive, OwnItem, hasReceivedItem
  <2>2. x \notin ToSet(<<o>>) BY <2>1, <1>t, <1>o
  <2> QED BY <2>1, <2>2, <1>o, CopiesAdded
<1>3. ASSUME NEW items \in SetToSeqs(getCollectablePlacements), Collect(items)
      PROVE  Copies(x)' = Copies(x)
  <2>1. addSentItems(items) /\ items \in Seq(OwnItem)
    BY <1>3, CollectOrder DEF Collect, getCollectablePlacements
  <2>2. items \in Seq(Abroad \ received)
    <3>1. IsFiniteSet(Abroad \ received) BY PlacesAssumption, FS_Difference
    <3> QED BY <3>1, OrdersType DEF getCollectablePlacements
  <2>3. x \notin ToSet(items) BY <2>2, <1>t, ToSetType
  <2> QED BY <2>1, <2>3, CopiesAdded
<1>4. CASE BatchCommit
  <2>1. addSentItems(acc) /\ acc \in Seq(OwnItem)
    BY <1>4, <1>t DEF BatchCommit, OwnItem
  <2> QED BY <2>1, CopiesAdded
<1>5. CASE UNCHANGED sent BY <1>5 DEF Copies
<1> QED BY <1>1, <1>2, <1>3, <1>4, <1>5, LogUntouched

(* However often an item is delivered, collected or checked, the log gets no
   further copy once the item is marked as received or its location as
   cleared. *)
THEOREM SettledItemsStay == Spec => SettledOnce
<1>1. TypeOK /\ [Next]_vars =>
        [\A x \in (received \cup cleared) \ ToSet(acc) : Copies(x)' = Copies(x)]_vars
  BY SettledStep
<1> QED BY <1>1, TypeCorrect, PTL DEF Spec, SettledOnce

-----------------------------------------------------------------------------
(* The log. *)

(* addSentItems adds its items to what is logged, and nothing else. *)
LEMMA LoggedAdded ==
    ASSUME TypeOK, NEW items \in Seq(OwnItem), addSentItems(items)
    PROVE  Logged' = Logged \cup ToSet(items)
<1>1. sent \in Seq(OwnItem) BY DEF TypeOK, TablesOK
<1> QED BY <1>1, ToSetConcat DEF Logged, addSentItems

(* An order in which !collect lists items consists of items of ours in other
   worlds that are not marked as received. *)
LEMMA CollectItems ==
    ASSUME NEW items \in SetToSeqs(getCollectablePlacements)
    PROVE  items \in Seq(OwnItem) /\ ToSet(items) \subseteq Abroad \ received
<1>1. IsFiniteSet(Abroad \ received) BY PlacesAssumption, FS_Difference
<1>2. items \in Seq(Abroad \ received)
  BY <1>1, OrdersType DEF getCollectablePlacements
<1>3. items \in Seq(OwnItem) BY <1>2 DEF OwnItem
<1> QED BY <1>2, <1>3, ToSetType

(* A log of one item of ours. *)
LEMMA OneItem ==
    ASSUME NEW x \in OwnItem
    PROVE  <<x>> \in Seq(OwnItem) /\ ToSet(<<x>>) = {x}
  BY DEF ToSet

(* No step takes anything out of the log. *)
LEMMA LoggedStays ==
    ASSUME TypeOK, [Next]_vars
    PROVE  Logged \subseteq Logged'
<1>1. ASSUME NEW l \in Location, CheckOwn(l) PROVE Logged \subseteq Logged'
  <2>1. l \in OwnItem /\ addSentItems(<<l>>) BY <1>1 DEF CheckOwn, OwnItem
  <2> QED BY <2>1, OneItem, LoggedAdded
<1>2. ASSUME NEW o \in Abroad, HandleDataReceive(o) PROVE Logged \subseteq Logged'
  <2>1. o \in OwnItem /\ addSentItems(<<o>>)
    BY <1>2 DEF HandleDataReceive, OwnItem
  <2> QED BY <2>1, OneItem, LoggedAdded
<1>3. ASSUME NEW items \in SetToSeqs(getCollectablePlacements), Collect(items)
      PROVE  Logged \subseteq Logged'
  BY <1>3, CollectItems, LoggedAdded DEF Collect
<1>4. CASE BatchCommit
  <2>1. acc \in Seq(OwnItem) BY DEF TypeOK, LocalsOK, OwnItem
  <2> QED BY <1>4, <2>1, LoggedAdded DEF BatchCommit
<1>5. CASE UNCHANGED sent BY <1>5 DEF Logged
<1> QED BY <1>1, <1>2, <1>3, <1>4, <1>5, LogUntouched

-----------------------------------------------------------------------------
(* What a handler and the messages in flight owe to the exchange. *)

(* Among the messages that send a set of items, the ones about an item are those
   of its own. *)
LEMMA DataSendOf ==
    ASSUME NEW S, NEW x, Msg("DataSend", {x}) \in {Msg("DataSend", {l}) : l \in S}
    PROVE  x \in S
<1>1. PICK l \in S : Msg("DataSend", {x}) = Msg("DataSend", {l}) OBVIOUS
<1>2. {x} = {l} BY <1>1 DEF Msg
<1> QED BY <1>2

(* At first no handler runs and no message is under way. *)
LEMMA ExchangeInvInit == Init => ExchangeInv
  BY DEF Init, TablesInit, ExchangeInv, ToSet

(* The batch at hand holds marked items only, after every step. *)
LEMMA BatchMarked ==
    ASSUME TypeOK, ToSet(acc) \subseteq received, [Next]_vars
    PROVE  ToSet(acc') \subseteq received'
<1>e. ToSet(<<>>) = {} BY DEF ToSet
<1>u. ASSUME UNCHANGED acc, received \subseteq received'
      PROVE  ToSet(acc') \subseteq received'
  BY <1>u
<1>n. ASSUME acc' = <<>> PROVE ToSet(acc') \subseteq received'
  BY <1>n, <1>e
<1> USE DEF vars, tables, local, link, server, history
<1>1. CASE SessionStep
  BY <1>1, <1>u, <1>n DEF SessionStep, Accept, DialFails, ConnectionLost, Crash,
     Restart, Die, SessionGone
<1>2. CASE ClientStep
  BY <1>2, <1>u, <1>n DEF ClientStep, Connect, ConnectNil, LocationChecks, Collect,
     Release, ReleaseFails, Sync, Fail, Die, SessionGone
<1>3. CASE HandlerStep
  <2>1. ASSUME NEW l \in Location,
              CheckSkip(l) \/ CheckOwn(l) \/ CheckForeign(l) \/ CheckForeignFails(l)
       PROVE  ToSet(acc') \subseteq received'
    BY <2>1, <1>u, <1>n DEF CheckSkip, CheckOwn, CheckForeign, CheckForeignFails,
       Fail, Die, SessionGone
  <2>2. CASE ClearChecked \/ ReleaseClear \/ MarkReceived
    BY <2>2, <1>u DEF ClearChecked, ReleaseClear, MarkReceived, addReceivedItem
  <2>3. ASSUME NEW o \in Abroad, BatchSkip(o) PROVE ToSet(acc') \subseteq received'
    BY <2>3, <1>u DEF BatchSkip
  <2>4. ASSUME NEW o \in Abroad, BatchItem(o) PROVE ToSet(acc') \subseteq received'
    <3>1. acc \in Seq(Abroad) BY DEF TypeOK, LocalsOK
    <3>2. ToSet(acc') = ToSet(acc) \cup {o}
      BY <2>4, <3>1, ToSetAppend DEF BatchItem
    <3> QED BY <2>4, <3>2 DEF BatchItem, addReceivedItem
  <2>5. CASE BatchCommit
    BY <2>5, <1>n DEF BatchCommit
  <2> QED BY <1>3, <2>1, <2>2, <2>3, <2>4, <2>5 DEF HandlerStep
<1>4. CASE InboxStep
  BY <1>4, <1>u DEF InboxStep, HandleJoinConfirm, HandleDataReceive,
     HandleDuplicate, HandleDatasReceive, HandleDataSendConfirm, HandleChatter
<1>5. CASE ServerStep
  BY <1>5, <1>u DEF ServerStep, SrvJoin, SrvTakeItem, SrvIgnoreItem, SrvFind,
     SrvDeliver, SrvDeliverBatch, SrvTakeConfirm, SrvAbsorb, SrvChat, isthmus
<1>6. CASE UNCHANGED vars BY <1>6, <1>u
<1> QED BY <1>1, <1>2, <1>3, <1>4, <1>5, <1>6 DEF Next

(* One step of any actor keeps what the exchange rests on. *)
LEMMA ExchangeInvStep == TypeOK /\ SendInv /\ ExchangeInv /\ [Next]_vars => ExchangeInv'
<1> SUFFICES ASSUME TypeOK, SendInv, ExchangeInv, [Next]_vars PROVE ExchangeInv'
  OBVIOUS
<1>b. ToSet(acc') \subseteq received' BY BatchMarked DEF ExchangeInv
<1>g. Logged \subseteq Logged' BY LoggedStays
<1> DEFINE Promised == unconfirmed \cup delivered
           ClearsOne == pc = "clear" =>
               \E l \in ForeignLoc \cup ((OwnLoc \cup BareLoc) \cap Logged) : cur = {l}
           InCharge == \A l \in ForeignLoc : Msg("DataSend", {l}) \in mwOut => l \in Promised
<1>i. ClearsOne /\ InCharge BY DEF ExchangeInv
<1> SUFFICES ClearsOne' /\ InCharge' BY <1>b DEF ExchangeInv
<1>c. ASSUME UNCHANGED <<pc, cur>> PROVE ClearsOne' BY <1>c, <1>g, <1>i
<1>p. ASSUME pc' # "clear" PROVE ClearsOne' BY <1>p
<1>m. ASSUME mwOut' \subseteq mwOut, Promised \subseteq Promised' PROVE InCharge'
  BY <1>m, <1>i
<1>s. ASSUME NEW M, Send(M), \A l \in ForeignLoc : Msg("DataSend", {l}) \notin M,
             Promised \subseteq Promised'
      PROVE  InCharge'
  BY <1>s, <1>i DEF Send
<1> HIDE DEF ClearsOne, InCharge
<1> USE DEF vars, tables, local, link, server, history, Promised
<1>1. CASE SessionStep
  BY <1>1, <1>c, <1>p, <1>m DEF SessionStep, Accept, DialFails, ConnectionLost, Crash,
     Restart, Die, SessionGone
<1>2. CASE ClientStep
  <2>1. ASSUME NEW f \in Modes, Connect(f) PROVE ClearsOne' /\ InCharge'
    <3>1. \A l \in ForeignLoc : Msg("DataSend", {l}) \notin {Msg("Join", {})}
      BY MsgDistinct
    <3> QED BY <2>1, <3>1, <1>c, <1>s DEF Connect
  <2>2. ASSUME NEW L \in SUBSET Location, LocationChecks(L)
        PROVE  ClearsOne' /\ InCharge'
    BY <2>2, <1>p, <1>m DEF LocationChecks
  <2>3. CASE ConnectNil \/ ReleaseFails
    BY <2>3, <1>p, <1>m DEF ConnectNil, ReleaseFails, Fail, Die, SessionGone
  <2>4. CASE Release
    BY <2>4, <1>p, <1>m DEF Release, addUnconfirmedItems
  <2>5. ASSUME NEW items \in SetToSeqs(getCollectablePlacements), Collect(items)
        PROVE  ClearsOne' /\ InCharge'
    BY <2>5, <1>c, <1>m DEF Collect
  <2>6. CASE Sync
    BY <2>6, <1>c, <1>m DEF Sync
  <2> QED BY <1>2, <2>1, <2>2, <2>3, <2>4, <2>5, <2>6 DEF ClientStep
<1>3. CASE HandlerStep
  <2>1. ASSUME NEW l \in Location, CheckSkip(l) PROVE ClearsOne' /\ InCharge'
    BY <2>1, <1>p, <1>m DEF CheckSkip, NextRound
  <2>2. ASSUME NEW l \in Location, CheckOwn(l) PROVE ClearsOne' /\ InCharge'
    <3>1. l \in OwnItem /\ l \in OwnLoc \cup BareLoc /\ addSentItems(<<l>>)
      BY <2>2 DEF CheckOwn, OwnItem
    <3>2. l \in Logged' BY <3>1, OneItem, LoggedAdded
    <3>3. ClearsOne' BY <2>2, <3>1, <3>2 DEF CheckOwn, ClearsOne
    <3> QED BY <2>2, <3>3, <1>m DEF CheckOwn
  <2>3. ASSUME NEW l \in Location, CheckForeign(l) PROVE ClearsOne' /\ InCharge'
    <3>1. l \in ForeignLoc /\ cur' = {l} /\ l \in unconfirmed'
      BY <2>3 DEF CheckForeign, addUnconfirmedItems
    <3>2. ClearsOne' BY <3>1 DEF ClearsOne
    <3>3. \A k \in ForeignLoc : Msg("DataSend", {k}) \in mwOut' =>
                                  Msg("DataSend", {k}) \in mwOut \/ {k} = {l}
      BY <2>3, MsgDistinct DEF CheckForeign, Send
    <3>4. InCharge' BY <2>3, <3>1, <3>3, <1>i DEF CheckForeign, addUnconfirmedItems, InCharge
    <3> QED BY <3>2, <3>4
  <2>4. ASSUME NEW l \in Location, CheckForeignFails(l) PROVE ClearsOne' /\ InCharge'
    BY <2>4, <1>p, <1>m DEF CheckForeignFails, Fail, Die, SessionGone
  <2>5. CASE ClearChecked
    BY <2>5, <1>p, <1>m DEF ClearChecked, NextRound
  <2>6. CASE ReleaseClear
    <3>1. cur \subseteq ForeignLoc /\ cur \subseteq Promised
      BY <2>6 DEF ReleaseClear, TypeOK, ControlOK, SendInv
    <3>2. \A k \in ForeignLoc : Msg("DataSend", {k}) \in mwOut' =>
                                  Msg("DataSend", {k}) \in mwOut \/ k \in cur
      BY <2>6, DataSendOf DEF ReleaseClear, Send
    <3>3. InCharge' BY <2>6, <3>1, <3>2, <1>i DEF ReleaseClear, InCharge
    <3> QED BY <2>6, <3>3, <1>p DEF ReleaseClear
  <2>7. CASE MarkReceived
    <3>1. \A l \in ForeignLoc : Msg("DataSend", {l}) \notin {Msg("Save", {})}
      BY MsgDistinct
    <3> QED BY <2>7, <3>1, <1>p, <1>s DEF MarkReceived
  <2>8. ASSUME NEW o \in Abroad, BatchSkip(o) \/ BatchItem(o)
        PROVE  ClearsOne' /\ InCharge'
    BY <2>8, <1>c, <1>m DEF BatchSkip, BatchItem
  <2>9. CASE BatchCommit
    <3>1. \A l \in ForeignLoc : Msg("DataSend", {l}) \notin
            {Msg("DatasReceiveConfirm", cur), Msg("Save", {})}
      BY MsgDistinct
    <3> QED BY <2>9, <3>1, <1>p, <1>s DEF BatchCommit
  <2> QED BY <1>3, <2>1, <2>2, <2>3, <2>4, <2>5, <2>6, <2>7, <2>8, <2>9 DEF HandlerStep
<1>4. CASE InboxStep
  <2>1. CASE HandleJoinConfirm
    <3>1. \A k \in ForeignLoc : Msg("DataSend", {k}) \in mwOut' =>
            Msg("DataSend", {k}) \in mwOut \/ k \in unconfirmed
      BY <2>1, DataSendOf DEF HandleJoinConfirm, Send, Resend
    <3>2. InCharge' BY <2>1, <3>1, <1>i DEF HandleJoinConfirm, InCharge
    <3> QED BY <2>1, <3>2, <1>c DEF HandleJoinConfirm
  <2>2. ASSUME NEW o \in Abroad, HandleDataReceive(o) PROVE ClearsOne' /\ InCharge'
    <3>1. \A l \in ForeignLoc : Msg("DataSend", {l}) \notin {Msg("DataReceiveConfirm", {o})}
      BY MsgDistinct
    <3> QED BY <2>2, <3>1, <1>p, <1>s DEF HandleDataReceive
  <2>3. ASSUME NEW o \in Abroad, HandleDuplicate(o) PROVE ClearsOne' /\ InCharge'
    BY <2>3, <1>c, <1>m DEF HandleDuplicate
  <2>4. ASSUME NEW S \in SUBSET Abroad, HandleDatasReceive(S)
        PROVE  ClearsOne' /\ InCharge'
    BY <2>4, <1>p, <1>m DEF HandleDatasReceive
  <2>5. ASSUME NEW l \in ForeignLoc, HandleDataSendConfirm(l)
        PROVE  ClearsOne' /\ InCharge'
    <3>1. l \in delivered BY <2>5 DEF HandleDataSendConfirm, Receive, SendInv
    <3>2. Promised \subseteq Promised'
      BY <2>5, <3>1 DEF HandleDataSendConfirm, confirmItem
    <3> QED BY <2>5, <3>2, <1>c, <1>m DEF HandleDataSendConfirm
  <2>6. ASSUME NEW type \in Talk, HandleChatter(type) PROVE ClearsOne' /\ InCharge'
    <3>1. \A l \in ForeignLoc : Msg("DataSend", {l}) \notin Reply(type)
      BY MsgDistinct DEF Reply
    <3> QED BY <2>6, <3>1, <1>c, <1>s DEF HandleChatter
  <2> QED BY <1>4, <2>1, <2>2, <2>3, <2>4, <2>5, <2>6 DEF InboxStep
<1>5. CASE ServerStep
  BY <1>5, <1>c, <1>m DEF ServerStep, SrvJoin, SrvTakeItem, SrvIgnoreItem, SrvFind,
     SrvDeliver, SrvDeliverBatch, SrvTakeConfirm, SrvAbsorb, SrvChat, Arrive, isthmus
<1>6. CASE UNCHANGED vars BY <1>6, <1>c, <1>m
<1> QED BY <1>1, <1>2, <1>3, <1>4, <1>5, <1>6 DEF Next

-----------------------------------------------------------------------------
(* The refinement. *)

(* All that the mapping of a step needs to know about the state before it. *)
RefineInv == TypeOK /\ SendInv /\ ReceiveInv /\ ExchangeInv

(* Every execution is in such a state all the time. *)
LEMMA RefineInvHolds == Spec => []RefineInv
<1>1. Init => SendInv /\ ReceiveInv /\ ExchangeInv
  BY SendInvInit, ReceiveInvInit, ExchangeInvInit
<1>2. TypeOK /\ SendInv /\ ReceiveInv /\ ExchangeInv /\ [Next]_vars =>
        (SendInv /\ ReceiveInv /\ ExchangeInv)'
  BY SendInvStep, ReceiveInvStep, ExchangeInvStep
<1> QED BY <1>1, <1>2, TypeCorrect, PTL DEF Spec, RefineInv

(* A new savefile is an exchange in which nothing has happened. *)
LEMMA RefineInit == Init => Exchange!Init
  BY DEF Init, TablesInit, Exchange!Init, ToSet

(* What addSentItems does to the log is what the exchange calls growing. *)
LEMMA LogMapped ==
    ASSUME TypeOK, NEW items \in Seq(OwnItem), addSentItems(items)
    PROVE  Exchange!LogGrows /\ Exchange!Fresh = ToSet(items)
<1>1. sent \in Seq(OwnItem) BY DEF TypeOK, TablesOK
<1>2. /\ DOMAIN sent = 1 .. Len(sent) /\ Len(sent) \in Nat
      /\ DOMAIN items = 1 .. Len(items) /\ Len(items) \in Nat
      /\ DOMAIN sent' = 1 .. Len(sent) + Len(items)
      /\ Len(sent') = Len(sent) + Len(items)
      /\ \A i \in 1 .. Len(sent) + Len(items) :
           sent'[i] = IF i <= Len(sent) THEN sent[i] ELSE items[i - Len(sent)]
  BY <1>1, ConcatProperties DEF addSentItems
<1>3. Exchange!LogGrows BY <1>2 DEF Exchange!LogGrows
<1>4. ASSUME NEW i \in (DOMAIN sent') \ (DOMAIN sent) PROVE sent'[i] \in ToSet(items)
  <2>1. i - Len(sent) \in DOMAIN items /\ sent'[i] = items[i - Len(sent)] BY <1>2
  <2> QED BY <2>1 DEF ToSet
<1>5. ASSUME NEW i \in DOMAIN items PROVE items[i] \in Exchange!Fresh
  <2>1. /\ i + Len(sent) \in (DOMAIN sent') \ (DOMAIN sent)
        /\ sent'[i + Len(sent)] = items[i]
    BY <1>2
  <2> QED BY <2>1 DEF Exchange!Fresh
<1> QED BY <1>3, <1>4, <1>5 DEF Exchange!Fresh, ToSet

(* Every step of any actor is a step of the exchange or leaves it alone. *)
LEMMA RefineStep == RefineInv /\ [Next]_vars => [Exchange!Next]_(Exchange!exchange)
<1> SUFFICES ASSUME RefineInv, [Next]_vars
             PROVE  Exchange!Next \/ UNCHANGED Exchange!exchange
  OBVIOUS
<1> DEFINE Goal == Exchange!Next \/ UNCHANGED Exchange!exchange
           Done == (received \ ToSet(acc)) \cup (cleared \ ForeignLoc)
           Promised == unconfirmed \cup delivered
           Settled == cleared \cap ForeignLoc
           Mine == OwnLoc \cup BareLoc \cup Abroad
<1>i. TypeOK /\ SendInv /\ ReceiveInv /\ ExchangeInv BY DEF RefineInv
<1>t. /\ cleared \subseteq Location /\ unconfirmed \subseteq ForeignLoc
      /\ received \subseteq Abroad /\ acc \in Seq(Abroad) /\ acc \in Seq(OwnItem)
      /\ ToSet(acc) \subseteq received
      /\ pc # "batch" => acc = <<>>
  BY <1>i DEF TypeOK, TablesOK, LocalsOK, ControlOK, OwnItem, ExchangeInv
<1>d. /\ Location \cap Abroad = {} /\ ForeignLoc \subseteq Location
      /\ (OwnLoc \cup BareLoc) \cap ForeignLoc = {}
  BY PlacesAssumption DEF Location
<1>e. ToSet(<<>>) = {} BY DEF ToSet
<1>g. Exchange!Given = Logged BY DEF Exchange!Given, Logged, ToSet
<1> SUFFICES Goal OBVIOUS
<1> HIDE DEF Goal
<1>u. ASSUME Promised' = Promised, UNCHANGED <<delivered, sent, torn, acked, crashes>>,
             Settled' = Settled, Done' = Done
      PROVE  Goal
  BY <1>u DEF Goal, Exchange!exchange, Exchange!outgoing, Exchange!incoming
<1>v. ASSUME UNCHANGED <<tables, acc, delivered, torn, acked, crashes>> PROVE Goal
  BY <1>v, <1>u DEF tables
<1>w. ASSUME SessionGone, acc = <<>>, torn' = torn \/ torn' = torn \cup ToSet(acc),
             crashes' = crashes
      PROVE  Goal
  BY <1>w, <1>e, <1>v DEF SessionGone, tables
<1> USE DEF vars, tables, local, link, server, history
<1>1. CASE SessionStep
  <2>1. CASE Accept \/ Restart BY <2>1, <1>v DEF Accept, Restart
  <2>2. CASE DialFails BY <2>2, <1>t, <1>w DEF DialFails, Die
  <2>3. CASE ConnectionLost BY <2>3, <1>t, <1>w DEF ConnectionLost
  <2>4. CASE Crash
    <3>1. Exchange!Kill(ToSet(acc))
      BY <2>4, <1>t, <1>d, <1>e DEF Crash, Die, SessionGone, Exchange!Kill,
         Exchange!outgoing
    <3>2. ToSet(acc) \in SUBSET Mine BY <1>t
    <3> QED BY <3>1, <3>2 DEF Goal, Exchange!Next
  <2> QED BY <1>1, <2>1, <2>2, <2>3, <2>4 DEF SessionStep
<1>2. CASE ClientStep
  <2>1. ASSUME NEW f \in Modes, Connect(f) PROVE Goal BY <2>1, <1>v DEF Connect
  <2>2. ASSUME NEW L \in SUBSET Location, LocationChecks(L) PROVE Goal
    BY <2>2, <1>v DEF LocationChecks
  <2>3. CASE ConnectNil \/ ReleaseFails
    BY <2>3, <1>t, <1>w DEF ConnectNil, ReleaseFails, Fail, Die
  <2>4. CASE Release
    <3>1. Exchange!Promise(Releasable)
      BY <2>4 DEF Release, addUnconfirmedItems, Releasable, isLocationCleared,
         Exchange!Promise, Exchange!incoming
    <3>2. Releasable \in SUBSET ForeignLoc BY DEF Releasable
    <3> QED BY <3>1, <3>2 DEF Goal, Exchange!Next
  <2>5. ASSUME NEW items \in SetToSeqs(getCollectablePlacements), Collect(items)
        PROVE  Goal
    <3>1. items \in Seq(OwnItem) /\ addSentItems(items)
      BY <2>5, CollectItems DEF Collect
    <3>2. ToSet(items) \subseteq Abroad \ received BY CollectItems
    <3>3. Exchange!LogGrows /\ Exchange!Fresh = ToSet(items) BY <3>1, <1>i, LogMapped
    <3>4. Exchange!Fresh \subseteq Mine \ Done BY <3>2, <3>3, <1>t, <1>d
    <3>5. Exchange!Give
      BY <2>5, <3>3, <3>4 DEF Collect, Exchange!Give, Exchange!outgoing
    <3> QED BY <3>5 DEF Goal, Exchange!Next
  <2>6. CASE Sync BY <2>6, <1>v DEF Sync
  <2> QED BY <1>2, <2>1, <2>2, <2>3, <2>4, <2>5, <2>6 DEF ClientStep
<1>3. CASE HandlerStep
  <2>1. ASSUME NEW l \in Location, CheckSkip(l) PROVE Goal BY <2>1, <1>v DEF CheckSkip
  <2>2. ASSUME NEW l \in Location, CheckOwn(l) PROVE Goal
    <3>1. /\ l \in OwnItem /\ l \in OwnLoc \cup BareLoc /\ addSentItems(<<l>>)
          /\ l \notin cleared
      BY <2>2 DEF CheckOwn, OwnItem, Skipped, isLocationCleared
    <3>2. Exchange!LogGrows /\ Exchange!Fresh = {l} BY <3>1, <1>i, OneItem, LogMapped
    <3>3. Exchange!Fresh \subseteq Mine \ Done BY <3>1, <3>2, <1>t, <1>d
    <3>4. Exchange!Give
      BY <2>2, <3>2, <3>3 DEF CheckOwn, Exchange!Give, Exchange!outgoing
    <3> QED BY <3>4 DEF Goal, Exchange!Next
  <2>3. ASSUME NEW l \in Location, CheckForeign(l) PROVE Goal
    <3>1. l \in ForeignLoc /\ Exchange!Promise({l})
      BY <2>3 DEF CheckForeign, addUnconfirmedItems, Skipped, isLocationCleared,
         Exchange!Promise, Exchange!incoming
    <3> QED BY <3>1 DEF Goal, Exchange!Next
  <2>4. ASSUME NEW l \in Location, CheckForeignFails(l) PROVE Goal
    BY <2>4, <1>t, <1>w DEF CheckForeignFails, Fail, Die
  <2>5. CASE ClearChecked
    <3>1. PICK l \in ForeignLoc \cup ((OwnLoc \cup BareLoc) \cap Logged) : cur = {l}
      BY <2>5, <1>i DEF ClearChecked, ExchangeInv
    <3>2. CASE l \in ForeignLoc
      <4>1. cur \subseteq Promised BY <2>5, <3>1, <3>2, <1>i DEF ClearChecked, SendInv
      <4>2. Exchange!Settle(cur)
        BY <2>5, <3>1, <3>2, <4>1 DEF ClearChecked, clearLocations, Exchange!Settle,
           Exchange!incoming
      <4> QED BY <3>1, <3>2, <4>2 DEF Goal, Exchange!Next
    <3>3. CASE l \in (OwnLoc \cup BareLoc) \cap Logged
      <4>1. Exchange!Finish(cur)
        BY <2>5, <3>1, <3>3, <1>g, <1>d DEF ClearChecked, clearLocations,
           Exchange!Finish, Exchange!outgoing
      <4>2. cur \in SUBSET Mine BY <3>1, <3>3
      <4> QED BY <4>1, <4>2 DEF Goal, Exchange!Next
    <3> QED BY <3>2, <3>3
  <2>6. CASE ReleaseClear
    <3>1. cur \subseteq ForeignLoc /\ cur \subseteq Promised
      BY <2>6, <1>i DEF ReleaseClear, TypeOK, ControlOK, SendInv
    <3>2. Exchange!Settle(cur)
      BY <2>6, <3>1 DEF ReleaseClear, clearLocations, Exchange!Settle, Exchange!incoming
    <3> QED BY <3>1, <3>2 DEF Goal, Exchange!Next
  <2>7. CASE MarkReceived
    <3>1. PICK o \in cur : addReceivedItem(o) BY <2>7 DEF MarkReceived
    <3>2. o \in Abroad /\ o \in Logged /\ acc = <<>>
      BY <2>7, <3>1, <1>i, <1>t DEF MarkReceived, TypeOK, ControlOK, ReceiveInv
    <3>3. Exchange!Finish({o})
      BY <2>7, <3>1, <3>2, <1>g, <1>e DEF MarkReceived, addReceivedItem,
         Exchange!Finish, Exchange!outgoing
    <3> QED BY <3>2, <3>3 DEF Goal, Exchange!Next
  <2>8. ASSUME NEW o \in Abroad, BatchSkip(o) PROVE Goal BY <2>8, <1>v DEF BatchSkip
  <2>9. ASSUME NEW o \in Abroad, BatchItem(o) PROVE Goal
    <3>1. ToSet(acc') = ToSet(acc) \cup {o}
      BY <2>9, <1>t, ToSetAppend DEF BatchItem
    <3>2. Done' = Done BY <2>9, <3>1, <1>t DEF BatchItem, addReceivedItem
    <3> QED BY <2>9, <3>2, <1>u DEF BatchItem
  <2>10. CASE BatchCommit
    <3>1. Exchange!LogGrows /\ Exchange!Fresh = ToSet(acc)
      BY <2>10, <1>i, <1>t, LogMapped DEF BatchCommit
    <3>2. Exchange!Fresh \subseteq Mine \ Done BY <3>1, <1>t, <1>d
    <3>3. ToSet(acc') = {} BY <2>10, <1>e DEF BatchCommit
    <3>4. Done' = Done \cup Exchange!Fresh BY <2>10, <3>1, <3>3, <1>t DEF BatchCommit
    <3>5. Exchange!GiveForGood
      BY <2>10, <3>1, <3>2, <3>4 DEF BatchCommit, Exchange!GiveForGood,
         Exchange!outgoing
    <3> QED BY <3>5 DEF Goal, Exchange!Next
  <2> QED BY <1>3, <2>1, <2>2, <2>3, <2>4, <2>5, <2>6, <2>7, <2>8, <2>9,
       <2>10 DEF HandlerStep
<1>4. CASE InboxStep
  <2>1. CASE HandleJoinConfirm BY <2>1, <1>v DEF HandleJoinConfirm
  <2>2. ASSUME NEW o \in Abroad, HandleDataReceive(o) PROVE Goal
    <3>1. o \in OwnItem /\ addSentItems(<<o>>) /\ o \notin received
      BY <2>2 DEF HandleDataReceive, OwnItem, hasReceivedItem
    <3>2. Exchange!LogGrows /\ Exchange!Fresh = {o} BY <3>1, <1>i, OneItem, LogMapped
    <3>3. Exchange!Fresh \subseteq Mine \ Done BY <3>1, <3>2, <1>t, <1>d
    <3>4. Exchange!Give
      BY <2>2, <3>2, <3>3 DEF HandleDataReceive, Exchange!Give, Exchange!outgoing
    <3> QED BY <3>4 DEF Goal, Exchange!Next
  <2>3. ASSUME NEW o \in Abroad, HandleDuplicate(o) PROVE Goal
    BY <2>3, <1>v DEF HandleDuplicate
  <2>4. ASSUME NEW S \in SUBSET Abroad, HandleDatasReceive(S) PROVE Goal
    BY <2>4, <1>v DEF HandleDatasReceive
  <2>5. ASSUME NEW l \in ForeignLoc, HandleDataSendConfirm(l) PROVE Goal
    <3>1. l \in delivered BY <2>5, <1>i DEF HandleDataSendConfirm, Receive, SendInv
    <3>2. Promised' = Promised BY <2>5, <3>1 DEF HandleDataSendConfirm, confirmItem
    <3> QED BY <2>5, <3>2, <1>u DEF HandleDataSendConfirm
  <2>6. ASSUME NEW type \in Talk, HandleChatter(type) PROVE Goal
    BY <2>6, <1>v DEF HandleChatter
  <2> QED BY <1>4, <2>1, <2>2, <2>3, <2>4, <2>5, <2>6 DEF InboxStep
<1>5. CASE ServerStep
  <2>1. CASE SrvJoin BY <2>1, <1>v DEF SrvJoin, isthmus
  <2>2. ASSUME NEW l \in ForeignLoc, SrvTakeItem(l) PROVE Goal
    <3>1. l \in Promised BY <2>2, <1>i DEF SrvTakeItem, Arrive, ExchangeInv
    <3>2. Exchange!Take(l)
      BY <2>2, <3>1 DEF SrvTakeItem, isthmus, Exchange!Take, Exchange!incoming
    <3> QED BY <3>2 DEF Goal, Exchange!Next
  <2>3. ASSUME NEW l \in ForeignLoc, SrvIgnoreItem(l) PROVE Goal
    BY <2>3, <1>v DEF SrvIgnoreItem, isthmus
  <2>4. ASSUME NEW o \in Abroad, SrvFind(o) \/ SrvDeliver(o) PROVE Goal
    BY <2>4, <1>v DEF SrvFind, SrvDeliver, isthmus
  <2>5. ASSUME NEW S \in SUBSET Abroad, SrvDeliverBatch(S) PROVE Goal
    BY <2>5, <1>v DEF SrvDeliverBatch, isthmus
  <2>6. ASSUME NEW type \in {"DataReceiveConfirm", "DatasReceiveConfirm"},
               NEW S \in SUBSET Abroad, SrvTakeConfirm(type, S)
        PROVE  Goal
    <3>1. S \subseteq Logged \cup torn
      BY <2>6, <1>i DEF SrvTakeConfirm, Arrive, ReceiveInv
    <3>2. Exchange!Forget(S)
      BY <2>6, <3>1, <1>g DEF SrvTakeConfirm, isthmus, Exchange!Forget,
         Exchange!outgoing
    <3>3. S \in SUBSET Mine OBVIOUS
    <3> QED BY <3>2, <3>3 DEF Goal, Exchange!Next
  <2>7. ASSUME NEW type \in Silent, SrvAbsorb(type) PROVE Goal
    BY <2>7, <1>v DEF SrvAbsorb, isthmus
  <2>8. ASSUME NEW type \in Talk, SrvChat(type) PROVE Goal
    BY <2>8, <1>v DEF SrvChat, isthmus
  <2> QED BY <1>5, <2>1, <2>2, <2>3, <2>4, <2>5, <2>6, <2>7, <2>8 DEF ServerStep
<1>6. CASE UNCHANGED vars BY <1>6, <1>v
<1> QED BY <1>1, <1>2, <1>3, <1>4, <1>5, <1>6 DEF Next

(* The playing phase implements the exchange of items: through every kill, lost
   connection and repeated message it withdraws a foreign location only when
   its item is promised, never takes a promise back, never gives again what is
   done, and lets the server forget only what was given or what a kill of a
   batch cost. *)
THEOREM PlayImplementsExchange == Spec => ImplementsItemExchange
<1>1. Init => Exchange!Init BY RefineInit
<1>2. RefineInv /\ [Next]_vars => [Exchange!Next]_(Exchange!exchange) BY RefineStep
<1> QED BY <1>1, <1>2, RefineInvHolds, PTL DEF Spec, ImplementsItemExchange, Exchange!Spec

-----------------------------------------------------------------------------
(* Surplus copies in the log. *)

(* The number of copies is a number. *)
LEMMA CopiesType ==
    ASSUME TypeOK, NEW x
    PROVE  Copies(x) \in Nat /\ IsFiniteSet({i \in DOMAIN sent : sent[i] = x})
<1>1. DOMAIN sent = 1 .. Len(sent) /\ Len(sent) \in Nat BY DEF TypeOK, TablesOK
<1>2. IsFiniteSet(1 .. Len(sent)) BY <1>1, FS_Interval
<1>3. IsFiniteSet({i \in DOMAIN sent : sent[i] = x}) BY <1>1, <1>2, FS_Subset
<1> QED BY <1>3, FS_CardinalityType DEF Copies

(* addSentItems of items that are all different adds at most one copy of each. *)
LEMMA CopiesOneMore ==
    ASSUME TypeOK, NEW items \in Seq(OwnItem), addSentItems(items), IsInjective(items),
           NEW x \in ToSet(items)
    PROVE  Copies(x)' = Copies(x) + 1
<1> DEFINE At(s) == {i \in DOMAIN s : s[i] = x}
<1>1. sent \in Seq(OwnItem) BY DEF TypeOK, TablesOK
<1>2. /\ DOMAIN sent = 1 .. Len(sent) /\ Len(sent) \in Nat
      /\ DOMAIN items = 1 .. Len(items) /\ Len(items) \in Nat
      /\ DOMAIN sent' = 1 .. Len(sent) + Len(items)
      /\ \A i \in 1 .. Len(sent) + Len(items) :
           sent'[i] = IF i <= Len(sent) THEN sent[i] ELSE items[i - Len(sent)]
  BY <1>1, ConcatProperties DEF addSentItems
<1>3. PICK j \in DOMAIN items : items[j] = x BY DEF ToSet
<1>4. \A i \in DOMAIN items : items[i] = x => i = j BY <1>3 DEF IsInjective
<1>5. ASSUME NEW i \in At(sent') PROVE i \in At(sent) \cup {Len(sent) + j}
  <2>1. CASE i <= Len(sent) BY <2>1, <1>5, <1>2
  <2>2. CASE i > Len(sent)
    <3>1. i - Len(sent) \in DOMAIN items /\ items[i - Len(sent)] = x
      BY <2>2, <1>5, <1>2
    <3>2. i - Len(sent) = j BY <3>1, <1>4
    <3> QED BY <3>2, <1>5, <1>2
  <2> QED BY <2>1, <2>2, <1>5, <1>2
<1>6. ASSUME NEW i \in At(sent) \cup {Len(sent) + j} PROVE i \in At(sent')
  BY <1>2, <1>3
<1>7. At(sent') = At(sent) \cup {Len(sent) + j} BY <1>5, <1>6
<1>8. Len(sent) + j \notin At(sent) BY <1>2
<1>9. IsFiniteSet(At(sent)) BY CopiesType
<1>10. Cardinality(At(sent')) = Cardinality(At(sent)) + 1
  BY <1>7, <1>8, <1>9, FS_AddElement
<1> QED BY <1>10 DEF Copies

(* A batch changes only by the item that DatasReceive adds, or by its end. *)
LEMMA BatchChanges ==
    ASSUME [Next]_vars
    PROVE  acc' = acc \/ acc' = <<>> \/ \E o \in Abroad : BatchItem(o)
<1> USE DEF vars, local
<1>1. CASE SessionStep
  BY <1>1 DEF SessionStep, Accept, DialFails, ConnectionLost, Crash, Restart, Die,
     SessionGone
<1>2. CASE ClientStep
  BY <1>2 DEF ClientStep, Connect, ConnectNil, LocationChecks, Collect, Release,
     ReleaseFails, Sync, Fail, Die, SessionGone
<1>3. CASE HandlerStep
  BY <1>3 DEF HandlerStep, CheckSkip, CheckOwn, CheckForeign, CheckForeignFails,
     ClearChecked, ReleaseClear, MarkReceived, BatchSkip, BatchCommit, Fail, Die,
     SessionGone
<1>4. CASE InboxStep
  BY <1>4 DEF InboxStep, HandleJoinConfirm, HandleDataReceive, HandleDuplicate,
     HandleDatasReceive, HandleDataSendConfirm, HandleChatter
<1>5. CASE ServerStep
  BY <1>5 DEF ServerStep, SrvJoin, SrvTakeItem, SrvIgnoreItem, SrvFind, SrvDeliver,
     SrvDeliverBatch, SrvTakeConfirm, SrvAbsorb, SrvChat, isthmus
<1>6. CASE UNCHANGED vars BY <1>6
<1> QED BY <1>1, <1>2, <1>3, <1>4, <1>5, <1>6 DEF Next

(* No item is twice in the batch at hand. *)
LEMMA BatchInjective ==
    ASSUME TypeOK, ToSet(acc) \subseteq received, IsInjective(acc), [Next]_vars
    PROVE  IsInjective(acc')
<1>1. CASE acc' = acc BY <1>1
<1>2. CASE acc' = <<>> BY <1>2 DEF IsInjective
<1>3. ASSUME NEW o \in Abroad, BatchItem(o) PROVE IsInjective(acc')
  <2>1. acc \in Seq(Abroad) /\ acc' = Append(acc, o) /\ o \notin ToSet(acc)
    BY <1>3 DEF BatchItem, hasReceivedItem, TypeOK, LocalsOK
  <2>2. \A i \in DOMAIN acc : acc[i] # o BY <2>1 DEF ToSet
  <2>3. /\ DOMAIN acc' = 1 .. Len(acc) + 1 /\ DOMAIN acc = 1 .. Len(acc)
        /\ Len(acc) \in Nat
        /\ acc'[Len(acc) + 1] = o /\ \A i \in 1 .. Len(acc) : acc'[i] = acc[i]
    BY <2>1
  <2> QED BY <2>2, <2>3 DEF IsInjective
<1> QED BY <1>1, <1>2, <1>3, BatchChanges

(* At first only the start inventory is in the log. *)
LEMMA SurplusInvInit == Init => SurplusInv
<1> SUFFICES ASSUME Init PROVE SurplusInv OBVIOUS
<1>1. ToSet(acc) = {} /\ IsInjective(acc) BY DEF Init, ToSet, IsInjective
<1>2. ASSUME NEW x \in OwnLoc \cup BareLoc \cup Abroad PROVE Copies(x) = 0
  <2>1. x \notin Start BY PlacesAssumption DEF Location
  <2>2. {i \in DOMAIN sent : sent[i] = x} = {}
    BY <2>1 DEF Init, TablesInit, Start, ToSet
  <2> QED BY <2>2, FS_EmptySet DEF Copies
<1> QED BY <1>1, <1>2 DEF Init, SurplusInv

(* One step of any actor keeps every unaccounted copy paid for. *)
LEMMA SurplusInvStep == TypeOK /\ SurplusInv /\ [Next]_vars => SurplusInv'
<1> SUFFICES ASSUME TypeOK, SurplusInv, [Next]_vars PROVE SurplusInv' OBVIOUS
<1> DEFINE Mine == OwnLoc \cup BareLoc \cup Abroad
           Batched(x) == IF x \in ToSet(acc) THEN 1 ELSE 0
           Credit(x) == IF x \in AccountedFor THEN 1 ELSE 0
           Paid == \A x \in Mine : Copies(x) + Batched(x) <= crashes + collects + Credit(x)
           OneRow == pc = "receive" => \E o \in Abroad : cur = {o}
<1>i. ToSet(acc) \subseteq received /\ IsInjective(acc) /\ OneRow /\ Paid BY DEF SurplusInv
<1>b. ToSet(acc') \subseteq received' /\ IsInjective(acc')
  BY <1>i, BatchMarked, BatchInjective
<1> SUFFICES OneRow' /\ Paid' BY <1>b DEF SurplusInv
<1>n. /\ \A x : Copies(x) \in Nat
      /\ crashes \in Nat /\ collects \in Nat
  BY CopiesType DEF TypeOK, HistoryOK
<1>e. ToSet(<<>>) = {} BY DEF ToSet
<1>k. ASSUME UNCHANGED <<sent, crashes, collects>>, UNCHANGED acc \/ acc' = <<>>,
             AccountedFor \subseteq AccountedFor'
      PROVE  Paid'
  <2>1. \A x : Copies(x)' = Copies(x) BY <1>k DEF Copies
  <2>2. ASSUME NEW x \in Mine
        PROVE  (Copies(x) + Batched(x) <= crashes + collects + Credit(x))'
    BY <2>1, <1>k, <1>i, <1>n, <1>e
  <2> QED BY <2>2
<1>t. /\ cleared \subseteq Location /\ received \subseteq Abroad
      /\ Location \cap Abroad = {} /\ OwnLoc \cup BareLoc \subseteq Location
  BY PlacesAssumption DEF TypeOK, TablesOK, Location
<1>o. ASSUME NEW y \in OwnItem, addSentItems(<<y>>), y \notin AccountedFor,
             AccountedFor' = AccountedFor \cup {y}, UNCHANGED <<acc, crashes, collects>>
      PROVE  Paid'
  <2>1. <<y>> \in Seq(OwnItem) /\ ToSet(<<y>>) = {y} BY OneItem
  <2>2. IsInjective(<<y>>) BY DEF IsInjective
  <2>3. Copies(y)' = Copies(y) + 1 BY <2>1, <2>2, <1>o, CopiesOneMore
  <2>4. \A x : x # y => Copies(x)' = Copies(x) BY <2>1, <1>o, CopiesAdded
  <2>5. ASSUME NEW x \in Mine
        PROVE  (Copies(x) + Batched(x) <= crashes + collects + Credit(x))'
    BY <2>3, <2>4, <1>o, <1>i, <1>n
  <2> QED BY <2>5
<1> HIDE DEF Paid
<1> USE DEF vars, tables, local, link, server, history
<1>1. CASE SessionStep
  <2>1. CASE Accept \/ Restart
    <3>1. AccountedFor \subseteq AccountedFor'
      BY <2>1 DEF Accept, Restart, AccountedFor
    <3> QED BY <2>1, <3>1, <1>k DEF Accept, Restart
  <2>2. CASE DialFails \/ ConnectionLost
    <3>1. AccountedFor \subseteq AccountedFor'
      BY <2>2 DEF DialFails, ConnectionLost, Die, SessionGone, AccountedFor
    <3> QED BY <2>2, <3>1, <1>k DEF DialFails, ConnectionLost, Die, SessionGone
  <2>3. CASE Crash
    <3>1. /\ UNCHANGED <<sent, collects>> /\ crashes' = crashes + 1 /\ acc' = <<>>
          /\ pc' = "down"
      BY <2>3 DEF Crash, Die, SessionGone
    <3>2. \A x : Copies(x)' = Copies(x) BY <3>1 DEF Copies
    <3>3. ASSUME NEW x \in Mine
          PROVE  (Copies(x) + Batched(x) <= crashes + collects + Credit(x))'
      BY <3>1, <3>2, <1>i, <1>n, <1>e DEF Paid
    <3> QED BY <3>1, <3>3 DEF Paid
  <2> QED BY <1>1, <2>1, <2>2, <2>3 DEF SessionStep
<1>2. CASE ClientStep
  <2>1. ASSUME NEW f \in Modes, Connect(f) PROVE OneRow' /\ Paid'
    <3>1. AccountedFor \subseteq AccountedFor' BY <2>1 DEF Connect, AccountedFor
    <3> QED BY <2>1, <3>1, <1>k DEF Connect
  <2>2. ASSUME NEW L \in SUBSET Location, LocationChecks(L) PROVE OneRow' /\ Paid'
    <3>1. AccountedFor \subseteq AccountedFor' BY <2>2 DEF LocationChecks, AccountedFor
    <3> QED BY <2>2, <3>1, <1>k DEF LocationChecks
  <2>3. CASE ConnectNil \/ ReleaseFails
    <3>1. AccountedFor \subseteq AccountedFor'
      BY <2>3 DEF ConnectNil, ReleaseFails, Fail, Die, SessionGone, AccountedFor
    <3> QED BY <2>3, <3>1, <1>k DEF ConnectNil, ReleaseFails, Fail, Die, SessionGone
  <2>4. CASE Release
    <3>1. AccountedFor \subseteq AccountedFor' BY <2>4 DEF Release, AccountedFor
    <3> QED BY <2>4, <3>1, <1>k DEF Release
  <2>5. ASSUME NEW items \in SetToSeqs(getCollectablePlacements), Collect(items)
        PROVE  OneRow' /\ Paid'
    <3>1. /\ items \in Seq(OwnItem) /\ addSentItems(items)
          /\ UNCHANGED <<acc, crashes, cleared, received, pc, cur>>
          /\ collects' = collects + 1
      BY <2>5, CollectItems DEF Collect
    <3>2. IsInjective(items) BY DEF SetToSeqs, IsInjective
    <3>3. \A x : Copies(x)' <= Copies(x) + 1 /\ Copies(x)' \in Nat
      BY <3>1, <3>2, <1>n, CopiesOneMore, CopiesAdded
    <3>4. AccountedFor' = AccountedFor BY <3>1 DEF AccountedFor
    <3>5. ASSUME NEW x \in Mine
          PROVE  (Copies(x) + Batched(x) <= crashes + collects + Credit(x))'
      BY <3>1, <3>3, <3>4, <1>i, <1>n DEF Paid
    <3> QED BY <3>1, <3>5, <1>i DEF Paid
  <2>6. CASE Sync
    <3>1. AccountedFor \subseteq AccountedFor' BY <2>6 DEF Sync, AccountedFor
    <3> QED BY <2>6, <3>1, <1>k DEF Sync
  <2> QED BY <1>2, <2>1, <2>2, <2>3, <2>4, <2>5, <2>6 DEF ClientStep
<1>3. CASE HandlerStep
  <2>1. ASSUME NEW l \in Location, CheckSkip(l) PROVE OneRow' /\ Paid'
    <3>1. AccountedFor \subseteq AccountedFor' /\ pc' # "receive"
      BY <2>1 DEF CheckSkip, AccountedFor, NextRound
    <3> QED BY <2>1, <3>1, <1>k DEF CheckSkip
  <2>2. ASSUME NEW l \in Location, CheckOwn(l) PROVE OneRow' /\ Paid'
    <3>1. l \in OwnItem /\ l \notin cleared /\ l \notin received
      BY <2>2, <1>t DEF CheckOwn, OwnItem, Skipped, isLocationCleared
    <3>2. l \notin AccountedFor /\ AccountedFor' = AccountedFor \cup {l}
      BY <2>2, <3>1 DEF CheckOwn, AccountedFor
    <3> QED BY <2>2, <3>1, <3>2, <1>o DEF CheckOwn
  <2>3. ASSUME NEW l \in Location, CheckForeign(l) PROVE OneRow' /\ Paid'
    <3>1. AccountedFor \subseteq AccountedFor' BY <2>3 DEF CheckForeign, AccountedFor
    <3> QED BY <2>3, <3>1, <1>k DEF CheckForeign
  <2>4. ASSUME NEW l \in Location, CheckForeignFails(l) PROVE OneRow' /\ Paid'
    <3>1. AccountedFor \subseteq AccountedFor'
      BY <2>4 DEF CheckForeignFails, Fail, Die, SessionGone, AccountedFor
    <3> QED BY <2>4, <3>1, <1>k DEF CheckForeignFails, Fail, Die, SessionGone
  <2>5. CASE ClearChecked
    <3>1. AccountedFor \subseteq AccountedFor' /\ pc' # "receive"
      BY <2>5 DEF ClearChecked, clearLocations, AccountedFor, NextRound
    <3> QED BY <2>5, <3>1, <1>k DEF ClearChecked
  <2>6. CASE ReleaseClear
    <3>1. AccountedFor \subseteq AccountedFor'
      BY <2>6 DEF ReleaseClear, clearLocations, AccountedFor
    <3> QED BY <2>6, <3>1, <1>k DEF ReleaseClear
  <2>7. CASE MarkReceived
    <3>1. PICK o \in Abroad : cur = {o} BY <2>7, <1>i DEF MarkReceived
    <3>2. AccountedFor \subseteq AccountedFor'
      BY <2>7, <3>1 DEF MarkReceived, addReceivedItem, AccountedFor
    <3> QED BY <2>7, <3>2, <1>k DEF MarkReceived
  <2>8. ASSUME NEW o \in Abroad, BatchSkip(o) PROVE OneRow' /\ Paid'
    <3>1. AccountedFor \subseteq AccountedFor' BY <2>8 DEF BatchSkip, AccountedFor
    <3> QED BY <2>8, <3>1, <1>k DEF BatchSkip
  <2>9. ASSUME NEW o \in Abroad, BatchItem(o) PROVE OneRow' /\ Paid'
    <3>1. /\ UNCHANGED <<sent, crashes, collects>> /\ pc = "batch" /\ pc' = "batch"
          /\ acc' = Append(acc, o) /\ acc \in Seq(Abroad)
          /\ o \notin received /\ received' = received \cup {o} /\ cleared' = cleared
      BY <2>9 DEF BatchItem, hasReceivedItem, addReceivedItem, TypeOK, LocalsOK
    <3>2. ToSet(acc') = ToSet(acc) \cup {o} BY <3>1, ToSetAppend
    <3>3. AccountedFor' = AccountedFor \cup {o} /\ o \notin AccountedFor
      BY <3>1, <1>t DEF AccountedFor
    <3>4. \A x : Copies(x)' = Copies(x) BY <3>1 DEF Copies
    <3>5. ASSUME NEW x \in Mine
          PROVE  (Copies(x) + Batched(x) <= crashes + collects + Credit(x))'
      <4>1. Batched(x) + Credit(x)' = Batched(x)' + Credit(x) BY <3>2, <3>3, <1>i DEF AccountedFor
      <4>2. Copies(x) + Batched(x) <= crashes + collects + Credit(x) BY <1>i DEF Paid
      <4> QED BY <3>1, <3>4, <4>1, <4>2, <1>n
    <3> QED BY <3>1, <3>5 DEF Paid
  <2>10. CASE BatchCommit
    <3>1. /\ acc \in Seq(OwnItem) /\ addSentItems(acc) /\ acc' = <<>>
          /\ UNCHANGED <<crashes, collects, cleared, received>>
          /\ pc = "batch" /\ pc' = "loop"
      BY <2>10 DEF BatchCommit, TypeOK, LocalsOK, OwnItem
    <3>2. \A x : Copies(x)' = Copies(x) + Batched(x)
      BY <3>1, <1>i, <1>n, CopiesOneMore, CopiesAdded
    <3>3. AccountedFor' = AccountedFor BY <3>1 DEF AccountedFor
    <3>4. ASSUME NEW x \in Mine
          PROVE  (Copies(x) + Batched(x) <= crashes + collects + Credit(x))'
      BY <3>1, <3>2, <3>3, <1>i, <1>n, <1>e DEF Paid
    <3> QED BY <3>1, <3>4 DEF Paid
  <2> QED BY <1>3, <2>1, <2>2, <2>3, <2>4, <2>5, <2>6, <2>7, <2>8, <2>9,
       <2>10 DEF HandlerStep
<1>4. CASE InboxStep
  <2>1. CASE HandleJoinConfirm
    <3>1. AccountedFor \subseteq AccountedFor'
      BY <2>1 DEF HandleJoinConfirm, AccountedFor
    <3> QED BY <2>1, <3>1, <1>i, <1>k DEF HandleJoinConfirm
  <2>2. ASSUME NEW o \in Abroad, HandleDataReceive(o) PROVE OneRow' /\ Paid'
    <3>1. o \in OwnItem /\ o \notin received /\ o \notin cleared
      BY <2>2, <1>t DEF HandleDataReceive, OwnItem, hasReceivedItem
    <3>2. o \notin AccountedFor /\ AccountedFor' = AccountedFor \cup {o}
      BY <2>2, <3>1 DEF HandleDataReceive, Receive, AccountedFor
    <3> QED BY <2>2, <3>1, <3>2, <1>o DEF HandleDataReceive
  <2>3. ASSUME NEW o \in Abroad, HandleDuplicate(o) PROVE OneRow' /\ Paid'
    <3>1. AccountedFor \subseteq AccountedFor' BY <2>3 DEF HandleDuplicate, AccountedFor
    <3> QED BY <2>3, <3>1, <1>i, <1>k DEF HandleDuplicate
  <2>4. ASSUME NEW S \in SUBSET Abroad, HandleDatasReceive(S) PROVE OneRow' /\ Paid'
    <3>1. AccountedFor \subseteq AccountedFor'
      BY <2>4 DEF HandleDatasReceive, Receive, AccountedFor
    <3> QED BY <2>4, <3>1, <1>k DEF HandleDatasReceive
  <2>5. ASSUME NEW l \in ForeignLoc, HandleDataSendConfirm(l) PROVE OneRow' /\ Paid'
    <3>1. AccountedFor \subseteq AccountedFor'
      BY <2>5 DEF HandleDataSendConfirm, AccountedFor
    <3> QED BY <2>5, <3>1, <1>i, <1>k DEF HandleDataSendConfirm
  <2>6. ASSUME NEW type \in Talk, HandleChatter(type) PROVE OneRow' /\ Paid'
    <3>1. AccountedFor \subseteq AccountedFor' BY <2>6 DEF HandleChatter, AccountedFor
    <3> QED BY <2>6, <3>1, <1>i, <1>k DEF HandleChatter
  <2> QED BY <1>4, <2>1, <2>2, <2>3, <2>4, <2>5, <2>6 DEF InboxStep
<1>5. CASE ServerStep
  <2>1. UNCHANGED <<tables, pc, cur, acc, crashes, collects>>
    BY <1>5 DEF ServerStep, SrvJoin, SrvTakeItem, SrvIgnoreItem, SrvFind, SrvDeliver,
       SrvDeliverBatch, SrvTakeConfirm, SrvAbsorb, SrvChat, isthmus
  <2>2. AccountedFor \subseteq AccountedFor' BY <2>1 DEF AccountedFor
  <2> QED BY <2>1, <2>2, <1>i, <1>k
<1>6. CASE UNCHANGED vars
  <2>1. AccountedFor \subseteq AccountedFor' BY <1>6 DEF AccountedFor
  <2> QED BY <1>6, <2>1, <1>i, <1>k
<1> QED BY <1>1, <1>2, <1>3, <1>4, <1>5, <1>6 DEF Next

(* However often the process is killed and the player says !collect, the client
   gets at most one copy of an item more than there were kills and collects:
   the two tables keep everything else (repeated deliveries, batches, second
   checks) from logging an item again. *)
THEOREM SurplusPaidFor == Spec => []SurplusBounded
<1>1. Init => SurplusInv BY SurplusInvInit
<1>2. TypeOK /\ SurplusInv /\ [Next]_vars => SurplusInv' BY SurplusInvStep
<1>3. TypeOK /\ SurplusInv => SurplusBounded
  <2> SUFFICES ASSUME TypeOK, SurplusInv, NEW x \in OwnLoc \cup BareLoc \cup Abroad
               PROVE  Copies(x) <= 1 + crashes + collects
    BY DEF SurplusBounded
  <2>1. Copies(x) \in Nat /\ crashes \in Nat /\ collects \in Nat
    BY CopiesType DEF TypeOK, HistoryOK
  <2> QED BY <2>1 DEF SurplusInv
<1> QED BY <1>1, <1>2, <1>3, TypeCorrect, PTL DEF Spec
=============================================================================
