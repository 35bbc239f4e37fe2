-------------------------- MODULE StatementsProofs --------------------------
(***************************************************************************)
(* However many statements are prepared, and however often append moves    *)
(* them to another array, each is finalized once and none is used after    *)
(* that.                                                                   *)
(***************************************************************************)
EXTENDS Statements, SequenceTheorems, FiniteSetTheorems, TLAPS

(* A run of cells is a sequence. *)
LEMMA CellsAreSeq ==
    ASSUME NEW n \in Nat, NEW f, f \in [1 .. n -> Nat]
    PROVE  f \in Seq(Nat) /\ Len(f) = n
BY IsASeq, LenProperties

(* What append does when the slice is full: every array stays as it was, and
   the one in use has room behind the elements it had. *)
LEMMA RoomyProperties ==
    ASSUME StatementsTypeOK, CellsNumbered
    PROVE  /\ Roomy \in Seq(Seq(Nat)) /\ Len(Roomy) > 0
           /\ size + 1 <= Len(Roomy[Len(Roomy)])
           /\ \A a \in DOMAIN Roomy : \A i \in DOMAIN Roomy[a] :
                Roomy[a][i] \in {0, i}
           /\ \A a \in DOMAIN arrays : a \in DOMAIN Roomy /\ Roomy[a] = arrays[a]
           /\ \A i \in 1 .. size :
                Roomy[Len(Roomy)][i] = arrays[Len(arrays)][i]
<1>1. /\ arrays \in Seq(Seq(Nat)) /\ Len(arrays) \in Nat /\ Len(arrays) > 0
      /\ DOMAIN arrays = 1 .. Len(arrays) /\ size \in Nat
  BY LenProperties, EmptySeq DEF StatementsTypeOK
<1> DEFINE full == arrays[Len(arrays)]
           cap == IF full = <<>> THEN 1 ELSE 2 * Len(full)
           copy == [i \in 1 .. cap |-> IF i <= Len(full) THEN full[i] ELSE 0]
<1>2. /\ full \in Seq(Nat) /\ Len(full) \in Nat /\ DOMAIN full = 1 .. Len(full)
      /\ size <= Len(full)
      /\ \A i \in DOMAIN full : full[i] \in {0, i}
  <2>1. full \in Seq(Nat)
    BY <1>1, ElementOfSeq
  <2> QED
    BY <1>1, <2>1, LenProperties DEF CellsNumbered, Last
<1>3. CASE size < Len(full)
  <2>1. Roomy = arrays
    BY <1>3 DEF Roomy, Last
  <2> QED
    BY <2>1, <1>1, <1>2, <1>3 DEF CellsNumbered
<1>4. CASE ~(size < Len(full))
  <2>1. Roomy = Append(arrays, copy)
    BY <1>4 DEF Roomy, Last
  <2>2. size = Len(full)
    BY <1>4, <1>1, <1>2
  <2>3. cap \in Nat /\ cap >= size + 1
    BY <2>2, <1>2, EmptySeq
  <2>4. \A i \in 1 .. cap : i <= Len(full) => i \in DOMAIN full
    BY <1>2, <2>3
  <2>5. copy \in [1 .. cap -> Nat]
    <3>1. \A i \in 1 .. cap : copy[i] \in Nat
      BY <2>4, <1>2, <2>3
    <3> QED
      BY <3>1
  <2>6. /\ copy \in Seq(Nat) /\ Len(copy) = cap
        /\ \A i \in 1 .. cap : copy[i] \in {0, i}
        /\ \A i \in 1 .. size : copy[i] = full[i]
        /\ DOMAIN copy = 1 .. cap
    <3>1. copy \in Seq(Nat) /\ Len(copy) = cap
      <4> HIDE DEF copy, cap
      <4> QED
        BY <2>3, <2>5, CellsAreSeq
    <3> HIDE DEF cap, full
    <3>2. \A i \in 1 .. cap : copy[i] = IF i <= Len(full) THEN full[i] ELSE 0
      OBVIOUS
    <3>3. DOMAIN copy = 1 .. cap
      OBVIOUS
    <3> HIDE DEF copy
    <3>4. \A i \in 1 .. cap : copy[i] \in {0, i}
      BY <3>2, <2>4, <1>2
    <3>5. \A i \in 1 .. size : copy[i] = full[i]
      BY <3>2, <2>2, <2>3, <1>1
    <3> QED
      BY <3>1, <3>3, <3>4, <3>5
  <2> HIDE DEF copy, cap
  <2>7. /\ Append(arrays, copy) \in Seq(Seq(Nat))
        /\ Len(Append(arrays, copy)) = Len(arrays) + 1
        /\ \A i \in 1 .. Len(arrays) : Append(arrays, copy)[i] = arrays[i]
        /\ Append(arrays, copy)[Len(arrays) + 1] = copy
    BY <1>1, <2>6, AppendProperties
  <2>8. DOMAIN Append(arrays, copy) = 1 .. (Len(arrays) + 1)
    BY <2>7, LenProperties
  <2>9. \A a \in 1 .. (Len(arrays) + 1) :
           a \in 1 .. Len(arrays) \/ a = Len(arrays) + 1
    BY <1>1
  <2>10. \A a \in DOMAIN Roomy : \A i \in DOMAIN Roomy[a] :
           Roomy[a][i] \in {0, i}
    BY <1>1, <2>1, <2>6, <2>7, <2>8, <2>9 DEF CellsNumbered
  <2> QED
    BY <1>1, <1>2, <2>1, <2>3, <2>6, <2>7, <2>8, <2>10
<1> QED
  BY <1>3, <1>4


(* What a Prepare does, when the pointer that the one before returned is not
   needed any more: cells keep their numbers, and the pointers that are held
   keep what they lead to. *)
LEMMA PrepareKeeps ==
    ASSUME StatementsTypeOK, CellsNumbered, HeldInv, stmt = NoPointer, Prepare
    PROVE  /\ arrays' \in Seq(Seq(Nat)) /\ arrays' # <<>>
           /\ size' = size + 1 /\ finalized' \in Seq(Nat)
           /\ CellsNumbered'
           /\ Returned \in Pointer /\ Returned # NoPointer
           /\ Returned.array = Len(arrays') /\ Returned.cell = size'
           /\ finalized'[size'] = 0
           /\ Returned.array \in DOMAIN arrays'
           /\ Returned.cell \in DOMAIN arrays'[Returned.array]
           /\ arrays'[Returned.array][Returned.cell] = size'
           /\ \A j \in DOMAIN held :
                LET p == held[j] IN
                /\ p.array \in DOMAIN arrays' /\ p.cell \in DOMAIN arrays'[p.array]
                /\ p.cell \in 1 .. size
                /\ arrays'[p.array][p.cell] = p.cell /\ finalized'[p.cell] = 0
<1> DEFINE R == Roomy
           n == Len(R)
<1>1. /\ R \in Seq(Seq(Nat)) /\ n > 0 /\ size + 1 <= Len(R[n])
      /\ \A a \in DOMAIN R : \A i \in DOMAIN R[a] : R[a][i] \in {0, i}
      /\ \A a \in DOMAIN arrays : a \in DOMAIN R /\ R[a] = arrays[a]
      /\ \A i \in 1 .. size : R[n][i] = arrays[Len(arrays)][i]
  BY RoomyProperties
<1>2. /\ arrays' = [R EXCEPT ![n][size + 1] = Len(finalized) + 1]
      /\ size' = size + 1 /\ finalized' = Append(finalized, 0)
      /\ Returned = [array |-> n, cell |-> size + 1]
  BY DEF Prepare, Returned
<1> HIDE DEF R
<1>3. /\ size \in Nat /\ Len(finalized) = size /\ finalized \in Seq(Nat)
      /\ n \in Nat /\ DOMAIN R = 1 .. n
  BY <1>1, LenProperties DEF StatementsTypeOK, CellsNumbered
<1> HIDE DEF n
<1>4. n \in DOMAIN R /\ R[n] \in Seq(Nat)
  BY <1>1, <1>3, ElementOfSeq DEF n
<1>5. Len(R[n]) \in Nat /\ DOMAIN R[n] = 1 .. Len(R[n])
  BY <1>4, LenProperties
<1>6. size + 1 \in DOMAIN R[n]
  BY <1>1, <1>3, <1>5
<1> DEFINE new == [R[n] EXCEPT ![size + 1] = Len(finalized) + 1]
<1>7. /\ new \in Seq(Nat) /\ Len(new) = Len(R[n]) /\ DOMAIN new = DOMAIN R[n]
      /\ new[size + 1] = size + 1
      /\ \A i \in DOMAIN R[n] : i # size + 1 => new[i] = R[n][i]
  BY <1>3, <1>4, <1>5, <1>6, ExceptSeq
<1>8. arrays' = [R EXCEPT ![n] = new]
  BY <1>2
<1> HIDE DEF new
<1>9. /\ arrays' \in Seq(Seq(Nat)) /\ Len(arrays') = n
      /\ DOMAIN arrays' = 1 .. n
      /\ arrays'[n] = new /\ \A a \in 1 .. n : a # n => arrays'[a] = R[a]
  BY <1>1, <1>3, <1>4, <1>7, <1>8, ExceptSeq DEF n
<1>10. /\ finalized' \in Seq(Nat) /\ Len(finalized') = size + 1
       /\ finalized'[size + 1] = 0
       /\ \A i \in 1 .. size : finalized'[i] = finalized[i]
  BY <1>2, <1>3, AppendProperties
<1>11. CellsNumbered'
  <2>1. Len(finalized') = size' /\ size' <= Len(arrays'[Len(arrays')])
    BY <1>1, <1>2, <1>7, <1>9, <1>10
  <2>2. ASSUME NEW a \in DOMAIN arrays', NEW i \in DOMAIN arrays'[a]
        PROVE  arrays'[a][i] \in {0, i}
    <3>1. CASE a = n
      BY <3>1, <1>1, <1>4, <1>7, <1>9
    <3>2. CASE a # n
      BY <3>2, <1>1, <1>3, <1>9
    <3> QED
      BY <3>1, <3>2
  <2>3. ASSUME NEW i \in 1 .. size'
        PROVE  \/ finalized'[i] = 0 /\ arrays'[Len(arrays')][i] = i
               \/ finalized'[i] = 1 /\ arrays'[Len(arrays')][i] = 0
    <3>1. CASE i = size + 1
      BY <3>1, <1>7, <1>9, <1>10
    <3>2. CASE i # size + 1
      <4>1. i \in 1 .. size /\ i \in DOMAIN R[n]
        BY <3>2, <1>1, <1>2, <1>3, <1>5
      <4>2. arrays'[Len(arrays')][i] = arrays[Len(arrays)][i]
        BY <4>1, <3>2, <1>1, <1>7, <1>9
      <4> QED
        BY <4>1, <4>2, <1>10 DEF CellsNumbered, Last
    <3> QED
      BY <3>1, <3>2
  <2> QED
    BY <2>1, <2>2, <2>3 DEF CellsNumbered, Last
<1>12. /\ Returned \in Pointer /\ Returned # NoPointer
       /\ Returned.array = n /\ Returned.cell = size + 1
  BY <1>1, <1>2, <1>3 DEF Pointer, NoPointer
<1>13. ASSUME NEW j \in DOMAIN held
       PROVE  LET p == held[j] IN
              /\ p.array \in DOMAIN arrays' /\ p.cell \in DOMAIN arrays'[p.array]
              /\ p.cell \in 1 .. size
              /\ arrays'[p.array][p.cell] = p.cell /\ finalized'[p.cell] = 0
  <2> DEFINE a == held[j].array
             i == held[j].cell
  <2>1. /\ a \in DOMAIN arrays /\ i \in DOMAIN arrays[a] /\ i \in 1 .. size
        /\ arrays[a][i] = i /\ finalized[i] = 0
    BY DEF HeldInv, Pointee
  <2> HIDE DEF a, i
  <2>2. a \in 1 .. n /\ R[a] = arrays[a] /\ i # size + 1
    BY <2>1, <1>1, <1>3
  <2>3. i \in DOMAIN arrays'[a] /\ arrays'[a][i] = i
    <3>1. CASE a = n
      BY <3>1, <2>1, <2>2, <1>7, <1>9
    <3>2. CASE a # n
      BY <3>2, <2>1, <2>2, <1>9
    <3> QED
      BY <3>1, <3>2
  <2>4. finalized'[i] = 0
    BY <2>1, <1>10
  <2> QED
    BY <2>1, <2>2, <2>3, <2>4, <1>9 DEF a, i
<1>14. arrays' # <<>>
  <2>1. Len(arrays') > 0
    BY <1>1, <1>9
  <2> QED
    BY <2>1, EmptySeq
<1> QED
  BY <1>2, <1>3, <1>4, <1>6, <1>7, <1>9, <1>10, <1>11, <1>12, <1>13, <1>14


(* Statement.Close on the pointer that Prepare has returned last: it is in the
   array in use, so that DB.Close sees what it did; the pointers that are held
   lead to other cells. *)
LEMMA CloseKeeps ==
    ASSUME StatementsTypeOK, CellsNumbered, HeldInv, StmtInv, stmt # NoPointer, Close(stmt)
    PROVE  /\ arrays' \in Seq(Seq(Nat)) /\ arrays' # <<>>
           /\ finalized' \in Seq(Nat) /\ size' = size
           /\ CellsNumbered'
           /\ \A j \in DOMAIN held :
                LET p == held[j] IN
                /\ p.array \in DOMAIN arrays' /\ p.cell \in DOMAIN arrays'[p.array]
                /\ p.cell \in 1 .. size
                /\ arrays'[p.array][p.cell] = p.cell /\ finalized'[p.cell] = 0
<1> DEFINE n == Len(arrays)
           R == arrays[n]
           new == [R EXCEPT ![size] = 0]
<1>1. /\ arrays \in Seq(Seq(Nat)) /\ n \in Nat /\ n > 0
      /\ DOMAIN arrays = 1 .. n /\ size \in Nat /\ size > 0
      /\ finalized \in Seq(Nat) /\ DOMAIN finalized = 1 .. size
      /\ Len(finalized) = size
  BY LenProperties, EmptySeq DEF StatementsTypeOK, CellsNumbered, StmtInv
<1>2. stmt.array = n /\ stmt.cell = size /\ finalized[size] = 0
  BY DEF StmtInv
<1>3. n \in DOMAIN arrays /\ R \in Seq(Nat)
  BY <1>1, ElementOfSeq
<1>4. Len(R) \in Nat /\ DOMAIN R = 1 .. Len(R) /\ size <= Len(R)
  BY <1>3, LenProperties DEF CellsNumbered, Last
<1>5. size \in DOMAIN R /\ R[size] = size
  BY <1>1, <1>2, <1>4 DEF CellsNumbered, Last
<1>6. finalized' = [finalized EXCEPT ![size] = 1]
  <2>1. Pointee(stmt) = size
    BY <1>2, <1>5 DEF Pointee
  <2> QED
    BY <2>1, <1>1, <1>2 DEF Close, Finalize
<1>7. arrays' = [arrays EXCEPT ![n] = new] /\ size' = size
  BY <1>2 DEF Close, SetNil
<1>8. /\ new \in Seq(Nat) /\ Len(new) = Len(R) /\ DOMAIN new = DOMAIN R
      /\ new[size] = 0 /\ \A i \in DOMAIN R : i # size => new[i] = R[i]
  <2> HIDE DEF R
  <2> QED
    BY <1>3, <1>4, <1>5, ExceptSeq
<1> HIDE DEF new, R
<1>9. /\ arrays' \in Seq(Seq(Nat)) /\ Len(arrays') = n
      /\ DOMAIN arrays' = 1 .. n
      /\ arrays'[n] = new /\ \A a \in 1 .. n : a # n => arrays'[a] = arrays[a]
  <2>1. n \in 1 .. Len(arrays) /\ n = Len(arrays)
    BY <1>1
  <2> HIDE DEF n
  <2>2. /\ arrays' \in Seq(Seq(Nat)) /\ Len(arrays') = Len(arrays)
        /\ \A a \in 1 .. Len(arrays) :
             arrays'[a] = IF a = n THEN new ELSE arrays[a]
    BY <2>1, <1>1, <1>7, <1>8, ExceptSeq
  <2> QED
    BY <2>1, <2>2, LenProperties
<1>10. /\ finalized' \in Seq(Nat) /\ Len(finalized') = size
       /\ finalized'[size] = 1
       /\ \A i \in 1 .. size : i # size => finalized'[i] = finalized[i]
  BY <1>1, <1>6, ExceptSeq
<1>11. R = arrays[n]
  BY DEF R
<1> HIDE DEF n
<1>12. CellsNumbered'
  <2>1. Len(finalized') = size' /\ size' <= Len(arrays'[Len(arrays')])
    BY <1>4, <1>7, <1>8, <1>9, <1>10
  <2>2. ASSUME NEW a \in DOMAIN arrays', NEW i \in DOMAIN arrays'[a]
        PROVE  arrays'[a][i] \in {0, i}
    <3>1. CASE a = n
      BY <3>1, <1>3, <1>8, <1>9, <1>11 DEF CellsNumbered
    <3>2. CASE a # n
      BY <3>2, <1>1, <1>9 DEF CellsNumbered
    <3> QED
      BY <3>1, <3>2
  <2>3. ASSUME NEW i \in 1 .. size'
        PROVE  \/ finalized'[i] = 0 /\ arrays'[Len(arrays')][i] = i
               \/ finalized'[i] = 1 /\ arrays'[Len(arrays')][i] = 0
    <3>1. CASE i = size
      BY <3>1, <1>8, <1>9, <1>10
    <3>2. CASE i # size
      <4>1. i \in 1 .. size /\ i \in DOMAIN R
        BY <1>1, <1>4, <1>7
      <4>2. arrays'[Len(arrays')][i] = arrays[Len(arrays)][i]
        BY <4>1, <3>2, <1>8, <1>9, <1>11 DEF n
      <4> QED
        BY <4>1, <4>2, <3>2, <1>10 DEF CellsNumbered, Last
    <3> QED
      BY <3>1, <3>2
  <2> QED
    BY <2>1, <2>2, <2>3 DEF CellsNumbered, Last
<1>13. ASSUME NEW j \in DOMAIN held
       PROVE  LET p == held[j] IN
              /\ p.array \in DOMAIN arrays' /\ p.cell \in DOMAIN arrays'[p.array]
              /\ p.cell \in 1 .. size
              /\ arrays'[p.array][p.cell] = p.cell /\ finalized'[p.cell] = 0
  <2> DEFINE a == held[j].array
             i == held[j].cell
  <2>1. /\ a \in DOMAIN arrays /\ i \in DOMAIN arrays[a]
        /\ i \in 1 .. (size - 1)
        /\ arrays[a][i] = i /\ finalized[i] = 0
    BY DEF HeldInv, Pointee
  <2> HIDE DEF a, i
  <2>2. a \in 1 .. n /\ i \in 1 .. size /\ i # size
    BY <2>1, <1>1
  <2>3. i \in DOMAIN arrays'[a] /\ arrays'[a][i] = i
    <3>1. CASE a = n
      BY <3>1, <2>1, <2>2, <1>8, <1>9, <1>11
    <3>2. CASE a # n
      BY <3>2, <2>1, <2>2, <1>9
    <3> QED
      BY <3>1, <3>2
  <2>4. finalized'[i] = 0
    BY <2>1, <2>2, <1>10
  <2> QED
    BY <2>2, <2>3, <2>4, <1>9 DEF a, i
<1>14. arrays' # <<>>
  <2>1. Len(arrays') > 0
    BY <1>1, <1>9
  <2> QED
    BY <2>1, EmptySeq
<1> QED
  BY <1>7, <1>9, <1>10, <1>12, <1>13, <1>14

(* DB.Close finalizes what is not finalized yet, and nothing twice, up to the
   statement that failed. *)
LEMMA CloseDBFinalizes ==
    ASSUME StatementsTypeOK, CellsNumbered, CloseDB,
           failed # 0 => failed \in 1 .. size /\ finalized[failed] = 0
    PROVE  /\ arrays' \in Seq(Seq(Nat)) /\ arrays' # <<>>
           /\ size' = size /\ failed' = failed /\ finalized' \in Seq(Nat)
           /\ DOMAIN finalized' = 1 .. size
           /\ \A s \in 1 .. size :
                finalized'[s] = IF s <= LastClosed THEN 1 ELSE finalized[s]
           /\ \A s \in 1 .. size : finalized'[s] \in {0, 1}
<1>1. /\ DOMAIN finalized = 1 .. size /\ size \in Nat /\ size' = size
      /\ failed' = failed /\ LastClosed \in Nat
      /\ finalized' = [s \in 1 .. size |-> finalized[s] +
             Cardinality({i \in 1 .. size : i <= LastClosed /\ Last(arrays)[i] = s})]
  BY LenProperties DEF StatementsTypeOK, CellsNumbered, CloseDB, LastClosed
<1>2. ASSUME NEW s \in 1 .. size
      PROVE  /\ finalized'[s] = IF s <= LastClosed THEN 1 ELSE finalized[s]
             /\ finalized'[s] \in {0, 1}
  <2> DEFINE C == {i \in 1 .. size : i <= LastClosed /\ Last(arrays)[i] = s}
  <2>1. finalized'[s] = finalized[s] + Cardinality(C)
    BY <1>1
  <2>2. \A i \in 1 .. size : Last(arrays)[i] \in {0, i}
    BY <1>1 DEF CellsNumbered
  <2>3. CASE finalized[s] = 0 /\ Last(arrays)[s] = s /\ s <= LastClosed
    <3>1. C = {s}
      BY <2>2, <2>3, <1>1
    <3>2. Cardinality(C) = 1
      BY <3>1, FS_Singleton
    <3> QED
      BY <3>2, <2>1, <2>3
  <2>4. CASE /\ finalized[s] \in {0, 1}
             /\ Last(arrays)[s] = 0 \/ ~(s <= LastClosed)
             /\ finalized[s] = 1 \/ ~(s <= LastClosed)
    <3>1. C = {}
      BY <2>2, <2>4, <1>1
    <3>2. Cardinality(C) = 0
      BY <3>1, FS_EmptySet
    <3> QED
      BY <3>2, <2>1, <2>4
  <2>5. \/ finalized[s] = 0 /\ Last(arrays)[s] = s
        \/ finalized[s] = 1 /\ Last(arrays)[s] = 0
    BY DEF CellsNumbered
  <2> QED
    BY <2>3, <2>4, <2>5
<1>3. finalized' \in Seq(Nat) /\ DOMAIN finalized' = 1 .. size
  <2>1. finalized' \in [1 .. size -> Nat]
    BY <1>1, <1>2
  <2> QED
    BY <2>1, <1>1, CellsAreSeq
<1>4. arrays' \in Seq(Seq(Nat)) /\ arrays' # <<>>
  <2> DEFINE full == Last(arrays)
             cleared == [i \in 1 .. Len(full) |->
                           IF i < LastClosed THEN 0 ELSE full[i]]
  <2>1. full \in Seq(Nat)
    <3>1. Len(arrays) \in 1 .. Len(arrays)
      BY LenProperties, EmptySeq DEF StatementsTypeOK
    <3> QED
      BY <3>1, ElementOfSeq DEF StatementsTypeOK, Last
  <2>2. arrays' = <<cleared>>
    BY DEF CloseDB
  <2> HIDE DEF full
  <2>3. cleared \in [1 .. Len(full) -> Nat] /\ Len(full) \in Nat
    BY <2>1, LenProperties
  <2>4. cleared \in Seq(Nat)
    <3> HIDE DEF cleared
    <3> QED
      BY <2>3, CellsAreSeq
  <2> HIDE DEF cleared
  <2> QED
    BY <2>2, <2>4
<1> QED
  BY <1>1, <1>2, <1>3, <1>4

(* The first state. *)
LEMMA StatementsInvInit == StatementsInit => StatementsInv
<1> SUFFICES ASSUME StatementsInit PROVE StatementsInv
  OBVIOUS
<1>1. << <<>> >> \in Seq(Seq(Nat)) /\ << <<>> >> # <<>>
  <2>1. <<>> \in Seq(Nat)
    OBVIOUS
  <2> QED
    BY <2>1
<1>2. NoPointer \in Pointer
  BY DEF NoPointer, Pointer
<1> QED
  BY <1>1, <1>2 DEF StatementsInit, StatementsInv, StatementsTypeOK, Task,
                    FailedInv, Over, FinalizedOnce

(* A new connection has no statements and no pointers. *)
LEMMA OpenEmpty ==
    ASSUME Open
    PROVE  /\ arrays' \in Seq(Seq(Nat)) /\ arrays' # <<>>
           /\ size' \in Nat /\ finalized' \in Seq(Nat)
           /\ held' = <<>> /\ held' \in Seq(Pointer)
           /\ failed' = 0
           /\ stmt' = NoPointer /\ stmt' \in Pointer
           /\ CellsNumbered' /\ HeldInv'
<1>1. /\ arrays' = << <<>> >> /\ size' = 0 /\ finalized' = <<>>
      /\ held' = <<>> /\ stmt' = NoPointer /\ failed' = 0
  BY DEF Open
<1>2. arrays' \in Seq(Seq(Nat)) /\ arrays' # <<>>
  <2>1. <<>> \in Seq(Nat)
    OBVIOUS
  <2> QED
    BY <1>1, <2>1
<1>3. DOMAIN arrays' = {1} /\ Len(arrays') = 1 /\ arrays'[1] = <<>>
  BY <1>1
<1>4. CellsNumbered'
  <2>1. Len(finalized') = 0 /\ Len(arrays'[Len(arrays')]) = 0
    BY <1>1, <1>3
  <2>2. \A a \in DOMAIN arrays' : DOMAIN arrays'[a] = {}
    BY <1>3
  <2>3. 1 .. size' = {}
    BY <1>1
  <2> QED
    BY <1>1, <2>1, <2>2, <2>3 DEF CellsNumbered, Last
<1>5. HeldInv'
  BY <1>1 DEF HeldInv
<1>6. stmt' \in Pointer
  BY <1>1 DEF NoPointer, Pointer
<1>7. finalized' \in Seq(Nat) /\ held' \in Seq(Pointer)
  BY <1>1
<1> QED
  BY <1>1, <1>2, <1>4, <1>5, <1>6, <1>7

(* Every step of savefile.go keeps the invariant. *)
LEMMA StatementsInvStep == StatementsInv /\ [StatementsNext]_stmtVars => StatementsInv'
<1> SUFFICES ASSUME StatementsInv, [StatementsNext]_stmtVars PROVE StatementsInv'
  OBVIOUS
<1>0. StatementsTypeOK /\ NoPointer \in Pointer
  BY DEF StatementsInv, NoPointer, Pointer
<1>1. CASE OpenSavefile
  BY <1>1, OpenEmpty
  DEF OpenSavefile, StatementsInv, StatementsTypeOK, Task, StmtInv, FailedInv, Over
<1>2. CASE PreparePersistent
  <2>1. /\ task = "open" /\ task' = "open" /\ failed' = failed /\ FailedInv /\ Prepare /\ held' = Append(held, Returned)
        /\ stmt' = stmt /\ CellsNumbered /\ HeldInv /\ stmt = NoPointer
    BY <1>2 DEF PreparePersistent, StatementsInv, StmtInv, Over
  <2>2. /\ held \in Seq(Pointer) /\ held' \in Seq(Pointer)
        /\ DOMAIN held = 1 .. Len(held) /\ DOMAIN held' = 1 .. (Len(held) + 1)
        /\ Len(held) \in Nat
        /\ \A j \in 1 .. Len(held) : held'[j] = held[j]
        /\ held'[Len(held) + 1] = Returned
    <3>1. held \in Seq(Pointer) /\ Returned \in Pointer
      BY <1>0, <2>1, PrepareKeeps DEF StatementsTypeOK
    <3>2. /\ Append(held, Returned) \in Seq(Pointer)
          /\ Len(Append(held, Returned)) = Len(held) + 1
          /\ \A j \in 1 .. Len(held) : Append(held, Returned)[j] = held[j]
          /\ Append(held, Returned)[Len(held) + 1] = Returned
      BY <3>1, AppendProperties
    <3> QED
      BY <2>1, <3>1, <3>2, LenProperties
  <2>3. size \in Nat /\ size' = size + 1
    BY <1>0, <2>1, PrepareKeeps DEF StatementsTypeOK
  <2>4. HeldInv'
    <3> SUFFICES ASSUME NEW j \in DOMAIN held'
                 PROVE  /\ held'[j].array \in DOMAIN arrays'
                        /\ held'[j].cell \in DOMAIN arrays'[held'[j].array]
                        /\ held'[j].cell \in 1 .. size'
                        /\ arrays'[held'[j].array][held'[j].cell] = held'[j].cell
                        /\ finalized'[held'[j].cell] = 0
      BY <2>1 DEF HeldInv, Pointee
    <3>1. CASE j \in 1 .. Len(held)
      <4>1. held'[j] = held[j] /\ j \in DOMAIN held
        BY <3>1, <2>2
      <4>2. /\ held[j].array \in DOMAIN arrays'
            /\ held[j].cell \in DOMAIN arrays'[held[j].array]
            /\ held[j].cell \in 1 .. size
            /\ arrays'[held[j].array][held[j].cell] = held[j].cell
            /\ finalized'[held[j].cell] = 0
        BY <4>1, <1>0, <2>1, PrepareKeeps
      <4>3. held[j].cell \in 1 .. size'
        BY <4>2, <2>3
      <4> QED
        BY <4>1, <4>2, <4>3
    <3>2. CASE j = Len(held) + 1
      <4>1. held'[j] = Returned
        BY <3>2, <2>2
      <4>2. /\ Returned.array \in DOMAIN arrays' /\ Returned.cell = size'
            /\ Returned.cell \in DOMAIN arrays'[Returned.array]
            /\ arrays'[Returned.array][Returned.cell] = size'
            /\ finalized'[size'] = 0
        BY <1>0, <2>1, PrepareKeeps
      <4>3. size' \in 1 .. size'
        BY <2>3
      <4> QED
        BY <4>1, <4>2, <4>3
    <3> QED
      BY <3>1, <3>2, <2>2
  <2>5. StmtInv'
    BY <2>1 DEF StmtInv
  <2>6. StatementsTypeOK'
    BY <1>0, <2>1, <2>2, <2>3, PrepareKeeps DEF StatementsTypeOK, Task
  <2> QED
    BY <1>0, <2>1, <2>4, <2>5, <2>6, PrepareKeeps DEF StatementsInv, FailedInv, Over
<1>3. CASE Opened
  BY <1>3 DEF Opened, StatementsInv, StatementsTypeOK, Task, CellsNumbered, HeldInv,
              StmtInv, Pointee, FailedInv, Over
<1>4. ASSUME NEW kind \in {"query", "leave"}, BeginQuery(kind)
      PROVE  StatementsInv'
  <2>1. /\ task = "play" /\ task' = kind /\ Prepare /\ held' = held
        /\ stmt' = Returned /\ failed' = failed /\ FailedInv
        /\ CellsNumbered /\ HeldInv /\ stmt = NoPointer
    BY <1>4 DEF BeginQuery, StatementsInv, StmtInv, Over
  <2>2. size \in Nat /\ size' = size + 1 /\ Returned # NoPointer
    BY <1>0, <2>1, PrepareKeeps DEF StatementsTypeOK
  <2>3. HeldInv'
    <3> SUFFICES ASSUME NEW j \in DOMAIN held
                 PROVE  /\ held[j].array \in DOMAIN arrays'
                        /\ held[j].cell \in DOMAIN arrays'[held[j].array]
                        /\ held[j].cell \in 1 .. (size' - 1)
                        /\ arrays'[held[j].array][held[j].cell] = held[j].cell
                        /\ finalized'[held[j].cell] = 0
      BY <2>1, <2>2 DEF HeldInv, Pointee
    <3> QED
      BY <1>0, <2>1, <2>2, PrepareKeeps
  <2>4. StmtInv'
    BY <1>0, <2>1, <2>2, PrepareKeeps DEF StmtInv
  <2>5. StatementsTypeOK'
    BY <1>0, <2>1, <2>2, PrepareKeeps DEF StatementsTypeOK, Task
  <2> QED
    BY <1>0, <2>1, <2>3, <2>4, <2>5, PrepareKeeps DEF StatementsInv, FailedInv, Over
<1>5. CASE EndQuery \/ CreateClose
  <2>1. /\ Close(stmt) /\ held' = held /\ stmt' = NoPointer /\ stmt # NoPointer
        /\ task' \in Task /\ task' \notin Over /\ failed' = failed
        /\ FailedInv /\ task \notin {"fails", "panicked"} /\ task' # "fails"
        /\ task' = "create" => held = <<>>
        /\ task' \notin {"query", "leave"}
        /\ CellsNumbered /\ HeldInv /\ StmtInv
    BY <1>0, <1>5
    DEF EndQuery, CreateClose, StatementsInv, StmtInv, StatementsTypeOK, Task, Over
  <2>2. HeldInv'
    <3> SUFFICES ASSUME NEW j \in DOMAIN held
                 PROVE  /\ held[j].array \in DOMAIN arrays'
                        /\ held[j].cell \in DOMAIN arrays'[held[j].array]
                        /\ held[j].cell \in 1 .. size'
                        /\ arrays'[held[j].array][held[j].cell] = held[j].cell
                        /\ finalized'[held[j].cell] = 0
      BY <2>1 DEF HeldInv, Pointee
    <3> QED
      BY <1>0, <2>1, CloseKeeps
  <2>3. StmtInv'
    BY <2>1 DEF StmtInv
  <2>4. StatementsTypeOK'
    BY <1>0, <2>1, CloseKeeps DEF StatementsTypeOK
  <2> QED
    BY <1>0, <2>1, <2>2, <2>3, <2>4, CloseKeeps DEF StatementsInv, FailedInv, Over
<1>6. CASE Leave
  <2>1. /\ CellsNumbered /\ HeldInv /\ size \in Nat /\ stmt # NoPointer
        /\ stmt' = NoPointer /\ task' = "play"
        /\ UNCHANGED <<arrays, size, finalized, failed, held>>
        /\ task = "leave" /\ FailedInv
    BY <1>0, <1>6 DEF Leave, StatementsInv, StmtInv, StatementsTypeOK, Over
  <2>2. HeldInv'
    <3> SUFFICES ASSUME NEW j \in DOMAIN held
                 PROVE  /\ held[j].array \in DOMAIN arrays
                        /\ held[j].cell \in DOMAIN arrays[held[j].array]
                        /\ held[j].cell \in 1 .. size
                        /\ arrays[held[j].array][held[j].cell] = held[j].cell
                        /\ finalized[held[j].cell] = 0
      BY <2>1 DEF HeldInv, Pointee
    <3>1. held[j].cell \in 1 .. (size - 1)
      BY <2>1 DEF HeldInv
    <3> QED
      BY <2>1, <3>1 DEF HeldInv, Pointee
  <2> QED
    BY <1>0, <2>1, <2>2
    DEF StatementsInv, StatementsTypeOK, Task, CellsNumbered, StmtInv, FailedInv, Over
<1>7. CASE CloseSavefile \/ CreateEnd
  <2>1. /\ CloseDB /\ task' = "closed" /\ UNCHANGED <<held, stmt>>
        /\ CellsNumbered /\ failed = 0 /\ failed \in Nat /\ size \in Nat
    BY <1>0, <1>7
    DEF CloseSavefile, CreateEnd, StatementsInv, FailedInv, Over, StatementsTypeOK
  <2>2. \A s \in 1 .. size : s <= LastClosed
    BY <2>1 DEF LastClosed
  <2>3. \A s \in DOMAIN finalized' : finalized'[s] = 1
    BY <1>0, <2>1, <2>2, CloseDBFinalizes
  <2>4. StatementsTypeOK' /\ failed' = 0
    BY <1>0, <2>1, CloseDBFinalizes DEF StatementsTypeOK, Task
  <2>5. FinalizedOnce'
    BY <2>1, <2>3 DEF FinalizedOnce
  <2> QED
    BY <2>1, <2>4, <2>5 DEF StatementsInv, FailedInv, Over
<1>11. CASE ClosePanics
  <2>1. /\ CloseDB /\ task' = "panicked" /\ UNCHANGED <<held, stmt>>
        /\ CellsNumbered /\ failed # 0
        /\ failed \in 1 .. size /\ finalized[failed] = 0
    BY <1>11 DEF ClosePanics, StatementsInv, FailedInv, Over
  <2>2. LastClosed = failed
    BY <2>1 DEF LastClosed
  <2>4. /\ failed' = failed /\ DOMAIN finalized' = 1 .. size
        /\ \A s \in 1 .. size :
             finalized'[s] = IF s <= LastClosed THEN 1 ELSE finalized[s]
        /\ \A s \in 1 .. size : finalized'[s] \in {0, 1}
    BY <1>0, <2>1, CloseDBFinalizes
  <2>3. \A s \in DOMAIN finalized' :
          /\ finalized'[s] \in {0, 1}
          /\ s <= failed' => finalized'[s] = 1
    BY <2>2, <2>4
  <2>5. StatementsTypeOK'
    BY <1>0, <2>1, CloseDBFinalizes DEF StatementsTypeOK, Task
  <2>6. FailedInv'
    BY <2>1, <2>4 DEF FailedInv
  <2>7. \A s \in DOMAIN finalized' : finalized'[s] <= 1
    BY <2>3
  <2>8. FinalizedOnce'
    BY <2>1, <2>3, <2>7 DEF FinalizedOnce
  <2> QED
    BY <2>1, <2>5, <2>6, <2>8 DEF StatementsInv, Over
<1>12. ASSUME NEW j \in DOMAIN held \cap NotReset, ExecFails(j)
       PROVE  StatementsInv'
  <2>1. /\ task = "play" /\ task' = "fails" /\ failed' = Pointee(held[j])
        /\ UNCHANGED <<arrays, size, finalized, held, stmt>>
        /\ CellsNumbered /\ HeldInv /\ StmtInv
    BY <1>12 DEF ExecFails, StatementsInv, Over
  <2>2. /\ failed' = held[j].cell /\ finalized[failed'] = 0
        /\ failed' \in 1 .. size
    <3>1. stmt = NoPointer
      BY <2>1 DEF StmtInv
    <3> QED
      BY <2>1, <3>1 DEF HeldInv
  <2>3. StatementsTypeOK' /\ failed' # 0
    BY <1>0, <2>1, <2>2 DEF StatementsTypeOK, Task
  <2> QED
    BY <2>1, <2>2, <2>3
    DEF StatementsInv, FailedInv, Over, CellsNumbered, HeldInv, StmtInv, Pointee
<1>13. CASE CreateExecFails
  <2>1. /\ task = "create" /\ task' = "fails" /\ failed' = Pointee(stmt)
        /\ UNCHANGED <<arrays, size, finalized, held, stmt>>
        /\ CellsNumbered /\ HeldInv /\ StmtInv /\ stmt # NoPointer
    BY <1>13 DEF CreateExecFails, StatementsInv, Over
  <2>2. failed' = size /\ size \in 1 .. size /\ finalized[size] = 0
    BY <1>0, <2>1 DEF StmtInv, CellsNumbered, Last, Pointee, StatementsTypeOK
  <2>3. StatementsTypeOK' /\ failed' # 0
    BY <1>0, <2>1, <2>2 DEF StatementsTypeOK, Task
  <2> QED
    BY <2>1, <2>2, <2>3
    DEF StatementsInv, FailedInv, Over, CellsNumbered, HeldInv, StmtInv, Pointee
<1>8. CASE CreateOpen
  BY <1>8, OpenEmpty
  DEF CreateOpen, StatementsInv, StatementsTypeOK, Task, StmtInv, FailedInv, Over
<1>9. CASE CreatePrepare
  <2>1. /\ task = "create" /\ task' = "create" /\ Prepare /\ held' = held
        /\ failed' = failed /\ FailedInv
        /\ held = <<>> /\ stmt' = Returned
        /\ CellsNumbered /\ HeldInv /\ stmt = NoPointer
    BY <1>9 DEF CreatePrepare, StatementsInv, StmtInv, Over
  <2>2. HeldInv'
    BY <2>1 DEF HeldInv
  <2>3. size \in Nat /\ size' = size + 1 /\ Returned # NoPointer
    BY <1>0, <2>1, PrepareKeeps DEF StatementsTypeOK
  <2>4. StmtInv'
    BY <1>0, <2>1, <2>3, PrepareKeeps DEF StmtInv
  <2>5. StatementsTypeOK'
    BY <1>0, <2>1, <2>3, PrepareKeeps DEF StatementsTypeOK
  <2> QED
    BY <1>0, <2>1, <2>2, <2>4, <2>5, PrepareKeeps DEF StatementsInv, FailedInv, Over
<1>10. CASE UNCHANGED stmtVars
  BY <1>10 DEF stmtVars, StatementsInv, StatementsTypeOK, CellsNumbered, HeldInv,
               StmtInv, Pointee, FailedInv, Over, FinalizedOnce
<1> QED
  BY <1>1, <1>2, <1>3, <1>4, <1>5, <1>6, <1>7, <1>8, <1>9, <1>10, <1>11, <1>12,
     <1>13 DEF StatementsNext

(* For any number of statements and any interleaving of the queries of a
   session: no SQLite statement is finalized twice, and all of them are when
   the connection has closed; when DB.Close panics, all are up to the one whose
   Exec failed (Statement.Close and DB.Close of db.go). *)
THEOREM StatementsFinalizedOnce == StatementsSpec => []FinalizedOnce
<1>1. StatementsInv => FinalizedOnce
  <2> SUFFICES ASSUME StatementsInv, task \notin Over
               PROVE  FinalizedOnce
    BY DEF StatementsInv
  <2>1. DOMAIN finalized = 1 .. size
    BY LenProperties DEF StatementsInv, StatementsTypeOK, CellsNumbered
  <2> QED
    BY <2>1 DEF StatementsInv, CellsNumbered, FinalizedOnce, Over
<1> QED
  BY <1>1, StatementsInvInit, StatementsInvStep, PTL DEF StatementsSpec

(* The pointers of the savefile struct, most of them into arrays that append
   has left behind, and the one of a query at hand lead to statements that are
   not finalized (savefile.go). *)
THEOREM PointersStayUsable == StatementsSpec => []NoUseAfterFinalize
<1>1. StatementsInv => NoUseAfterFinalize
  <2> SUFFICES ASSUME StatementsInv, task \notin Over
               PROVE  NoUseAfterFinalize
    BY DEF NoUseAfterFinalize, StatementsInv, Over
  <2>1. StatementsTypeOK /\ CellsNumbered /\ HeldInv /\ StmtInv
    BY DEF StatementsInv
  <2>2. \A i \in DOMAIN held :
          Pointee(held[i]) # 0 /\ finalized[Pointee(held[i])] = 0
    <3> SUFFICES ASSUME NEW i \in DOMAIN held
                 PROVE  Pointee(held[i]) # 0 /\ finalized[Pointee(held[i])] = 0
      OBVIOUS
    <3>1. Pointee(held[i]) = held[i].cell /\ finalized[held[i].cell] = 0
      BY <2>1 DEF HeldInv
    <3>2. held[i].cell # 0
      BY <2>1 DEF HeldInv, StatementsTypeOK
    <3> QED
      BY <3>1, <3>2
  <2>3. stmt # NoPointer => Pointee(stmt) # 0 /\ finalized[Pointee(stmt)] = 0
    <3> HAVE stmt # NoPointer
    <3>1. /\ stmt.array = Len(arrays) /\ stmt.cell = size /\ size \in 1 .. size
          /\ finalized[size] = 0
      BY <2>1 DEF StmtInv, StatementsTypeOK
    <3>2. arrays[Len(arrays)][size] = size
      BY <2>1, <3>1 DEF CellsNumbered, Last
    <3> QED
      BY <3>1, <3>2 DEF Pointee
  <2> QED
    BY <2>2, <2>3 DEF NoUseAfterFinalize
<1> QED
  BY <1>1, StatementsInvInit, StatementsInvStep, PTL DEF StatementsSpec
=============================================================================
