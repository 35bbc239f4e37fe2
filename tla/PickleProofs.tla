---------------------------- MODULE PickleProofs ----------------------------
(***************************************************************************)
(* What exec builds, for every file: stacks, memos and objects of any      *)
(* number and size.                                                        *)
(***************************************************************************)
EXTENDS Pickle, SequenceTheorems, WellFoundedInduction, TLAPS

(* Where some of the first n numbers are meant, one is the least and one the
   greatest. *)
LEMMA LeastIs ==
    ASSUME NEW n \in Nat, NEW S \in SUBSET (1 .. n), S # {}
    PROVE  Min(S) \in S /\ \A i \in S : Min(S) <= i
<1> DEFINE R == OpToRel(<, Nat)
<1>1. IsWellFoundedOn(R, Nat)
  BY NatLessThanWellFounded
<1>2. S \subseteq Nat
  OBVIOUS
<1>3. PICK d \in S : \A e \in S : ~(<<e, d>> \in R)
  <2> HIDE DEF R
  <2> QED
    BY <1>1, <1>2, WFMin
<1>4. \A e \in S : d <= e
  <2>1. \A e \in S : ~(e < d)
    BY <1>2, <1>3 DEF OpToRel
  <2> QED
    BY <1>2, <2>1
<1> QED
  BY <1>4 DEF Min

LEMMA GreatestIs ==
    ASSUME NEW n \in Nat, NEW S \in SUBSET (1 .. n), S # {}
    PROVE  Max(S) \in S /\ \A i \in S : Max(S) >= i
<1> DEFINE T == {d \in 1 .. n : (n + 1) - d \in S}
<1>1. T \in SUBSET (1 .. n)
  OBVIOUS
<1>2. PICK i \in S : TRUE
  OBVIOUS
<1>3. (n + 1) - i \in T
  BY <1>2
<1>4. T # {}
  BY <1>3
<1> HIDE DEF T
<1>5. Min(T) \in T /\ \A e \in T : Min(T) <= e
  BY <1>1, <1>4, LeastIs
<1>6. PICK d \in T : \A e \in T : d <= e
  BY <1>5
<1>7. ASSUME NEW j \in S PROVE (n + 1) - d >= j
  <2>1. (n + 1) - j \in T
    BY <1>7 DEF T
  <2> QED
    BY <2>1, <1>1, <1>6
<1>8. (n + 1) - d \in S
  BY <1>6 DEF T
<1> QED
  BY <1>7, <1>8 DEF Max

(* popUntilMark finds the topmost mark if there is one. *)
LEMMA LastMarkIs ==
    ASSUME PickleInv, HasMark
    PROVE  /\ LastMark \in 1 .. sp /\ cells[LastMark].kind = "mark"
           /\ \A i \in LastMark + 1 .. sp : cells[i].kind # "mark"
<1> DEFINE S == {i \in 1 .. sp : cells[i].kind = "mark"}
<1>1. sp \in Nat
  BY LenProperties DEF PickleInv
<1>2. S # {} /\ S \in SUBSET (1 .. sp)
  BY DEF HasMark
<1>3. LastMark \in S /\ \A i \in S : LastMark >= i
  <2> HIDE DEF S
  <2>1. Max(S) \in S /\ \A i \in S : Max(S) >= i
    BY <1>1, <1>2, GreatestIs
  <2> QED
    BY <2>1 DEF LastMark, S
<1> QED
  BY <1>1, <1>3

(* What the opcodes that go on leave of the objects there are: none changes its
   kind, and only lists, dicts and sets change, without losing an item or a key. *)
HeapGrows ==
    /\ heap' \in Seq(Built)
    /\ \A o \in DOMAIN heap' :
         heap'[o].kind = "dict" => Len(heap'[o].items) % 2 = 0
    /\ DOMAIN heap \subseteq DOMAIN heap'
    /\ \A o \in DOMAIN heap :
         /\ heap'[o].kind = heap[o].kind
         /\ Keeps(heap[o].kind, heap[o].items, heap'[o].items)
         /\ heap[o].kind \notin Mutable => heap'[o].items = heap[o].items

LEMMA RefersStill ==
    ASSUME HeapGrows, NEW v, Refers(v)
    PROVE  Refers(v)'
BY DEF HeapGrows, Refers

(* append, on a slice with what others left behind it. *)
LEMMA PushProperties ==
    ASSUME NEW c \in Seq(Pushed), NEW n \in 0 .. Len(c), NEW v \in Pushed
    PROVE  /\ Push(c, n, v) \in Seq(Pushed) /\ n + 1 \in 0 .. Len(Push(c, n, v))
           /\ \A i \in DOMAIN Push(c, n, v) :
                \/ Push(c, n, v)[i] = v
                \/ i \in DOMAIN c /\ Push(c, n, v)[i] = c[i]
<1>1. Len(c) \in Nat /\ DOMAIN c = 1 .. Len(c) /\ n \in Nat /\ n <= Len(c)
  BY LenProperties
<1>2. CASE n < Len(c)
  <2>1. Push(c, n, v) = [c EXCEPT ![n + 1] = v]
    BY <1>2 DEF Push
  <2>2. n + 1 \in 1 .. Len(c)
    BY <1>1, <1>2
  <2>3. Push(c, n, v) \in Seq(Pushed) /\ Len(Push(c, n, v)) = Len(c)
    BY <2>1, <2>2, ExceptSeq
  <2>4. DOMAIN Push(c, n, v) = DOMAIN c
    BY <2>1
  <2> QED
    BY <1>1, <2>1, <2>2, <2>3, <2>4
<1>3. CASE n = Len(c)
  <2>1. Push(c, n, v) = Append(c, v) /\ n = Len(c)
    <3>1. ~(n < Len(c))
      BY <1>1, <1>3
    <3> QED
      BY <3>1, <1>3, Zenon DEF Push
  <2>2. /\ Append(c, v) \in Seq(Pushed) /\ Len(Append(c, v)) = Len(c) + 1
        /\ \A i \in 1 .. Len(c) : Append(c, v)[i] = c[i]
        /\ Append(c, v)[Len(c) + 1] = v
    BY AppendProperties
  <2>3. DOMAIN Append(c, v) = 1 .. Len(c) + 1
    BY <2>2, LenProperties
  <2>4. \A i \in 1 .. Len(c) + 1 : i \in 1 .. Len(c) \/ i = Len(c) + 1
    BY <1>1
  <2> QED
    BY <1>1, <2>1, <2>2, <2>3, <2>4
<1>4. n < Len(c) \/ n = Len(c)
  <2>1. \A k \in Nat, m \in Nat : k <= m => k < m \/ k = m
    OBVIOUS
  <2> QED
    BY <1>1, <2>1, Zenon
<1> QED
  BY <1>2, <1>3, <1>4

(* A push, with or without pops before it. *)
LEMMA ReplaceStep ==
    ASSUME PickleInv, HeapGrows, NEW n \in 0 .. sp, NEW v \in Pushed, Refers(v)',
           Replace(n, v), memo' = memo, result' = result
    PROVE  PickleInv'
<1>1. /\ cells \in Seq(Pushed) /\ Len(cells) \in Nat /\ sp \in Nat
      /\ sp <= Len(cells) /\ n \in Nat /\ n <= sp
  BY LenProperties DEF PickleInv
<1>2. cells' = Push(cells, sp - n, v) /\ sp' = (sp - n) + 1
  BY <1>1 DEF Replace
<1>3. sp - n \in 0 .. Len(cells)
  BY <1>1
<1>4. /\ cells' \in Seq(Pushed) /\ sp' \in 0 .. Len(cells')
      /\ \A i \in DOMAIN cells' :
           \/ cells'[i] = v
           \/ i \in DOMAIN cells /\ cells'[i] = cells[i]
  BY <1>1, <1>2, <1>3, PushProperties
<1>5. ASSUME NEW i \in DOMAIN cells' PROVE Refers(cells[i])'
  <2>1. CASE cells'[i] = v
    BY <2>1 DEF Refers
  <2>2. CASE i \in DOMAIN cells /\ cells'[i] = cells[i]
    <3>1. PICK c : c = cells[i]
      OBVIOUS
    <3>2. Refers(c)'
      BY <2>2, <3>1, RefersStill DEF PickleInv
    <3> QED
      BY <2>2, <3>1, <3>2 DEF Refers
  <2> QED
    BY <1>4, <2>1, <2>2
<1>6. ASSUME NEW i \in DOMAIN memo' PROVE Refers(memo[i])'
  <2>1. PICK c : c = memo[i]
    OBVIOUS
  <2>2. Refers(c)'
    BY <2>1, RefersStill DEF PickleInv
  <2> QED
    BY <2>1, <2>2 DEF Refers
<1> QED
  BY <1>4, <1>5, <1>6 DEF PickleInv, HeapGrows

(* Pops, and what is taken is not needed on the stack any more. *)
LEMMA PopStep ==
    ASSUME PickleInv, HeapGrows, cells' = cells, sp' \in 0 .. sp,
           memo' = memo, result' = result
    PROVE  PickleInv'
<1>1. ASSUME NEW i \in DOMAIN cells' PROVE Refers(cells[i])'
  <2>1. PICK c : c = cells[i]
    OBVIOUS
  <2>2. Refers(c)'
    BY <2>1, RefersStill DEF PickleInv
  <2> QED
    BY <2>1, <2>2 DEF Refers
<1>2. ASSUME NEW i \in DOMAIN memo' PROVE Refers(memo[i])'
  <2>1. PICK c : c = memo[i]
    OBVIOUS
  <2>2. Refers(c)'
    BY <2>1, RefersStill DEF PickleInv
  <2> QED
    BY <2>1, <2>2 DEF Refers
<1>3. sp' \in 0 .. Len(cells')
  BY LenProperties DEF PickleInv
<1> QED
  BY <1>1, <1>2, <1>3 DEF PickleInv, HeapGrows

(* An object that is new. *)
LEMMA CreateStep ==
    ASSUME PickleInv, NEW n \in 0 .. sp, NEW kind \in Containers,
           NEW items \in Seq(Unmarked), kind = "dict" => Len(items) % 2 = 0,
           Create(n, kind, items),
           memo' = memo, result' = result
    PROVE  PickleInv' /\ HeapGrows
<1> DEFINE b == \A i \in DOMAIN items : Hashable(items[i])
           o == [kind |-> kind, items |-> items, shared |-> NotShared,
                 hashable |-> b]
<1>1. b \in BOOLEAN
  OBVIOUS
<1>2. heap \in Seq(Built) /\ Len(heap) \in Nat /\ DOMAIN heap = 1 .. Len(heap)
  BY LenProperties DEF PickleInv
<1>3. heap' = Append(heap, o) /\ Replace(n, Value(kind, Len(heap) + 1))
  BY DEF Create, Object
<1> HIDE DEF b
<1>4. o \in Built /\ o.kind = kind /\ o.items = items
  BY <1>1 DEF Built
<1> HIDE DEF o
<1>5. /\ heap' \in Seq(Built) /\ Len(heap') = Len(heap) + 1
      /\ \A i \in 1 .. Len(heap) : heap'[i] = heap[i]
      /\ heap'[Len(heap) + 1] = o
  BY <1>2, <1>3, <1>4, AppendProperties
<1>6. DOMAIN heap' = 1 .. Len(heap) + 1
  BY <1>5, LenProperties
<1>7. HeapGrows
  <2>1. ASSUME NEW i \in DOMAIN heap'
        PROVE  heap'[i].kind = "dict" => Len(heap'[i].items) % 2 = 0
    <3>1. CASE i \in DOMAIN heap
      BY <3>1, <1>2, <1>5 DEF PickleInv
    <3>2. CASE i = Len(heap) + 1
      BY <3>2, <1>4, <1>5
    <3>3. \A k \in 1 .. Len(heap) + 1 : k \in 1 .. Len(heap) \/ k = Len(heap) + 1
      BY <1>2
    <3> QED
      BY <3>1, <3>2, <3>3, <1>2, <1>6
  <2>2. \A i \in DOMAIN heap : i \in DOMAIN heap' /\ heap'[i] = heap[i]
    BY <1>2, <1>5, <1>6
  <2> QED
    BY <1>5, <2>1, <2>2 DEF HeapGrows, Keeps
<1>8. PICK v : v = Value(kind, Len(heap) + 1)
  OBVIOUS
<1>9. v \in Pushed /\ v.kind = kind /\ v.ref = Len(heap) + 1
  BY <1>2, <1>8 DEF Value, Pushed
<1>10. Refers(v)'
  BY <1>2, <1>4, <1>5, <1>6, <1>9 DEF Refers
<1> QED
  BY <1>3, <1>7, <1>8, <1>9, <1>10, ReplaceStep

(* A list, a dict or a set has other items, but none of the old ones is lost. *)
LEMMA ItemsStep ==
    ASSUME PickleInv, NEW v, v.kind \in Mutable, Refers(v),
           NEW all \in Seq(Unmarked), Keeps(v.kind, heap[v.ref].items, all),
           v.kind = "dict" => Len(all) % 2 = 0,
           heap' = [heap EXCEPT ![v.ref].items = all],
           cells' = cells, sp' \in 0 .. sp, memo' = memo, result' = result
    PROVE  PickleInv' /\ HeapGrows
<1> DEFINE r == v.ref
           new == [heap[r] EXCEPT !.items = all]
<1>0. Keeps(v.kind, heap[r].items, all)
  OBVIOUS
<1>1. /\ heap \in Seq(Built) /\ Len(heap) \in Nat /\ DOMAIN heap = 1 .. Len(heap)
      /\ r \in DOMAIN heap /\ heap[r].kind = v.kind
  BY LenProperties DEF PickleInv, Refers, Containers
<1>2. heap' = [heap EXCEPT ![r] = new]
  OBVIOUS
<1> HIDE DEF r
<1>3. heap[r] \in Built
  BY <1>1, ElementOfSeq
<1>4. new \in Built /\ new.kind = v.kind /\ new.items = all
  BY <1>1, <1>3 DEF Built
<1> HIDE DEF new
<1>5. /\ heap' \in Seq(Built) /\ DOMAIN heap' = DOMAIN heap /\ heap'[r] = new
      /\ \A i \in DOMAIN heap : i # r => heap'[i] = heap[i]
  <2>1. [heap EXCEPT ![r] = new] \in Seq(Built)
    BY <1>1, <1>4, ExceptSeq
  <2> QED
    BY <1>1, <1>2, <2>1, Zenon
<1>6. HeapGrows
  <2>1. ASSUME NEW i \in DOMAIN heap
        PROVE  /\ heap'[i].kind = "dict" => Len(heap'[i].items) % 2 = 0
               /\ heap'[i].kind = heap[i].kind
               /\ Keeps(heap[i].kind, heap[i].items, heap'[i].items)
               /\ heap[i].kind \notin Mutable => heap'[i].items = heap[i].items
    <3>1. CASE i = r
      BY <3>1, <1>0, <1>1, <1>4, <1>5
    <3>2. CASE i # r
      BY <3>2, <1>5 DEF PickleInv, Keeps
    <3> QED
      BY <3>1, <3>2
  <2> QED
    BY <1>5, <2>1 DEF HeapGrows
<1> QED
  BY <1>6, PopStep

(* More items for a list. *)
LEMMA ExtendStep ==
    ASSUME PickleInv, NEW v, v.kind = "list", Refers(v),
           NEW items \in Seq(Unmarked), Extend(v, items),
           cells' = cells, sp' \in 0 .. sp, memo' = memo, result' = result
    PROVE  PickleInv' /\ HeapGrows
<1> DEFINE old == heap[v.ref].items
           all == old \o items
<1>1. heap \in Seq(Built) /\ v.ref \in DOMAIN heap
  BY DEF PickleInv, Refers, Containers, Mutable
<1>2. heap[v.ref] \in Built
  BY <1>1, ElementOfSeq, LenProperties
<1>3. old \in Seq(Unmarked)
  BY <1>2 DEF Built
<1>4. heap' = [heap EXCEPT ![v.ref].items = all]
  BY DEF Extend
<1>5. all \in Seq(Unmarked) /\ Keeps(v.kind, old, all)
  <2> HIDE DEF old
  <2>1. /\ all \in Seq(Unmarked) /\ Len(all) = Len(old) + Len(items)
        /\ \A i \in 1 .. Len(old) : all[i] = old[i]
    BY <1>3, ConcatProperties
  <2>2. /\ DOMAIN old = 1 .. Len(old) /\ Len(old) \in Nat /\ Len(items) \in Nat
        /\ DOMAIN all = 1 .. Len(all)
    BY <1>3, <2>1, LenProperties
  <2> HIDE DEF all
  <2> QED
    BY <2>1, <2>2 DEF Keeps
<1> HIDE DEF all
<1>6. v.kind \in Mutable /\ v.kind # "dict"
  BY DEF Mutable
<1> QED
  BY <1>4, <1>5, <1>6, ItemsStep

(* Keys are at the odd places, and every one has its value behind it. *)
LEMMA OddEven ==
    ASSUME NEW p \in Nat, NEW n \in Nat, n % 2 = 0
    PROVE  /\ p % 2 = 0 \/ p % 2 = 1
           /\ p % 2 = 0 /\ p > 0 => (p - 1) % 2 = 1
           /\ p % 2 = 0 /\ p - 1 <= n => p <= n
           /\ p % 2 = 1 /\ p <= n => p + 1 <= n
OBVIOUS

(* What Enter makes of the items of a dict or a set. *)
LEMMA UpdatedIs ==
    ASSUME NEW kind \in {"dict", "set"},
           NEW old \in Seq(Unmarked), NEW items \in Seq(Unmarked),
           NEW size \in Len(old) .. Len(old) + Len(items),
           NEW at \in [Keys(kind, Len(items)) -> Keys(kind, size)],
           kind = "dict" => /\ Len(old) % 2 = 0 /\ Len(items) % 2 = 0
                            /\ size % 2 = 0,
           \A p \in Keys(kind, size) : p > Len(old) => Writers(at, p) # {}
    PROVE  /\ Updated(kind, old, items, size, at) \in Seq(Unmarked)
           /\ Len(Updated(kind, old, items, size, at)) = size
           /\ Keeps(kind, old, Updated(kind, old, items, size, at))
<1> DEFINE new == Updated(kind, old, items, size, at)
<1>1. /\ Len(old) \in Nat /\ Len(items) \in Nat /\ size \in Nat
      /\ Len(old) <= size /\ DOMAIN old = 1 .. Len(old)
  BY LenProperties
<1>2. /\ \A i \in 1 .. Len(old) : old[i] \in Unmarked
      /\ \A i \in 1 .. Len(items) : items[i] \in Unmarked
  BY ElementOfSeq
<1>3. ASSUME NEW p \in Int
      PROVE  Writers(at, p) \in SUBSET (1 .. Len(items))
  BY DEF Writers, Keys
<1>4. ASSUME NEW p \in Int, Writers(at, p) # {}
      PROVE  /\ items[Min(Writers(at, p))] \in Unmarked
             /\ Max(Writers(at, p)) \in Writers(at, p)
  BY <1>1, <1>2, <1>3, <1>4, LeastIs, GreatestIs
<1>5. ASSUME NEW p \in 1 .. size PROVE new[p] \in Unmarked
  <2>1. CASE IsKey(kind, p)
    <3>1. p \in Keys(kind, size)
      BY <2>1 DEF Keys
    <3>2. CASE p \in DOMAIN old
      BY <2>1, <3>2, <1>1, <1>2 DEF Updated
    <3>3. CASE p \notin DOMAIN old
      <4>1. Writers(at, p) # {}
        BY <3>1, <3>3, <1>1
      <4>2. new[p] = items[Min(Writers(at, p))]
        BY <2>1, <3>3 DEF Updated
      <4> QED
        BY <4>1, <4>2, <1>4
    <3> QED
      BY <3>2, <3>3
  <2>2. CASE ~IsKey(kind, p)
    <3>1. kind = "dict" /\ p % 2 = 0 /\ p \in Nat /\ p > 0 /\ p <= size
      BY <2>2, <1>1, OddEven DEF IsKey
    <3>2. p - 1 \in Keys(kind, size)
      <4>1. (p - 1) % 2 = 1
        BY <3>1, <1>1, OddEven
      <4>2. p - 1 \in 1 .. size
        <5>1. p # 1
          BY <3>1
        <5> QED
          BY <5>1, <3>1, <1>1
      <4> QED
        BY <4>1, <4>2 DEF Keys, IsKey
    <3>3. CASE Writers(at, p - 1) = {}
      <4>1. p - 1 <= Len(old)
        BY <3>2, <3>3, <1>1
      <4>2. p \in 1 .. Len(old)
        <5>1. p <= Len(old)
          BY <4>1, <3>1, <1>1, OddEven
        <5> QED
          BY <5>1, <3>1, <1>1
      <4>3. new[p] = old[p]
        BY <2>2, <3>3 DEF Updated
      <4> QED
        BY <4>2, <4>3, <1>2
    <3>4. CASE Writers(at, p - 1) # {}
      <4>1. PICK i : i = Max(Writers(at, p - 1))
        OBVIOUS
      <4>2. i \in 1 .. Len(items) /\ i % 2 = 1
        <5>1. p - 1 \in Int
          BY <3>1
        <5>2. i \in Writers(at, p - 1)
          BY <3>4, <4>1, <5>1, <1>4
        <5>3. i \in Keys(kind, Len(items))
          BY <5>2 DEF Writers
        <5> QED
          BY <5>3, <3>1 DEF Keys, IsKey
      <4>3. i + 1 \in 1 .. Len(items)
        <5>1. i \in Nat /\ i <= Len(items)
          BY <4>2, <1>1
        <5>2. i + 1 <= Len(items)
          BY <5>1, <4>2, <3>1, <1>1, OddEven
        <5> QED
          BY <5>1, <5>2, <1>1
      <4>4. new[p] = items[i + 1]
        BY <2>2, <3>4, <4>1 DEF Updated
      <4> QED
        BY <4>3, <4>4, <1>2
    <3> QED
      BY <3>3, <3>4
  <2> QED
    BY <2>1, <2>2
<1>6. DOMAIN new = 1 .. size
  BY DEF Updated
<1>7. new = [p \in 1 .. size |-> new[p]]
  BY <1>6 DEF Updated
<1>8. Keeps(kind, old, new)
  BY <1>1 DEF Keeps, Updated
<1> HIDE DEF new
<1>9. new \in Seq(Unmarked)
  <2>1. [p \in 1 .. size |-> new[p]] \in Seq(Unmarked)
    BY <1>1, <1>5, IsASeq
  <2> QED
    BY <1>7, <2>1
<1>10. Len(new) = size
  BY <1>1, <1>6, <1>9, LenProperties
<1> QED
  BY <1>8, <1>9, <1>10 DEF new

(* More items, or other values, for a dict or a set. *)
LEMMA EnterStep ==
    ASSUME PickleInv, NEW v, v.kind \in {"dict", "set"}, Refers(v),
           NEW items \in Seq(Unmarked), v.kind = "dict" => Len(items) % 2 = 0,
           Enter(v, items),
           cells' = cells, sp' \in 0 .. sp, memo' = memo, result' = result
    PROVE  PickleInv' /\ HeapGrows
<1> DEFINE old == heap[v.ref].items
<1>1. /\ heap \in Seq(Built) /\ v.ref \in DOMAIN heap
      /\ heap[v.ref].kind = v.kind
  BY DEF PickleInv, Refers, Containers, Mutable
<1>2. heap[v.ref] \in Built
  BY <1>1, ElementOfSeq, LenProperties
<1>3. old \in Seq(Unmarked) /\ (v.kind = "dict" => Len(old) % 2 = 0)
  BY <1>1, <1>2 DEF Built, PickleInv
<1>4. PICK size \in Len(old) .. Len(old) + Len(items) :
      \E at \in [Keys(v.kind, Len(items)) -> Keys(v.kind, size)] :
        /\ v.kind = "dict" => size % 2 = 0
        /\ \A p \in Keys(v.kind, size) : p > Len(old) => Writers(at, p) # {}
        /\ heap' = [heap EXCEPT ![v.ref].items =
                       Updated(v.kind, old, items, size, at)]
  BY DEF Enter
<1>5. PICK at \in [Keys(v.kind, Len(items)) -> Keys(v.kind, size)] :
        /\ v.kind = "dict" => size % 2 = 0
        /\ \A p \in Keys(v.kind, size) : p > Len(old) => Writers(at, p) # {}
        /\ heap' = [heap EXCEPT ![v.ref].items =
                       Updated(v.kind, old, items, size, at)]
  BY <1>4
<1> DEFINE all == Updated(v.kind, old, items, size, at)
<1>6. all \in Seq(Unmarked) /\ Len(all) = size /\ Keeps(v.kind, old, all)
  <2>1. PICK kind : kind = v.kind
    OBVIOUS
  <2>2. PICK o : o = old
    OBVIOUS
  <2> HIDE DEF old
  <2>3. /\ Updated(kind, o, items, size, at) \in Seq(Unmarked)
        /\ Len(Updated(kind, o, items, size, at)) = size
        /\ Keeps(kind, o, Updated(kind, o, items, size, at))
    BY <1>3, <1>5, <2>1, <2>2, UpdatedIs
  <2> QED
    BY <2>1, <2>2, <2>3
<1>7. heap' = [heap EXCEPT ![v.ref].items = all]
  BY <1>5
<1>8. v.kind = "dict" => Len(all) % 2 = 0
  BY <1>5, <1>6
<1> HIDE DEF all
<1>9. v.kind \in Mutable
  BY DEF Mutable
<1> QED
  BY <1>6, <1>7, <1>8, <1>9, ItemsStep

(* Where no object changes. *)
LEMMA SameHeap ==
    ASSUME PickleInv, heap' = heap
    PROVE  HeapGrows
BY DEF PickleInv, HeapGrows, Keeps

(* pop refuses marks, so what n pops take has none. *)
LEMMA PoppedUnmarked ==
    ASSUME PickleInv, NEW n \in Nat, CanPop(n)
    PROVE  Popped(n) \in Seq(Unmarked) /\ n \in 0 .. sp
<1>1. /\ cells \in Seq(Pushed) /\ Len(cells) \in Nat /\ sp \in Nat
      /\ sp <= Len(cells) /\ sp >= n
  BY LenProperties DEF PickleInv, CanPop
<1>2. ASSUME NEW i \in sp - n + 1 .. sp PROVE cells[i] \in Unmarked
  <2>1. i \in 1 .. Len(cells) /\ sp - i \in 0 .. n - 1 /\ sp - (sp - i) = i
    BY <1>1
  <2>2. cells[i] \in Pushed
    BY <1>1, <2>1, ElementOfSeq
  <2>3. cells[i].kind # "mark"
    BY <2>1 DEF CanPop, Top
  <2> QED
    BY <2>2, <2>3 DEF Pushed, Unmarked
<1>3. sp - n + 1 \in Int /\ sp \in Int
  BY <1>1
<1> QED
  BY <1>1, <1>2, <1>3, SubSeqProperties DEF Popped

(* popUntilMark takes what lies above the topmost mark. *)
LEMMA ItemsUnmarked ==
    ASSUME PickleInv, HasMark
    PROVE  /\ Items \in Seq(Unmarked) /\ Taken \in 0 .. sp
           /\ LastMark > 1 => LastMark - 1 \in DOMAIN cells
<1>1. /\ cells \in Seq(Pushed) /\ Len(cells) \in Nat /\ sp \in Nat
      /\ sp <= Len(cells) /\ DOMAIN cells = 1 .. Len(cells)
  BY LenProperties DEF PickleInv
<1>2. LastMark \in 1 .. sp
  BY LastMarkIs
<1>3. ASSUME NEW i \in LastMark + 1 .. sp PROVE cells[i] \in Unmarked
  <2>1. i \in 1 .. Len(cells)
    BY <1>1, <1>2
  <2>2. cells[i] \in Pushed
    BY <1>1, <2>1, ElementOfSeq
  <2>3. cells[i].kind # "mark"
    BY LastMarkIs
  <2> QED
    BY <2>2, <2>3 DEF Pushed, Unmarked
<1>4. LastMark + 1 \in Int /\ sp \in Int
  BY <1>1, <1>2
<1>5. Items \in Seq(Unmarked)
  BY <1>3, <1>4, SubSeqProperties DEF Items
<1> QED
  BY <1>1, <1>2, <1>5 DEF Taken

(* The first state. *)
LEMMA PickleInvInit == PickleInit => PickleInv
<1> SUFFICES ASSUME PickleInit PROVE PickleInv
  OBVIOUS
<1>1. Nothing \in Unmarked
  BY DEF Nothing, Value, Unmarked
<1> QED
  BY <1>1 DEF PickleInit, PickleInv

(* A scalar or a mark is pushed. *)
LEMMA PushStep ==
    ASSUME PickleInv, NEW n \in 0 .. sp, NEW kind \in Scalar \cup {"mark"},
           Replace(n, Value(kind, 0)), UNCHANGED <<memo, heap, result>>
    PROVE  PickleInv' /\ HeapGrows
<1>1. HeapGrows
  BY SameHeap
<1>2. PICK v : v = Value(kind, 0)
  OBVIOUS
<1>3. v \in Pushed /\ v.kind \notin Containers
  BY <1>2 DEF Value, Pushed, Scalar, Containers, Mutable
<1>4. Refers(v)'
  BY <1>3 DEF Refers
<1> QED
  BY <1>1, <1>2, <1>3, <1>4, ReplaceStep

(* What popUntilMark took goes to the value below the mark. *)
LEMMA TakeStep ==
    ASSUME PickleInv, NEW kind \in Mutable, HasTarget(kind), TakeItems,
           kind = "list" => Extend(Target, Items),
           kind # "list" => Enter(Target, Items),
           kind = "dict" => Len(Items) % 2 = 0,
           result' = result
    PROVE  PickleInv' /\ HeapGrows
<1>1. HasMark /\ LastMark > 1 /\ Target.kind = kind
  BY DEF HasTarget
<1>2. Items \in Seq(Unmarked) /\ Taken \in 0 .. sp /\ LastMark - 1 \in DOMAIN cells
  BY <1>1, ItemsUnmarked
<1>3. Refers(Target)
  BY <1>2 DEF PickleInv, Target
<1>4. sp' \in 0 .. sp /\ cells' = cells /\ memo' = memo
  <2>1. sp \in Nat
    BY LenProperties DEF PickleInv
  <2> QED
    BY <1>2, <2>1 DEF TakeItems
<1>5. PICK v, items : v = Target /\ items = Items
  OBVIOUS
<1>6. /\ kind = "list" => Extend(v, items)
      /\ kind # "list" => Enter(v, items)
      /\ kind = "dict" => Len(items) % 2 = 0
  BY <1>5
<1>7. kind = "list" \/ kind \in {"dict", "set"}
  BY DEF Mutable
<1>8. v.kind = kind /\ Refers(v) /\ items \in Seq(Unmarked)
  BY <1>1, <1>2, <1>3, <1>5
<1>9. CASE kind = "list"
  BY <1>4, <1>6, <1>8, <1>9, ExtendStep
<1>10. CASE kind \in {"dict", "set"}
  BY <1>4, <1>6, <1>8, <1>10, EnterStep
<1> QED
  BY <1>7, <1>9, <1>10

(* Every opcode keeps the invariant, and while exec goes on no object loses an
   item or a key. *)
LEMMA PickleInvStep ==
    ASSUME PickleInv, PickleNext
    PROVE  PickleInv' /\ (outcome' # "run" \/ HeapGrows)
<1>0. 0 \in 0 .. sp /\ sp \in Nat /\ Len(cells) \in Nat
      /\ DOMAIN cells = 1 .. Len(cells) /\ sp <= Len(cells)
  BY LenProperties DEF PickleInv
<1>1. ASSUME NEW kind \in {"none", "int", "str"}, PushScalar(kind)
      PROVE  PickleInv' /\ HeapGrows
  BY <1>0, <1>1, PushStep DEF PushScalar, Opcode, Scalar
<1>2. CASE PushMark
  BY <1>0, <1>2, PushStep DEF PushMark, Opcode
<1>3. ASSUME NEW kind \in Mutable \cup {"tuple"}, PushEmpty(kind)
      PROVE  PickleInv' /\ HeapGrows
  <2>1. <<>> \in Seq(Unmarked) /\ kind \in Containers /\ Len(<<>>) % 2 = 0
    BY DEF Containers
  <2> QED
    BY <1>0, <1>3, <2>1, CreateStep DEF PushEmpty, Opcode
<1>4. ASSUME NEW n \in 1 .. 3, PushTuple(n)
      PROVE  PickleInv' /\ HeapGrows
  <2>1. /\ CanPop(n) /\ Create(n, "tuple", Popped(n)) /\ memo' = memo
        /\ result' = result
    BY <1>4 DEF PushTuple, Opcode
  <2>2. Popped(n) \in Seq(Unmarked) /\ n \in 0 .. sp
    BY <2>1, PoppedUnmarked
  <2>3. "tuple" \in Containers
    BY DEF Containers
  <2> QED
    BY <2>1, <2>2, <2>3, CreateStep
<1>5. CASE StackGlobal
  <2>1. CanPop(2) /\ Replace(2, Value("symbol", 0)) /\ UNCHANGED <<memo, heap, result>>
    BY <1>5 DEF StackGlobal, Opcode
  <2>2. 2 \in 0 .. sp
    BY <2>1, PoppedUnmarked
  <2>3. "symbol" \in Scalar
    BY DEF Scalar
  <2> QED
    BY <2>1, <2>2, <2>3, PushStep
<1>6. CASE NewObj
  <2>1. /\ CanPop(2) /\ Create(2, "object", Popped(2)) /\ memo' = memo
        /\ result' = result
    BY <1>6 DEF NewObj, Opcode
  <2>2. Popped(2) \in Seq(Unmarked) /\ 2 \in 0 .. sp
    BY <2>1, PoppedUnmarked
  <2>3. "object" \in Containers
    BY DEF Containers
  <2> QED
    BY <2>1, <2>2, <2>3, CreateStep
<1>7. CASE Memoize
  <2>1. /\ sp > 0 /\ memo' = Append(memo, Top(0))
        /\ UNCHANGED <<cells, sp, heap, result>>
    BY <1>7 DEF Memoize, Opcode
  <2>2. HeapGrows
    BY <2>1, SameHeap
  <2>3. PICK t : t = cells[sp]
    OBVIOUS
  <2>4. sp \in DOMAIN cells /\ t = Top(0)
    BY <1>0, <2>1, <2>3 DEF Top
  <2>5. t \in Pushed /\ Refers(t)
    <3>1. t \in Pushed
      BY <1>0, <2>3, <2>4, ElementOfSeq DEF PickleInv
    <3> QED
      BY <3>1, <2>3, <2>4 DEF PickleInv
  <2>6. memo \in Seq(Pushed) /\ memo' = Append(memo, t)
    BY <2>1, <2>4 DEF PickleInv
  <2>7. /\ memo' \in Seq(Pushed) /\ Len(memo') = Len(memo) + 1
        /\ \A i \in 1 .. Len(memo) : memo'[i] = memo[i]
        /\ memo'[Len(memo) + 1] = t
    BY <2>5, <2>6, AppendProperties
  <2>8. /\ DOMAIN memo = 1 .. Len(memo) /\ DOMAIN memo' = 1 .. Len(memo) + 1
        /\ Len(memo) \in Nat
    BY <2>6, <2>7, LenProperties
  <2>9. ASSUME NEW i \in DOMAIN memo' PROVE Refers(memo'[i])
    <3>1. CASE i \in DOMAIN memo
      BY <3>1, <2>7, <2>8 DEF PickleInv
    <3>2. CASE i = Len(memo) + 1
      BY <3>2, <2>5, <2>7
    <3> QED
      BY <3>1, <3>2, <2>8
  <2> QED
    BY <2>1, <2>2, <2>7, <2>9 DEF PickleInv, Refers
<1>8. ASSUME NEW i \in 1 .. MaxOpcodes, PushMemo(i)
      PROVE  PickleInv' /\ HeapGrows
  <2>1. i \in DOMAIN memo /\ Replace(0, memo[i]) /\ UNCHANGED <<memo, heap, result>>
    BY <1>8 DEF PushMemo, Opcode
  <2>2. HeapGrows
    BY <2>1, SameHeap
  <2>3. PICK v : v = memo[i]
    OBVIOUS
  <2>4. v \in Pushed /\ Refers(v)
    <3>1. v \in Pushed
      BY <2>1, <2>3, ElementOfSeq, LenProperties DEF PickleInv
    <3> QED
      BY <3>1, <2>1, <2>3 DEF PickleInv
  <2>5. Refers(v)'
    BY <2>2, <2>4, RefersStill
  <2> QED
    BY <1>0, <2>1, <2>2, <2>3, <2>4, <2>5, ReplaceStep
<1>9. CASE AppendItem
  <2>1. /\ CanPop(1) /\ sp > 1 /\ Top(1).kind = "list" /\ Extend(Top(1), Popped(1))
        /\ sp' = sp - 1 /\ UNCHANGED <<cells, memo, result>>
    BY <1>9 DEF AppendItem, Opcode
  <2>2. PICK v, items : v = Top(1) /\ items = Popped(1)
    OBVIOUS
  <2>3. items \in Seq(Unmarked)
    BY <2>1, <2>2, PoppedUnmarked
  <2>4. Refers(v) /\ v.kind = "list"
    <3>1. sp - 1 \in DOMAIN cells
      BY <1>0, <2>1
    <3> QED
      BY <3>1, <2>1, <2>2 DEF PickleInv, Top
  <2>5. sp' \in 0 .. sp /\ Extend(v, items)
    BY <1>0, <2>1, <2>2 DEF Extend
  <2> QED
    BY <2>1, <2>3, <2>4, <2>5, ExtendStep
<1>10. CASE SetItem
  <2>1. /\ CanPop(2) /\ sp > 2 /\ Top(2).kind = "dict" /\ Enter(Top(2), Popped(2))
        /\ sp' = sp - 2 /\ UNCHANGED <<cells, memo, result>>
    BY <1>10 DEF SetItem, Opcode
  <2>2. PICK v, items : v = Top(2) /\ items = Popped(2)
    OBVIOUS
  <2>3. items \in Seq(Unmarked) /\ Len(items) % 2 = 0
    <3>1. items \in Seq(Unmarked)
      BY <2>1, <2>2, PoppedUnmarked
    <3>2. Len(items) = 2
      BY <1>0, <2>1, <2>2, SubSeqProperties DEF Popped, CanPop
    <3> QED
      BY <3>1, <3>2
  <2>4. Refers(v) /\ v.kind = "dict"
    <3>1. sp - 2 \in DOMAIN cells
      BY <1>0, <2>1
    <3> QED
      BY <3>1, <2>1, <2>2 DEF PickleInv, Top
  <2>5. sp' \in 0 .. sp
    BY <1>0, <2>1
  <2>6. Enter(v, items)
    BY <2>1, <2>2, Zenon
  <2> QED
    BY <2>1, <2>3, <2>4, <2>5, <2>6, EnterStep
<1>11. CASE Tuple
  <2>1. HasMark /\ Create(Taken, "tuple", Items) /\ memo' = memo /\ result' = result
    BY <1>11 DEF Tuple, TupleItems, Opcode
  <2>2. Items \in Seq(Unmarked) /\ Taken \in 0 .. sp
    BY <2>1, ItemsUnmarked
  <2>3. "tuple" \in Containers
    BY DEF Containers
  <2>4. PICK items, n : items = Items /\ n = Taken
    OBVIOUS
  <2>5. Create(n, "tuple", items)
    BY <2>1, <2>4
  <2> QED
    BY <2>1, <2>2, <2>3, <2>4, <2>5, CreateStep
<1>12. CASE Appends
  BY <1>12, TakeStep DEF Appends, Opcode, Mutable
<1>13. CASE AddItems
  BY <1>13, TakeStep DEF AddItems, Opcode, Mutable
<1>14. CASE SetItems
  BY <1>14, TakeStep DEF SetItems, Opcode, Mutable
<1>15. CASE Stop
  <2>1. /\ CanPop(1) /\ outcome' = "value" /\ result' = cells[sp]
        /\ UNCHANGED <<cells, sp, memo, heap>>
    BY <1>0, <1>15 DEF Stop, Top
  <2>2. result' \in Unmarked
    <3>1. sp \in 1 .. Len(cells)
      BY <1>0, <1>15 DEF Stop
    <3>2. cells[sp] \in Pushed
      BY <3>1, ElementOfSeq DEF PickleInv
    <3>3. cells[sp].kind # "mark"
      BY <1>0, <2>1 DEF CanPop, Top
    <3> QED
      BY <2>1, <3>2, <3>3 DEF Pushed, Unmarked
  <2> QED
    BY <2>1, <2>2 DEF PickleInv, Refers
<1>16. CASE Fail \/ KeyPanic
  <2>1. /\ outcome' # "run" /\ cells' = <<>> /\ sp' = 0 /\ memo' = <<>>
        /\ heap' = <<>> /\ result' = result
    BY <1>16 DEF Fail, KeyPanic, End
  <2>2. PickleInv'
    BY <2>1 DEF PickleInv
  <2> QED
    BY <2>1, <2>2
<1> QED
  BY <1>1, <1>2, <1>3, <1>4, <1>5, <1>6, <1>7, <1>8, <1>9, <1>10, <1>11, <1>12,
     <1>13, <1>14, <1>15, <1>16 DEF PickleNext

(* The invariant holds. *)
LEMMA PickleInvHolds == PickleSpec => []PickleInv
<1>1. ASSUME PickleInv, UNCHANGED pickleVars PROVE PickleInv'
  BY <1>1 DEF pickleVars, PickleInv, Refers
<1>2. PickleInv /\ [PickleNext]_pickleVars => PickleInv'
  BY <1>1, PickleInvStep
<1> QED
  BY <1>2, PickleInvInit, PTL DEF PickleSpec

(* No object shares cells of the stack, so it has the items it was given. *)
LEMMA ItemsOfIs ==
    ASSUME PickleInv, NEW o \in DOMAIN heap
    PROVE  ItemsOf(o) = heap[o].items /\ heap[o].items \in Seq(Unmarked)
<1>1. heap[o] \in Built
  BY ElementOfSeq, LenProperties DEF PickleInv
<1>2. heap[o].shared = NotShared /\ heap[o].items \in Seq(Unmarked)
  BY <1>1 DEF Built
<1>3. SubSeq(cells, 1, 0) = <<>>
  BY SubSeqEmpty
<1> QED
  BY <1>2, <1>3, ConcatEmptySeq DEF ItemsOf, NotShared

(* For every file: no list, dict, set, tuple or object that exec builds holds a
   mark, and exec returns none, although MEMOIZE and BINGET copy marks (vm.go). *)
THEOREM NoMarkEscapes == PickleSpec => []MarksNeverEscape
<1>1. PickleInv => MarksNeverEscape
  <2> SUFFICES ASSUME PickleInv PROVE MarksNeverEscape
    OBVIOUS
  <2>1. \A v \in Unmarked : v.kind # "mark"
    BY DEF Unmarked, Scalar, Containers, Mutable
  <2>2. ASSUME NEW o \in DOMAIN heap, NEW i \in DOMAIN ItemsOf(o)
        PROVE  ItemsOf(o)[i] \in Unmarked
    BY ItemsOfIs, ElementOfSeq, LenProperties
  <2>3. result \in Unmarked
    BY DEF PickleInv
  <2> QED
    BY <2>1, <2>2, <2>3 DEF MarksNeverEscape
<1> QED
  BY <1>1, PickleInvHolds, PTL

(* For every file: what an opcode has built does not change when the cells it
   was built from are pushed over; a tuple or an object never does, a list or a
   set only gets more items, and a dict more keys or other values for the ones it
   has (popUntilMark and its callers in vm.go). *)
THEOREM BuiltValuesGrow == PickleSpec => ValuesOnlyGrow
<1> DEFINE Grows ==
      \A o \in DOMAIN heap : outcome' # "run" \/
         /\ Keeps(heap[o].kind, ItemsOf(o), ItemsOf(o)')
         /\ heap[o].kind \notin Mutable => ItemsOf(o)' = ItemsOf(o)
<1>1. PickleInv => \A o \in DOMAIN heap : ItemsOf(o) = heap[o].items
  BY ItemsOfIs
<1>2. (PickleInv => \A o \in DOMAIN heap : ItemsOf(o) = heap[o].items)'
  BY <1>1, PTL
<1>3. PickleInv /\ [PickleNext]_pickleVars => [Grows]_pickleVars
  <2> SUFFICES ASSUME PickleInv, PickleNext, outcome' = "run", NEW o \in DOMAIN heap
               PROVE  /\ Keeps(heap[o].kind, ItemsOf(o), ItemsOf(o)')
                      /\ heap[o].kind \notin Mutable => ItemsOf(o)' = ItemsOf(o)
    OBVIOUS
  <2>1. PickleInv' /\ HeapGrows
    BY PickleInvStep
  <2>2. ItemsOf(o) = heap[o].items
    BY ItemsOfIs
  <2>3. ItemsOf(o)' = heap'[o].items
    <3>1. o \in DOMAIN heap'
      BY <2>1 DEF HeapGrows
    <3> QED
      BY <2>1, <3>1, <1>2
  <2> QED
    BY <2>1, <2>2, <2>3 DEF HeapGrows
<1>4. ValuesOnlyGrow <=> [][Grows]_pickleVars
  BY DEF ValuesOnlyGrow
<1> HIDE DEF Grows
<1> QED
  BY <1>3, <1>4, PickleInvHolds, PTL DEF PickleSpec
=============================================================================
