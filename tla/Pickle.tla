------------------------------- MODULE Pickle -------------------------------
(***************************************************************************)
(* The pickle machine (internal/pickle/vm.go) that reads the .archipelago  *)
(* file: one action per group of opcodes that do the same, on any file.    *)
(*                                                                         *)
(* The stack is a Go slice: cells up to sp are on it, and cells above are  *)
(* what earlier values left there until a push overwrites them.            *)
(* popUntilMark returns a slice of such cells, so what an opcode keeps of  *)
(* it must be a copy.                                                      *)
(*                                                                         *)
(* A value is its kind, and for containers a reference into the heap.  Of  *)
(* a dict the heap keeps keys and values in turn.  Which numbers, strings  *)
(* and so on are equal is left open.                                       *)
(***************************************************************************)
EXTENDS Integers, Sequences, FiniteSets, FiniteSetsExt, SequencesExt

CONSTANTS
    MaxOpcodes,     \* bound: opcodes executed
    MaxSize,    \* bound: values on the stack
    MaxObjects, \* bound: lists, dicts, sets, tuples and objects
    MaxMemo     \* bound: values in the memo

Scalar == {"none", "int", "str", "symbol"}
Mutable == {"list", "dict", "set"}
Value(kind, ref) == [kind |-> kind, ref |-> ref]

VARIABLES
    cells, sp,  \* the array of vm.stack, and its length
    memo,       \* vm.memo
    heap,       \* lists, dicts, sets, tuples and objects
    outcome,    \* "run", or how exec ended
    result,     \* what exec returned
    ops         \* how many opcodes were executed

pickleVars ==
    <<cells, sp, memo, heap, outcome, result, ops>>

Nothing == Value("nothing", 0)

-----------------------------------------------------------------------------
(* The stack. *)

Top(k) == cells[sp - k]

(* pop, n times, refuses marks. *)
CanPop(n) == sp >= n /\ \A k \in 0 .. n - 1 : Top(k).kind # "mark"

(* The values that n pops take, the deepest first. *)
Popped(n) == SubSeq(cells, sp - n + 1, sp)

(* append(vm.stack[:n], v): it overwrites what lies there. *)
Push(c, n, v) == IF n < Len(c) THEN [c EXCEPT ![n + 1] = v] ELSE Append(c, v)

(* n values are popped and v is pushed. *)
Replace(n, v) ==
    /\ sp - n < MaxSize
    /\ cells' = Push(cells, sp - n, v)
    /\ sp' = sp - n + 1

\* Mutant of LastMark.
FirstMark == Min({i \in 1 .. sp : cells[i].kind = "mark"})
LastMark == Max({i \in 1 .. sp : cells[i].kind = "mark"})
HasMark == \E i \in 1 .. sp : cells[i].kind = "mark"

-----------------------------------------------------------------------------
(* The heap. *)

(* What Go can hash: a list is a pointer, a dict or a set is a map. *)
Hashable(v) ==
    /\ v.kind \notin {"dict", "set"}
    /\ v.kind \in {"tuple", "object"} => heap[v.ref].hashable

(* An object has items of its own, or shares cells of the stack (none does). *)
NotShared == [from |-> 1, to |-> 0]
Object(kind, items, shared) ==
    [kind |-> kind, items |-> items, shared |-> shared,
     hashable |-> \A i \in DOMAIN items : Hashable(items[i])]
ItemsOf(o) ==
    heap[o].items \o SubSeq(cells, heap[o].shared.from, heap[o].shared.to)

(* A new object replaces the n topmost values. *)
Create(n, kind, items) ==
    /\ Len(heap) < MaxObjects
    /\ heap' = Append(heap, Object(kind, items, NotShared))
    /\ Replace(n, Value(kind, Len(heap) + 1))

(* A list gets more items. *)
Extend(v, items) == heap' = [heap EXCEPT ![v.ref].items = @ \o items]

(* Where the keys are among n items of a dict or a set. *)
IsKey(kind, i) == kind = "dict" => i % 2 = 1
Keys(kind, n) == {i \in 1 .. n : IsKey(kind, i)}

(* Whether Go may, and whether it must, find two keys equal: lists are pointers,
   everything else is compared by what it is. *)
MayEqual(v, w) == v.kind = w.kind /\ (v.kind = "list" => v = w)
MustEqual(v, w) == v = w /\ v.kind \notin {"int", "str", "symbol"}

(* Items are put into a dict or a set one after the other: the key with number i
   gets to place at[i], where an equal one stays as it is, and the last value put
   there replaces the ones before. *)
Writers(at, p) == {i \in DOMAIN at : at[i] = p}
Updated(kind, old, items, size, at) ==
    [p \in 1 .. size |->
       IF IsKey(kind, p)
       THEN IF p \in DOMAIN old THEN old[p] ELSE items[Min(Writers(at, p))]
       ELSE IF Writers(at, p - 1) = {} THEN old[p]
            ELSE items[Max(Writers(at, p - 1)) + 1]]

(* No key is there twice. *)
KeysDiffer(kind, items, at, new) ==
    \A i \in DOMAIN at : \A p \in Keys(kind, Len(new)) :
        /\ at[i] = p => MayEqual(new[p], items[i])
        /\ at[i] # p => ~MustEqual(new[p], items[i])

Enter(v, items) ==
    LET old == heap[v.ref].items
    IN  \E size \in Len(old) .. Len(old) + Len(items) :
        \E at \in [Keys(v.kind, Len(items)) -> Keys(v.kind, size)] :
          LET new == Updated(v.kind, old, items, size, at)
          IN  /\ v.kind = "dict" => size % 2 = 0
              /\ \A p \in Keys(v.kind, size) :
                     p > Len(old) => Writers(at, p) # {}
              /\ KeysDiffer(v.kind, items, at, new)
              /\ heap' = [heap EXCEPT ![v.ref].items = new]

(* checkDictKey; a tuple may hold what cannot be hashed. *)
ValidKey(v) == v.kind \in {"int", "str", "tuple"}

-----------------------------------------------------------------------------
(* exec *)

Opcode ==
    /\ outcome = "run"
    /\ ops < MaxOpcodes
    /\ ops' = ops + 1
    /\ UNCHANGED <<outcome, result>>

(* NONE, NEWTRUE, NEWFALSE, BININT*, *BINUNICODE*; a bool is as good a key as
   an int. *)
PushScalar(kind) ==
    /\ Opcode
    /\ Replace(0, Value(kind, 0))
    /\ UNCHANGED <<memo, heap>>

PushMark ==
    /\ Opcode
    /\ Replace(0, Value("mark", 0))
    /\ UNCHANGED <<memo, heap>>

(* EMPTY_LIST, EMPTY_DICT, EMPTY_SET, EMPTY_TUPLE. *)
PushEmpty(kind) ==
    /\ Opcode
    /\ Create(0, kind, <<>>)
    /\ UNCHANGED memo

(* TUPLE1, TUPLE2, TUPLE3. *)
PushTuple(n) ==
    /\ Opcode
    /\ CanPop(n)
    /\ Create(n, "tuple", Popped(n))
    /\ UNCHANGED memo

(* STACK_GLOBAL *)
StackGlobal ==
    /\ Opcode
    /\ CanPop(2) /\ Top(0).kind = "str" /\ Top(1).kind = "str"
    /\ Replace(2, Value("symbol", 0))
    /\ UNCHANGED <<memo, heap>>

(* REDUCE and NEWOBJ: the class may be anything. *)
NewObj ==
    /\ Opcode
    /\ CanPop(2) /\ Top(0).kind = "tuple"
    /\ Create(2, "object", Popped(2))
    /\ UNCHANGED memo

(* MEMOIZE looks at the top without popping it, so a mark gets in as well. *)
Memoize ==
    /\ Opcode
    /\ sp > 0 /\ Len(memo) < MaxMemo
    /\ memo' = Append(memo, Top(0))
    /\ UNCHANGED <<cells, sp, heap>>

(* BINGET, LONG_BINGET *)
PushMemo(i) ==
    /\ Opcode
    /\ i \in DOMAIN memo
    /\ Replace(0, memo[i])
    /\ UNCHANGED <<memo, heap>>

(* APPEND *)
AppendItem ==
    /\ Opcode
    /\ CanPop(1) /\ sp > 1 /\ Top(1).kind = "list"
    /\ Extend(Top(1), Popped(1))
    /\ sp' = sp - 1
    /\ UNCHANGED <<cells, memo>>

(* SETITEM *)
SetItem ==
    /\ Opcode
    /\ CanPop(2) /\ ValidKey(Top(1)) /\ Hashable(Top(1))
    /\ sp > 2 /\ Top(2).kind = "dict"
    /\ Enter(Top(2), Popped(2))
    /\ sp' = sp - 2
    /\ UNCHANGED <<cells, memo>>

(* popUntilMark: what it returns, how many values it takes off the stack, and
   the value that is on top then. *)
Items == SubSeq(cells, LastMark + 1, sp)
Taken == sp - LastMark + 1
Target == cells[LastMark - 1]
HasTarget(kind) == HasMark /\ LastMark > 1 /\ Target.kind = kind

(* TUPLE *)
\* Mutant of TupleItems.
TupleOfSlice ==
    /\ Len(heap) < MaxObjects
    /\ heap' = Append(heap, [Object("tuple", Items, NotShared) EXCEPT
                              !.items = <<>>,
                              !.shared = [from |-> LastMark + 1, to |-> sp]])
    /\ Replace(Taken, Value("tuple", Len(heap) + 1))
TupleItems == Create(Taken, "tuple", Items)

Tuple ==
    /\ Opcode
    /\ HasMark
    /\ TupleItems
    /\ UNCHANGED memo

TakeItems ==
    /\ sp' = sp - Taken
    /\ UNCHANGED <<cells, memo>>

(* APPENDS *)
Appends ==
    /\ Opcode
    /\ HasTarget("list")
    /\ Extend(Target, Items)
    /\ TakeItems

(* ADDITEMS *)
AddItems ==
    /\ Opcode
    /\ HasTarget("set")
    /\ \A i \in DOMAIN Items : Hashable(Items[i])
    /\ Enter(Target, Items)
    /\ TakeItems

(* SETITEMS *)
SetItems ==
    /\ Opcode
    /\ HasTarget("dict") /\ Len(Items) % 2 = 0
    /\ \A i \in Keys("dict", Len(Items)) : ValidKey(Items[i]) /\ Hashable(Items[i])
    /\ Enter(Target, Items)
    /\ TakeItems

(* STOP *)
Stop ==
    /\ outcome = "run"
    /\ CanPop(1) /\ sp = 1
    /\ outcome' = "value"
    /\ result' = Top(0)
    /\ UNCHANGED <<cells, sp, memo, heap, ops>>

(* exec ends without a value, and nothing of the machine is left. *)
End(why) ==
    /\ outcome = "run"
    /\ outcome' = why
    /\ cells' = <<>> /\ sp' = 0
    /\ memo' = <<>> /\ heap' = <<>>
    /\ ops' = 0
    /\ UNCHANGED result

(* The file ends, has an invalid opcode, or one whose operands do not fit. *)
Fail == End("error")

(* A map cannot be a key: Go panics, in a set whatever the item is, in a dict
   when a tuple hides it from checkDictKey. *)
KeyPanic ==
    /\ ops < MaxOpcodes
    /\ \/ HasTarget("set") /\ \E i \in DOMAIN Items : ~Hashable(Items[i])
       \/ /\ HasTarget("dict") /\ Len(Items) % 2 = 0
          /\ \E i \in Keys("dict", Len(Items)) :
               /\ ~Hashable(Items[i])
               /\ \A j \in Keys("dict", Len(Items)) : j <= i => ValidKey(Items[j])
       \/ /\ CanPop(2) /\ ValidKey(Top(1)) /\ ~Hashable(Top(1))
          /\ sp > 2 /\ Top(2).kind = "dict"
    /\ End("panic")

-----------------------------------------------------------------------------
PickleInit ==
    /\ cells = <<>> /\ sp = 0
    /\ memo = <<>> /\ heap = <<>>
    /\ outcome = "run" /\ result = Nothing
    /\ ops = 0

PickleNext ==
    \/ \E kind \in {"none", "int", "str"} : PushScalar(kind)
    \/ PushMark
    \/ \E kind \in Mutable \cup {"tuple"} : PushEmpty(kind)
    \/ \E n \in 1 .. 3 : PushTuple(n)
    \/ StackGlobal \/ NewObj
    \/ Memoize
    \/ \E i \in 1 .. MaxOpcodes : PushMemo(i)
    \/ AppendItem \/ SetItem
    \/ Tuple \/ Appends \/ AddItems \/ SetItems
    \/ Stop \/ Fail \/ KeyPanic

PickleSpec == PickleInit /\ [][PickleNext]_pickleVars

-----------------------------------------------------------------------------
(* Properties. *)

(* Marks are a matter of the stack (and of the memo, which can bring them back):
   whatever the file says, no list, dict, set, tuple or object holds one, and
   exec returns none.  bind, which knows nothing of marks, relies on it. *)
MarksNeverEscape ==
    /\ \A o \in DOMAIN heap :
         \A i \in DOMAIN ItemsOf(o) : ItemsOf(o)[i].kind # "mark"
    /\ result.kind # "mark"

(* What an opcode has built stays as it is, whatever is pushed over the cells
   of the stack it was built from: a tuple or an object never changes, lists and
   sets only get more items, and so do dicts, where a key may get another value,
   but only of what the opcode takes from the stack. *)
Keeps(kind, old, new) ==
    \A i \in DOMAIN old :
        i \in DOMAIN new /\ (IsKey(kind, i) => new[i] = old[i])

ValuesOnlyGrow ==
    [][\A o \in DOMAIN heap : outcome' # "run" \/
          /\ Keeps(heap[o].kind, ItemsOf(o), ItemsOf(o)')
          /\ heap[o].kind \notin Mutable => ItemsOf(o)' = ItemsOf(o)]_pickleVars

-----------------------------------------------------------------------------
(* The invariant behind both: an object has all its items to itself, and none
   is a mark; a value on the stack (or left behind above it) or in the memo
   says of the object it refers to what kind that is; and a dict has a value for
   every key. *)
Containers == Mutable \cup {"tuple", "object"}
Unmarked == [kind : Scalar \cup Containers \cup {"nothing"}, ref : Nat]
Pushed == [kind : Scalar \cup Containers \cup {"mark"}, ref : Nat]
Built ==
    [kind : Containers, items : Seq(Unmarked), shared : {NotShared},
     hashable : BOOLEAN]

Refers(v) ==
    v.kind \in Containers => v.ref \in DOMAIN heap /\ heap[v.ref].kind = v.kind

PickleInv ==
    /\ cells \in Seq(Pushed) /\ sp \in 0 .. Len(cells)
    /\ memo \in Seq(Pushed)
    /\ heap \in Seq(Built) /\ result \in Unmarked
    /\ \A o \in DOMAIN heap : heap[o].kind = "dict" => Len(heap[o].items) % 2 = 0
    /\ \A i \in DOMAIN cells : Refers(cells[i])
    /\ \A i \in DOMAIN memo : Refers(memo[i])
=============================================================================
