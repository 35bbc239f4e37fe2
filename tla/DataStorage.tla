---------------------------- MODULE DataStorage ----------------------------
(***************************************************************************)
(* The key-value store that AP clients share (cmd/isthmus/apdatastorage.go *)
(* and the Set, SetNotify and Get cases of play.go): a Set runs a chain of *)
(* operations on one key, the table ap_data_storage keeps the outcome over *)
(* sessions, and a session watches keys.                                   *)
(*                                                                         *)
(* A JSON value is a record of its kind and its content.  Numbers are      *)
(* integers, and NaN, which JSON has no word for, is NotFinite: only mod   *)
(* makes it, and overflow to an infinity is left out.                      *)
(***************************************************************************)
EXTENDS Integers, Sequences, FiniteSetsExt, SequencesExt, Functions

CONSTANTS
    Key,           \* the keys
    ReadOnly,      \* the ones with the prefix _read_, which clients cannot set
    Default,       \* values of the field default of Set
    Operation,     \* the operations clients send
    MaxOps,        \* bound: operations in one Set
    MaxNumber,     \* bound: numbers that are stored
    MaxLen         \* bound: elements in a list that is stored

ASSUME StorageAssumption ==
    /\ ReadOnly \subseteq Key
    /\ MaxOps \in Nat /\ MaxNumber \in Nat /\ MaxLen \in Nat

-----------------------------------------------------------------------------
Json(kind, val) == [kind |-> kind, val |-> val]
Null == Json("null", 0)
NotFinite == Json("nan", 0)
Num(n) == Json("num", n)

Op(name, value) == [name |-> name, value |-> value]

(* Clients send JSON, and a list is a sequence. *)
JsonKind == {"null", "bool", "num", "str", "list", "dict"}
IsJson(v) ==
    /\ v = Json(v.kind, v.val) /\ v.kind \in JsonKind
    /\ v.kind = "list" => v.val \in Seq(ToSet(v.val))

ASSUME ClientsSendJson ==
    /\ \A default \in Default : IsJson(default)
    /\ \A op \in Operation : IsJson(op.value)

(* The two's complement of a word of so many bits stands for an int64. *)
Bits == 4
Word(n) == n % 2^Bits
Signed(n) == IF n < 2^(Bits - 1) THEN n ELSE n - 2^Bits
Bit(n, i) == (Word(n) \div 2^i) % 2
BitByBit(f(_, _), a, b) ==
    MapThenSumSet(LAMBDA i : f(Bit(a, i), Bit(b, i)) * 2^i, 0 .. Bits - 1)

Ok(v) == [end |-> "ok", val |-> v]
Error == [end |-> "error", val |-> Null]
Panic == [end |-> "panic", val |-> Null]

MathOps == {"mul", "pow", "mod", "floor", "ceil", "max", "min", "and", "or",
            "xor", "left_shift", "right_shift"}

(* math.Mod keeps the sign of the first operand. *)
Mod(a, b) == IF a < 0 THEN -((-a) % b) ELSE a % b
Abs(n) == IF n < 0 THEN -n ELSE n

(* The functions that are given to mathOp, on two integers (the second of pow is
   positive). *)
Compute(name, a, b) ==
    CASE name = "mul" -> Ok(Num(a * b))
      [] name = "pow" -> Ok(Num(a^b))
      [] name = "mod" -> Ok(IF b = 0 THEN NotFinite ELSE Num(Mod(a, Abs(b))))
      [] name \in {"floor", "ceil"} -> Ok(Num(a))
      [] name = "max" -> Ok(Num(IF a > b THEN a ELSE b))
      [] name = "min" -> Ok(Num(IF a < b THEN a ELSE b))
      [] name = "and" ->
           Ok(Num(Signed(BitByBit(LAMBDA x, y : x * y, a, b))))
      [] name = "or" ->
           Ok(Num(Signed(BitByBit(LAMBDA x, y : x + y - x * y, a, b))))
      [] name = "xor" ->
           Ok(Num(Signed(BitByBit(LAMBDA x, y : (x + y) % 2, a, b))))
      [] name = "left_shift" ->
           IF b < 0 THEN Panic ELSE Ok(Num(Signed(Word(a * 2^b))))
      [] name = "right_shift" ->
           IF b < 0 THEN Panic ELSE Ok(Num(a \div 2^b))

mathOp(name, a, b) ==
    CASE a.kind = "num" /\ b.kind = "num" -> Compute(name, a.val, b.val)
      [] a.kind = "nan" /\ b.kind = "num" -> Ok(NotFinite)
      [] OTHER -> Error

-----------------------------------------------------------------------------
(* What an operation makes of the current value; last is what the operation
   before it made, or nil. *)

Add(orig, v, last) ==
    CASE orig.kind = "num" /\ v.kind = "num" -> Ok(Num(orig.val + v.val))
      [] orig.kind = "nan" /\ v.kind = "num" -> Ok(NotFinite)
      [] orig.kind = "list" /\ v.kind = "list" ->
           Ok(Json("list", orig.val \o v.val))
      [] orig.kind \in {"num", "nan", "list"} -> Error
      [] OTHER -> Ok(last)      \* the error is set, and overwritten later

Without(orig, v) ==
    IF orig.kind = "list" /\ v.kind \in {"num", "str"}
    THEN Ok(Json("list", IF Contains(orig.val, v)
                         THEN RemoveFirst(orig.val, v) ELSE orig.val))
    ELSE Error

Pop(orig, v) ==
    CASE orig.kind = "list" /\ v.kind = "num" ->
           Ok(Json("list", IF v.val + 1 \in DOMAIN orig.val
                           THEN RemoveAt(orig.val, v.val + 1) ELSE orig.val))
      [] orig.kind = "dict" /\ v.kind = "str" ->
           Ok(Json("dict", Restrict(orig.val, DOMAIN orig.val \ {v.val})))
      [] OTHER -> Error

Update(orig, v) ==
    IF orig.kind = "dict" /\ v.kind = "dict"
    THEN Ok(Json("dict", [k \in DOMAIN orig.val \cup DOMAIN v.val |->
                            IF k \in DOMAIN v.val THEN v.val[k]
                            ELSE orig.val[k]]))
    ELSE Error

(* A Set as it runs: its key; origVal, newVal and found; how it has ended so
   far; what is in msg.Default now, and whether origVal is the same map or a
   slice of the same array: operations change those in place.  The rest is
   history: what the client sent as default, the number of operations, and
   whether remove, pop or update has changed a value that shares its storage. *)
Begin(k, orig, found, default) ==
    [key |-> k, orig |-> orig, new |-> Null, found |-> found, end |-> "ok",
     default |-> default, shared |-> ~found,
     sent |-> default, ops |-> 0, touched |-> FALSE]

Outcome(s, op) ==
    CASE op.name = "replace" -> Ok(op.value)
      [] op.name = "default" -> Ok(IF s.found THEN s.orig ELSE s.default)
      [] op.name = "add" -> Add(s.orig, op.value, s.new)
      [] op.name = "remove" -> Without(s.orig, op.value)
      [] op.name = "pop" -> Pop(s.orig, op.value)
      [] op.name = "update" -> Update(s.orig, op.value)
      [] op.name \in MathOps -> mathOp(op.name, s.orig, op.value)
      [] OTHER -> Error

(* The capacity of a list in msg.Default, which encoding/json has made by
   appending one element after the other. *)
Capacity(n) == Min({c \in {0} \cup {2^i : i \in 0 .. n} : c >= n})

(* append and slices.Delete write to the array that the default still shows;
   slices.Delete sets the element behind the last one to nil. *)
Overlay(list, start) ==
    [i \in DOMAIN list |-> IF i \in DOMAIN start THEN start[i] ELSE list[i]]

Appended(s, op) == op.name = "add" /\ s.orig.kind = "list"
Fits(s, v) == Len(v.val) <= Capacity(Len(s.default.val))

DefaultAfter(s, op, v) ==
    CASE s.shared /\ op.name \in {"pop", "update"} /\ s.orig.kind = "dict" -> v
      [] /\ s.shared /\ op.name \in {"pop", "remove"}
         /\ s.orig.kind = "list" /\ v # s.orig ->
           Json("list", Overlay(s.default.val, Append(v.val, Null)))
      [] s.shared /\ Appended(s, op) /\ Fits(s, v) ->
           Json("list", Overlay(s.default.val, v.val))
      [] OTHER -> s.default
SharedAfter(s, op, v) ==
    CASE op.name = "default" -> s.shared \/ ~s.found
      [] op.name = "replace" -> FALSE
      [] Appended(s, op) -> s.shared /\ Fits(s, v)
      [] OTHER -> s.shared

InPlace == {"remove", "pop", "update"}
ChangesShared(s, op, v) == s.shared /\ op.name \in InPlace /\ v # s.orig

\* Mutant of Step.
StepFromOriginal(s, op) ==
    LET out == Outcome(s, op) IN
    [s EXCEPT !.new = out.val, !.end = out.end, !.ops = @ + 1]
Step(s, op) ==
    LET out == Outcome(s, op)
        v == out.val
    IN  IF out.end # "ok" THEN [s EXCEPT !.end = out.end, !.ops = @ + 1]
        ELSE [s EXCEPT !.orig = v, !.new = v,
                       !.found = @ \/ op.name = "default",
                       !.default = DefaultAfter(s, op, v),
                       !.shared = SharedAfter(s, op, v),
                       !.ops = @ + 1,
                       !.touched = @ \/ ChangesShared(s, op, v)]

(* json.Marshal refuses numbers that are not finite. *)
Marshal(s) ==
    CASE s.end # "ok" -> [end |-> s.end, val |-> Null]
      [] s.end = "ok" /\ s.new = NotFinite -> Error
      [] OTHER -> Ok(s.new)

-----------------------------------------------------------------------------
VARIABLES
    table,         \* ap_data_storage by key; dataStorage for the read-only ones
    watchedKeys,
    known,         \* client: what it was told of the keys it watches
    chain          \* the Set that runs, or Idle

vars == <<table, watchedKeys, known, chain>>

Idle == [end |-> "idle"]
Absent == Json("absent", 0)
Unknown == Json("unknown", 0)
Unsaved == Json("unsaved", 0)      \* a value that was told, and not stored
Fixed == Json("fixed", 0)
AsJson(v) == IF v = Absent THEN Null ELSE v

InBounds(v) ==
    /\ v.kind = "num" => v.val \in -MaxNumber .. MaxNumber
    /\ v.kind = "list" => Len(v.val) <= MaxLen

(* updateDataStorage, which refuses a read-only key before it does anything. *)
BeginSet(k, default) ==
    /\ chain = Idle /\ k \notin ReadOnly
    /\ LET found == table[k] # Absent
       IN  chain' = Begin(k, IF found THEN table[k] ELSE default, found, default)
    /\ UNCHANGED <<table, watchedKeys, known>>

(* An operation on bits of a number that is not finite is left out, since what
   int64 makes of NaN depends on the machine. *)
OnBits == {"and", "or", "xor", "left_shift", "right_shift"}
Covered(s, op) == ~(s.orig = NotFinite /\ op.name \in OnBits)

(* One round of its loop. *)
Operate(op) ==
    /\ chain.end = "ok" /\ chain.ops < MaxOps
    /\ Covered(chain, op)
    /\ chain' = Step(chain, op)
    /\ UNCHANGED <<table, watchedKeys, known>>

(* The outcome of a Set is stored and told to a client that asks for it or
   watches the key. *)
\* Mutant of Tells.
TellsOnRequest(k, wantReply) == wantReply
Tells(k, wantReply) == wantReply \/ k \in watchedKeys

SetReply(k, v, wantReply) ==
    known' = IF Tells(k, wantReply) /\ k \in watchedKeys
             THEN [known EXCEPT ![k] = v] ELSE known

Store(k, out, wantReply) ==
    /\ out.end = "ok" /\ InBounds(out.val)
    /\ table' = [table EXCEPT ![k] = out.val]
    /\ SetReply(k, out.val, wantReply)
    /\ UNCHANGED watchedKeys

(* The error of setStoredData is dropped: the client is told all the same. *)
StoreFails(k, out, wantReply) ==
    /\ out.end = "ok" /\ InBounds(out.val)
    /\ SetReply(k, Unsaved, wantReply)
    /\ UNCHANGED <<table, watchedKeys>>

(* The connection or the process ends, and with it the Set that runs; the table
   stays. *)
SessionEnds ==
    /\ watchedKeys' = {}
    /\ known' = [k \in Key |-> Unknown]
    /\ chain' = Idle
    /\ UNCHANGED table

(* A negative shift panics, which ends the process. *)
SetPanics(out) ==
    /\ out.end = "panic"
    /\ SessionEnds

(* A Set that fails is logged and forgotten. *)
SetFails(out) ==
    /\ out.end = "error"
    /\ UNCHANGED <<table, watchedKeys, known>>

(* There are no operations left, or one has failed; and what follows in the main
   loop. *)
EndSet ==
    /\ chain # Idle
    /\ chain' = Idle
    /\ LET out == Marshal(chain)
       IN  \/ \E wantReply \in BOOLEAN :
                Store(chain.key, out, wantReply)
                  \/ StoreFails(chain.key, out, wantReply)
           \/ SetPanics(out)
           \/ SetFails(out)

SetNotify(K) ==
    /\ chain = Idle
    /\ watchedKeys' = watchedKeys \cup K
    /\ UNCHANGED <<table, known, chain>>

Get(K) ==
    /\ chain = Idle
    /\ known' = [k \in Key |-> IF k \in K \cap watchedKeys THEN AsJson(table[k])
                              ELSE known[k]]
    /\ UNCHANGED <<table, watchedKeys, chain>>

Init ==
    /\ table = [k \in Key |-> IF k \in ReadOnly THEN Fixed ELSE Absent]
    /\ watchedKeys = {}
    /\ known = [k \in Key |-> Unknown]
    /\ chain = Idle

Next ==
    \/ \E k \in Key, default \in Default : BeginSet(k, default)
    \/ \E op \in Operation : Operate(op)
    \/ EndSet
    \/ \E K \in SUBSET Key : SetNotify(K) \/ Get(K)
    \/ SessionEnds

Spec == Init /\ [][Next]_vars

-----------------------------------------------------------------------------
(* Properties. *)

(* What a client was told of a key it watches, by Get or by SetReply, is what
   the table holds, through any Sets that succeed, fail or panic, unless the
   error of setStoredData was dropped. *)
WatcherInSync ==
    \A k \in watchedKeys : known[k] \in {Unknown, Unsaved, AsJson(table[k])}

(* One more operation in a chain comes to what it comes to in a Set of its own, on
   a key that holds what the chain has made so far: the same value, or the same
   failure.  The exceptions, each with what happens instead:
   - a default behind other operations on a key that is not stored goes back to
     the default: as the client sent it, or, if remove, pop or update has
     changed a value that shares its storage, of the same kind and, for a list,
     with as many elements (add may write to the same array, and it never
     shows);
   - behind NaN, which by itself would not have been stored, the chain fails
     unless it is replaced;
   - an add to what is neither a number nor a list keeps what the chain has made,
     where by itself it stores null.
   A chain that fails stores nothing (SetFails, SetPanics), whereas by themselves
   the operations before the one that fails would have been stored. *)
GoesBack(s, op) == ~s.found /\ op.name = "default"
Misfit(v, op) == op.name = "add" /\ v.kind \notin {"num", "list"}
SameShape(v, w) ==
    v.kind = w.kind /\ (w.kind = "list" => DOMAIN v.val = DOMAIN w.val)

ChainInSequence ==
    chain.end = "ok" =>
    (chain.ops > 0 =>
     \A op \in Operation : Covered(chain, op) =>
        LET goingOn == Marshal(Step(chain, op))
            anew == Marshal(Step(Begin(chain.key, chain.new, TRUE, chain.sent), op))
        IN  /\ GoesBack(chain, op) =>
                 IF chain.touched
                 THEN goingOn.end = "ok" /\ SameShape(goingOn.val, chain.sent)
                 ELSE goingOn = Ok(chain.sent)
            /\ ~GoesBack(chain, op) =>
                 IF chain.new = NotFinite
                 THEN goingOn = IF op.name = "replace" THEN Ok(op.value) ELSE Error
                 ELSE IF Misfit(chain.new, op)
                      THEN goingOn = Ok(chain.new) /\ anew = Ok(Null)
                      ELSE goingOn = anew)

-----------------------------------------------------------------------------
(* The invariant behind both.  A Set that runs makes JSON or NaN, and its two
   values are the same after each operation.  The default keeps its shape, and is
   what was sent as long as nothing was changed in place; a dictionary that is
   shared is the default, and a list that shares its array begins with it. *)
Proper(v) == v.kind \in JsonKind \/ v = NotFinite

Running(s) ==
    /\ s = [key |-> s.key, orig |-> s.orig, new |-> s.new, found |-> s.found,
            end |-> s.end, default |-> s.default, shared |-> s.shared,
            sent |-> s.sent, ops |-> s.ops, touched |-> s.touched]
    /\ s.key \in Key \ ReadOnly /\ s.end \in {"ok", "error", "panic"}
    /\ s.sent \in Default /\ s.ops \in Nat
    /\ {s.found, s.shared, s.touched} \subseteq BOOLEAN
    /\ Proper(s.orig) /\ Proper(s.new) /\ Proper(s.default)

BeginsWith(list, start) ==
    /\ list \in Seq(ToSet(list)) /\ Len(start) <= Len(list)
    /\ \A i \in DOMAIN start : list[i] = start[i]

ChainInv(s) ==
    /\ IF s.ops = 0 THEN s.new = Null ELSE s.end = "ok" => s.new = s.orig
    /\ SameShape(s.default, s.sent) /\ s.default.kind # "nan"
    /\ ~s.touched => s.default = s.sent
    /\ s.shared /\ s.orig.kind = "dict" => s.orig = s.default
    /\ s.shared /\ s.orig.kind = "list" =>
         /\ s.sent.kind = "list"
         /\ ~s.touched => BeginsWith(s.orig.val, s.sent.val)

StorageInv ==
    /\ DOMAIN table = Key /\ DOMAIN known = Key /\ watchedKeys \subseteq Key
    /\ \A k \in Key : table[k].kind \in JsonKind \/ table[k] \in {Absent, Fixed}
    /\ \A k \in Key \ ReadOnly : table[k] # Fixed
    /\ WatcherInSync
    /\ \A k \in Key \ watchedKeys : known[k] = Unknown
    /\ chain # Idle => Running(chain) /\ ChainInv(chain)
=============================================================================
