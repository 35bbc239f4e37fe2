----------------------------- MODULE Statements -----------------------------
(***************************************************************************)
(* Prepared statements: the DB and Statement of internal/sqlite/db.go, and *)
(* the order in which cmd/isthmus/savefile.go prepares and closes them.    *)
(*                                                                         *)
(* Prepare appends to a Go slice and returns a pointer to the new element. *)
(* When the slice is full, append moves it to a larger array and every     *)
(* pointer returned before goes on pointing into the old one.  The copy of *)
(* a statement in the old array and the one in the new array then share    *)
(* one SQLite statement, which must be finalized once.                     *)
(***************************************************************************)
EXTENDS Integers, Sequences, FiniteSets, SequencesExt

CONSTANTS
    Persistent,     \* how many statements openSavefile prepares: 14
    Created,        \* how many createSavefile prepares: 5
    MaxStatements   \* bound: statements prepared on one connection

VARIABLES
    arrays,     \* every array of db.statements, the last one in use: cells are
                \* numbers of SQLite statements, or 0 for nil
    size,       \* len(db.statements)
    finalized,  \* for each SQLite statement, how often it was finalized
    failed,     \* the SQLite statement whose Exec failed and that was not
                \* Reset, or 0
    held,       \* the pointers in the savefile struct
    stmt,       \* the local variable stmt: a pointer, or NoPointer
    task        \* what runs: see Task

stmtVars == <<arrays, size, finalized, failed, held, stmt, task>>

(***************************************************************************)
(* closed: no database is open                                             *)
(* open:   openSavefile, until it has prepared its statements              *)
(* play:   the session, between two queries                                *)
(* query:  a method that closes its statement, or an iterator              *)
(* leave:  getCollectablePlacements, which does not close it               *)
(* create: createSavefile                                                  *)
(* fails:  an Exec failed, and its error ends the session or createSavefile *)
(* panicked: DB.Close did, and the program ends                            *)
(***************************************************************************)
Task == {"closed", "open", "play", "query", "leave", "create", "fails",
         "panicked"}

NoPointer == [array |-> 0, cell |-> 0]
Pointer == [array : Nat, cell : Nat]

Pointee(p) == arrays[p.array][p.cell]

-----------------------------------------------------------------------------
(* db.go *)

Open ==
    /\ arrays' = << <<>> >> /\ size' = 0
    /\ finalized' = <<>> /\ failed' = 0
    /\ held' = <<>> /\ stmt' = NoPointer

(* The arrays after append has made room for one more element. *)
Roomy ==
    LET full == Last(arrays)
        cap == IF full = <<>> THEN 1 ELSE 2 * Len(full)
        copy == [i \in 1 .. cap |-> IF i <= Len(full) THEN full[i] ELSE 0]
    IN  IF size < Len(full) THEN arrays ELSE Append(arrays, copy)

(* The pointer that the next Prepare returns. *)
Returned == [array |-> Len(Roomy), cell |-> size + 1]

Prepare ==
    /\ Len(finalized) < MaxStatements
    /\ arrays' = [Roomy EXCEPT ![Len(Roomy)][size + 1] = Len(finalized) + 1]
    /\ size' = size + 1
    /\ finalized' = Append(finalized, 0)

(* Statement.Close: finalize, and set this copy, and only this one, to nil. *)
Finalize(p) ==
    IF Pointee(p) = 0 THEN finalized
    ELSE [finalized EXCEPT ![Pointee(p)] = @ + 1]
\* Mutant of SetNil.
ForgetNil(p) == arrays
SetNil(p) == [arrays EXCEPT ![p.array][p.cell] = 0]

Close(p) ==
    /\ finalized' = Finalize(p)
    /\ arrays' = SetNil(p)
    /\ UNCHANGED size

(* DB.Close: close what the slice holds now.  sqlite3_finalize finalizes the
   statement that failed, too, but reports its error again, so that must panics
   before the cell is nil and before the cells after it are closed (the statement
   with number i is in cell i). *)
LastClosed == IF failed = 0 THEN size + 1 ELSE failed

CloseDB ==
    /\ finalized' = [s \in DOMAIN finalized |->
          finalized[s] +
            Cardinality({i \in 1 .. size : i <= LastClosed /\ Last(arrays)[i] = s})]
    /\ arrays' = << [i \in 1 .. Len(Last(arrays)) |->
                       IF i < LastClosed THEN 0 ELSE Last(arrays)[i]] >>
    /\ UNCHANGED <<size, failed>>

-----------------------------------------------------------------------------
(* savefile.go *)

OpenSavefile ==
    /\ task = "closed"
    /\ Open
    /\ task' = "open"

PreparePersistent ==
    /\ task = "open" /\ Len(held) < Persistent
    /\ Prepare
    /\ held' = Append(held, Returned)
    /\ UNCHANGED <<failed, stmt, task>>

Opened ==
    /\ task = "open" /\ Len(held) = Persistent
    /\ task' = "play"
    /\ UNCHANGED <<arrays, size, finalized, failed, held, stmt>>

(* getNicknames, getConnectionParams and the iterators over placements close
   their statement when they return, with a row, at the end or in an error;
   getCollectablePlacements leaves it to DB.Close. *)
\* Mutant of BeginQuery.
QueryClosesAtCall(kind) ==
    /\ task = "play"
    /\ Len(finalized) < MaxStatements
    /\ arrays' = [Roomy EXCEPT ![Len(Roomy)][size + 1] = 0]
    /\ size' = size + 1
    /\ finalized' = Append(finalized, 1)
    /\ stmt' = Returned
    /\ task' = kind
    /\ UNCHANGED <<failed, held>>
BeginQuery(kind) ==
    /\ task = "play"
    /\ Prepare
    /\ stmt' = Returned
    /\ task' = kind
    /\ UNCHANGED <<failed, held>>

EndQuery ==
    /\ task = "query"
    /\ Close(stmt)
    /\ stmt' = NoPointer
    /\ task' = "play"
    /\ UNCHANGED <<failed, held>>

Leave ==
    /\ task = "leave"
    /\ stmt' = NoPointer
    /\ task' = "play"
    /\ UNCHANGED <<arrays, size, finalized, failed, held>>

(* The statements that clearLocations, addUnconfirmedItems and confirmItem
   execute: when Exec fails, they return its error without a Reset, and so does
   playMW, which closes the savefile. *)
NotReset == {2, 7, 8}

ExecFails(j) ==
    /\ task = "play"
    /\ failed' = Pointee(held[j])
    /\ task' = "fails"
    /\ UNCHANGED <<arrays, size, finalized, held, stmt>>

CloseSavefile ==
    /\ task = "play"
    /\ CloseDB
    /\ task' = "closed"
    /\ UNCHANGED <<held, stmt>>

(* createSavefile: each statement is closed before the next one is prepared,
   the last one is left to the deferred db.Close, which also runs on an error
   at any point.  None of them is Reset when its Exec fails. *)
CreateOpen ==
    /\ task = "closed"
    /\ Open
    /\ task' = "create"

CreatePrepare ==
    /\ task = "create" /\ stmt = NoPointer
    /\ Len(finalized) < Created
    /\ Prepare
    /\ stmt' = Returned
    /\ UNCHANGED <<failed, held, task>>

CreateClose ==
    /\ task = "create" /\ stmt # NoPointer
    /\ Close(stmt)
    /\ stmt' = NoPointer
    /\ UNCHANGED <<failed, held, task>>

CreateExecFails ==
    /\ task = "create" /\ stmt # NoPointer
    /\ failed' = Pointee(stmt)
    /\ task' = "fails"
    /\ UNCHANGED <<arrays, size, finalized, held, stmt>>

CreateEnd ==
    /\ task = "create"
    /\ CloseDB
    /\ task' = "closed"
    /\ UNCHANGED <<held, stmt>>

ClosePanics ==
    /\ task = "fails"
    /\ CloseDB
    /\ task' = "panicked"
    /\ UNCHANGED <<held, stmt>>

-----------------------------------------------------------------------------
StatementsInit ==
    /\ arrays = << <<>> >> /\ size = 0
    /\ finalized = <<>> /\ failed = 0
    /\ held = <<>> /\ stmt = NoPointer
    /\ task = "closed"

StatementsNext ==
    \/ OpenSavefile \/ PreparePersistent \/ Opened
    \/ \E kind \in {"query", "leave"} : BeginQuery(kind)
    \/ EndQuery \/ Leave \/ CloseSavefile
    \/ \E j \in DOMAIN held \cap NotReset : ExecFails(j)
    \/ CreateOpen \/ CreatePrepare \/ CreateClose \/ CreateEnd
    \/ CreateExecFails \/ ClosePanics

StatementsSpec == StatementsInit /\ [][StatementsNext]_stmtVars

-----------------------------------------------------------------------------
(* Properties. *)

(* Although pointers outlive the array they point into, no SQLite statement is
   finalized twice (which would be undefined behaviour in C), and none is left
   when the connection closes (sqlite3_close would refuse, and must would
   panic): what a pointer in an old array was closed for is closed in the
   array in use as well.  After a failed Exec that nobody Reset, DB.Close panics
   half way: only what was prepared after the statement that failed is left. *)
FinalizedOnce ==
    \A s \in DOMAIN finalized :
        /\ finalized[s] <= 1
        /\ task = "closed" => finalized[s] = 1
        /\ task = "panicked" /\ s <= failed => finalized[s] = 1

Over == {"closed", "panicked"}

(* Every pointer the savefile methods may still use, in the array in use or in
   an old one, leads to a statement that is not finalized. *)
NoUseAfterFinalize ==
    LET Usable(p) == Pointee(p) # 0 /\ finalized[Pointee(p)] = 0
    IN  /\ task \notin Over => \A i \in DOMAIN held : Usable(held[i])
        /\ task \in {"query", "leave", "create"} /\ stmt # NoPointer =>
             Usable(stmt)

-----------------------------------------------------------------------------
(* The invariant behind both.  Nothing is ever taken out of the slice, so the
   statement with number i is in cell i of every array that was large enough for
   it, or was set to nil there; and in the array in use, which DB.Close goes
   through, it is nil exactly when it is finalized. *)
StatementsTypeOK ==
    /\ arrays \in Seq(Seq(Nat)) /\ arrays # <<>>
    /\ size \in Nat
    /\ finalized \in Seq(Nat) /\ failed \in Nat
    /\ held \in Seq(Pointer) /\ stmt \in Pointer
    /\ task \in Task

CellsNumbered ==
    /\ Len(finalized) = size /\ size <= Len(Last(arrays))
    /\ \A a \in DOMAIN arrays : \A i \in DOMAIN arrays[a] :
         arrays[a][i] \in {0, i}
    /\ \A i \in 1 .. size :
         \/ finalized[i] = 0 /\ Last(arrays)[i] = i
         \/ finalized[i] = 1 /\ Last(arrays)[i] = 0

(* The pointers of the savefile struct are older than the local variable stmt,
   which is the last that Prepare has returned. *)
HeldInv ==
    \A j \in DOMAIN held :
        LET p == held[j] IN
        /\ p.array \in DOMAIN arrays /\ p.cell \in DOMAIN arrays[p.array]
        /\ p.cell \in 1 .. (IF stmt = NoPointer THEN size ELSE size - 1)
        /\ Pointee(p) = p.cell /\ finalized[p.cell] = 0

StmtInv ==
    /\ stmt # NoPointer =>
         /\ stmt.array = Len(arrays) /\ stmt.cell = size /\ size > 0
         /\ finalized[size] = 0
    /\ task \in {"open", "play"} => stmt = NoPointer
    /\ task \in {"query", "leave"} => stmt # NoPointer
    /\ task = "create" => held = <<>>

FailedInv ==
    /\ failed # 0 <=> task \in {"fails", "panicked"}
    /\ task = "fails" => failed \in 1 .. size /\ finalized[failed] = 0

StatementsInv ==
    /\ StatementsTypeOK /\ FailedInv
    /\ task \notin Over => CellsNumbered /\ HeldInv /\ StmtInv
    /\ task \in Over => FinalizedOnce
=============================================================================
