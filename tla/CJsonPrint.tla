----------------------------- MODULE CJsonPrint -----------------------------
(***************************************************************************)
(* The print buffer of src/utils/json/cJSON.c: how cJSON_Print,            *)
(* cJSON_PrintBuffered and cJSON_PrintPreallocated write the text of an    *)
(* item into a block of memory that ensure makes larger.                   *)
(*                                                                         *)
(* What is written depends on the item and on nothing in the buffer: it is *)
(* a program, a sequence of operations that JsonText derives from a value. *)
(*   "write"  ensure(need), then the bytes put and, if ends, a NUL; the    *)
(*            offset moves over them if moves, otherwise a scan follows    *)
(*   "scan"   update_offset: the offset moves to the next NUL              *)
(*   "refuse" print_value returns false: nothing can be printed            *)
(* Offsets count from 0 as in the code, the bytes of a block from 1.       *)
(***************************************************************************)
EXTENDS Naturals, Sequences

CONSTANTS
    Programs,       \* the operations of the items to print
    Lengths,        \* the values of prebuffer and len
    DefaultLength,  \* default_buffer_size
    MaxInt          \* INT_MAX

NUL == 0
Byte == 0..255
Junk == 256     \* a byte nobody has written

Writes(p) == {i \in DOMAIN p : p[i].act = "write"}
Scans(p) == {i \in DOMAIN p : p[i].act = "scan"}
Refusals(p) == {i \in DOMAIN p : p[i].act = "refuse"}

\* The bytes an operation needs.
Size(op) == Len(op.put) + op.ends

\* How the functions that print use the buffer: they ask ensure for the bytes
\* they put, give or take one, and leave a NUL where update_offset comes next.
WellFormed(p) ==
    /\ p \in Seq([act : {"write", "scan", "refuse"}, need : Nat, put : Seq(1..255), ends : 0..1, moves : 0..1])
    /\ \A i \in Writes(p) :
          /\ Size(p[i]) <= p[i].need + 1 /\ p[i].need <= Len(p[i].put) + 1
          /\ p[i].moves = 0 => p[i].ends = 1 /\ (i < Len(p) => p[i + 1].act = "scan")
    /\ \A i \in Scans(p) : i > 1 /\ i < Len(p) /\ p[i - 1].act = "write" /\ p[i - 1].ends = 1
    /\ \A i \in Refusals(p) : i = Len(p)
    /\ Len(p) > 0 /\ (p[Len(p)].act = "write" => p[Len(p)].ends = 1)

ASSUME ProgramsAssumption == \A p \in Programs : WellFormed(p)
ASSUME LengthsAssumption ==
    /\ MaxInt \in Nat /\ DefaultLength \in 1..MaxInt
    /\ Lengths \subseteq 0..MaxInt

VARIABLES
    program, step,
    caller,     \* the function the application calls
    realloc,    \* hooks.reallocate: 1 if there is one
    block,      \* the bytes of p->buffer
    length, at, \* p->length and p->offset
    blocks,     \* the number of blocks printing has allocated and not freed
    phase       \* "open", "print", "false", "null", "printed", "failed"

printVars == <<program, step, caller, realloc, block, length, at, blocks, phase>>

Op == program[step]
Unwritten(n) == [i \in 1..n |-> Junk]

PrintInit ==
    /\ program \in Programs /\ step = 1
    /\ \/ caller = "Print" /\ length = DefaultLength
       \/ caller \in {"PrintBuffered", "PrintPreallocated"} /\ length \in Lengths
    /\ realloc \in 0..1
    /\ block = Unwritten(length) /\ at = 0
    /\ blocks = 0 /\ phase = "open"

\* The first allocation; the application brings the buffer of
\* cJSON_PrintPreallocated.
Open ==
    /\ phase = "open" /\ phase' = "print"
    /\ blocks' = IF caller = "PrintPreallocated" THEN 0 ELSE 1
    /\ UNCHANGED <<program, step, caller, realloc, block, length, at>>

OpenFails ==
    /\ phase = "open" /\ caller # "PrintPreallocated"
    /\ phase' = "failed"
    /\ UNCHANGED <<program, step, caller, realloc, block, length, at, blocks>>

-----------------------------------------------------------------------------
(* ensure *)

\* Mutant of Needed: the room for two more bytes is asked for.
MutNeeded == Op.need + at + 3

Needed == Op.need + at + 1

\* ensure returns NULL at once: an invalid offset, a size above INT_MAX.
Refused == (length > 0 /\ at >= length) \/ Op.need > MaxInt

Fits == ~Refused /\ Needed <= length

\* The buffer must and may be made larger.
Grows == ~Refused /\ Needed > length /\ caller # "PrintPreallocated" /\ Needed <= MaxInt

\* Mutant of NewLength: the offset is forgotten.
MutNewLength == IF Op.need > MaxInt \div 2 THEN MaxInt ELSE 2 * Op.need

NewLength == IF Needed > MaxInt \div 2 THEN MaxInt ELSE 2 * Needed

\* What is copied: by realloc the whole block, by memcpy the text and the byte
\* after it.
Enlarged(n) ==
    LET kept == IF realloc = 1 THEN 1..length ELSE 1..at + 1
    IN [i \in 1..n |-> IF i \in kept \cap DOMAIN block THEN block[i] ELSE Junk]

-----------------------------------------------------------------------------
(* Printing *)

\* The block b after an operation has written at the offset.
Written(b, op) ==
    LET end == at + Len(op.put) IN
    [i \in DOMAIN b \cup (at + 1)..at + Size(op) |->
        IF i \in at + 1..end THEN op.put[i - at] ELSE IF i = end + 1 /\ op.ends = 1 THEN NUL ELSE b[i]]

Advance ==
    /\ step' = step + 1
    /\ at' = at + (IF Op.moves = 1 THEN Len(Op.put) ELSE 0)
    /\ UNCHANGED <<program, caller, realloc, blocks, phase>>

Printing(act) == phase = "print" /\ step <= Len(program) /\ Op.act = act

WriteInPlace ==
    /\ Printing("write") /\ Fits
    /\ block' = Written(block, Op)
    /\ Advance /\ UNCHANGED length

WriteAfterGrowing ==
    /\ Printing("write") /\ Grows
    /\ length' = NewLength
    /\ block' = Written(Enlarged(NewLength), Op)
    /\ Advance

\* ensure returns NULL and leaves the buffer, or print_value knows no text.
PrintRefuses ==
    /\ Printing("refuse") \/ (Printing("write") /\ ~Fits /\ ~Grows)
    /\ phase' = "false"
    /\ UNCHANGED <<program, step, caller, realloc, block, length, at, blocks>>

\* Memory runs out in ensure, which frees the buffer.
GrowFails ==
    /\ Printing("write") /\ Grows
    /\ phase' = "null" /\ blocks' = blocks - 1
    /\ block' = <<>> /\ length' = 0
    /\ UNCHANGED <<program, step, caller, realloc, at>>

\* strlen from the offset on; without a NUL it leaves the block.
Ends == {n \in at..length - 1 : block[n + 1] = NUL}
NextEnd == IF Ends = {} THEN length ELSE CHOOSE n \in Ends : \A m \in Ends : n <= m

\* update_offset between two operations, and in print after the last.
Scan ==
    /\ phase = "print"
    /\ Printing("scan") \/ (step = Len(program) + 1 /\ caller = "Print")
    /\ at' = NextEnd /\ step' = step + 1
    /\ UNCHANGED <<program, caller, realloc, block, length, blocks, phase>>

-----------------------------------------------------------------------------
(* The end *)

\* print makes the block as long as the text; where there is no realloc it
\* copies the text and frees the buffer.
PrintReturns ==
    /\ phase = "print" /\ caller = "Print" /\ step = Len(program) + 2
    /\ length' = at + 1
    /\ block' = [i \in 1..at + 1 |-> IF realloc = 0 /\ i = at + 1 THEN NUL ELSE block[i]]
    /\ phase' = "printed"
    /\ UNCHANGED <<program, step, caller, realloc, at, blocks>>

\* Mutant of ShrinkFails: the buffer is not freed.
MutShrinkFails ==
    /\ phase = "print" /\ caller = "Print" /\ step = Len(program) + 2
    /\ phase' = "failed"
    /\ UNCHANGED <<program, step, caller, realloc, block, length, at, blocks>>

ShrinkFails ==
    /\ phase = "print" /\ caller = "Print" /\ step = Len(program) + 2
    /\ phase' = "failed" /\ blocks' = blocks - 1
    /\ UNCHANGED <<program, step, caller, realloc, block, length, at>>

OthersReturn ==
    /\ phase = "print" /\ caller # "Print" /\ step = Len(program) + 1
    /\ phase' = "printed"
    /\ UNCHANGED <<program, step, caller, realloc, block, length, at, blocks>>

\* print_value has returned false: what was allocated is freed, and nothing
\* when ensure has done so.
GiveUp ==
    /\ phase \in {"false", "null"} /\ phase' = "failed"
    /\ blocks' = IF phase = "false" /\ caller # "PrintPreallocated" THEN blocks - 1 ELSE blocks
    /\ UNCHANGED <<program, step, caller, realloc, block, length, at>>

PrintNext ==
    \/ Open \/ OpenFails
    \/ WriteInPlace \/ WriteAfterGrowing \/ PrintRefuses \/ GrowFails \/ Scan
    \/ PrintReturns \/ ShrinkFails \/ OthersReturn \/ GiveUp

PrintSpec == PrintInit /\ [][PrintNext]_printVars

-----------------------------------------------------------------------------
(* Properties *)

\* The operation before the next one, if that one is a scan.
ToScan == {i \in Writes(program) : i + 1 = step /\ program[i].ends = 1}

\* No operation writes outside the block, which is never longer than an int
\* can tell, and update_offset finds a NUL right after the text that was
\* written last, before any byte nobody has written.
BufferSound ==
    /\ DOMAIN block = 1..length /\ length <= MaxInt
    /\ phase = "print" => \A i \in ToScan :
          LET text == IF program[i].moves = 1 THEN 0 ELSE Len(program[i].put) IN
          /\ at + text < length
          /\ block[at + text + 1] = NUL
          /\ \A j \in 1..text : block[at + j] = program[i].put[j]

\* When printing ends, the returned text is all that is allocated, and after
\* a failure, wherever it happened, nothing is.
PrintKeepsNothing ==
    /\ phase = "failed" => blocks = 0
    /\ phase = "printed" => blocks = IF caller = "PrintPreallocated" THEN 0 ELSE 1

\* All that a program prints.
Text(p) ==
    LET upto[i \in 0..Len(p)] == IF i = 0 THEN <<>> ELSE upto[i - 1] \o p[i].put IN upto[Len(p)]

\* cJSON.h asks the caller of cJSON_PrintPreallocated for 5 bytes more than
\* the text and its NUL: one more is enough to print whatever can be printed.
SpareByteSuffices ==
    caller = "PrintPreallocated" /\ Refusals(program) = {}
        /\ Len(Text(program)) + 2 <= length /\ length < MaxInt
    => phase \notin {"false", "null", "failed"}

\* The text the caller gets: the bytes of the block up to the first NUL.
Result ==
    LET ends == {n \in 0..length - 1 : block[n + 1] = NUL}
    IN SubSeq(block, 1, CHOOSE n \in ends : \A m \in ends : n <= m)

=============================================================================
