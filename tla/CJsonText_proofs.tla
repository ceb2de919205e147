---------------------------- MODULE CJsonText_proofs ----------------------------
(***************************************************************************)
(* Proofs about CJsonPrint and CJsonParse, the two ways between an item    *)
(* and its text.  For every well formed program, every length of the first *)
(* buffer and every INT_MAX no operation of the printer leaves the block,  *)
(* what is allocated is freed or returned, and one byte more than the text *)
(* and its NUL is room enough.  Whatever the text, its NUL is the wall     *)
(* that the parser does not pass, no string is longer than its block, and  *)
(* cJSON_Delete frees all that a failed parse has allocated.               *)
(***************************************************************************)
EXTENDS CJsonPrint, CJsonParse, LeastNumber, SequenceTheorems

(***************************************************************************)
(* Printing.                                                               *)
(***************************************************************************)

Callers == {"Print", "PrintBuffered", "PrintPreallocated"}
Phases == {"open", "print", "false", "null", "printed", "failed"}

PrintTypeOK ==
    /\ program \in Programs
    /\ step \in 1..Len(program) + 2
    /\ caller \in Callers
    /\ realloc \in 0..1
    /\ length \in 0..MaxInt
    /\ block \in [1..length -> 0..Junk]
    /\ at \in Nat
    /\ phase \in Phases

\* The offset may stand at the end of the block, where ensure refuses it.
OffsetInv == phase = "print" => at <= length

\* print, and no one else, looks for the end of the text once more, and finds
\* it in the block.
EndInv == phase = "print" /\ step = Len(program) + 2 => at < length /\ caller = "Print"

\* Where update_offset comes next, it has a NUL to find.
TextInv ==
    phase = "print" => \A i \in ToScan :
        LET text == IF program[i].moves = 1 THEN 0 ELSE Len(program[i].put) IN
        /\ at + text < length
        /\ block[at + text + 1] = NUL
        /\ \A j \in 1..text : block[at + j] = program[i].put[j]

\* A program that refuses is not printed to its end.
RefusalInv == phase = "print" /\ step > Len(program) => program[Len(program)].act = "write"

PrintInv == PrintTypeOK /\ OffsetInv /\ EndInv /\ TextInv /\ RefusalInv

\* What is allocated in each phase.
BlocksInv ==
    blocks = IF phase \in {"open", "null", "failed"} \/ caller = "PrintPreallocated" THEN 0 ELSE 1

-----------------------------------------------------------------------------
(* The programs *)

\* The fields of an operation have their types.
LEMMA OpType ==
    ASSUME NEW p \in Programs, NEW i \in 1..Len(p)
    PROVE  /\ Len(p) \in Nat
           /\ p[i].act \in {"write", "scan", "refuse"}
           /\ p[i].need \in Nat /\ p[i].put \in Seq(1..255)
           /\ p[i].ends \in 0..1 /\ p[i].moves \in 0..1
<1> DEFINE R == [act : {"write", "scan", "refuse"}, need : Nat, put : Seq(1..255), ends : 0..1, moves : 0..1]
<1>1. p \in Seq(R)
  BY ProgramsAssumption DEF WellFormed
<1>2. Len(p) \in Nat /\ p[i] \in R
  <2> HIDE DEF R
  <2> QED
    BY <1>1
<1> QED
  BY <1>2

\* What a program does at i and before.
LEMMA OpOrder ==
    ASSUME NEW p \in Programs, NEW i \in 1..Len(p)
    PROVE  /\ p[i].act = "write" => Size(p[i]) <= p[i].need + 1
           /\ p[i].act = "write" /\ p[i].moves = 0 => p[i].ends = 1
           /\ p[i].act = "scan" => i > 1 /\ p[i - 1].act = "write" /\ p[i - 1].ends = 1
           /\ p[i].act = "refuse" => i = Len(p)
           /\ i = Len(p) => p[i].act = "refuse" \/ (p[i].act = "write" /\ p[i].ends = 1)
<1> DEFINE R == [act : {"write", "scan", "refuse"}, need : Nat, put : Seq(1..255), ends : 0..1, moves : 0..1]
<1>1. p \in Seq(R) /\ WellFormed(p)
  BY ProgramsAssumption DEF WellFormed
<1>2. Len(p) \in Nat /\ DOMAIN p = 1..Len(p)
  <2> HIDE DEF R
  <2> QED
    BY <1>1
<1>3. p[i].act \in {"write", "scan", "refuse"} /\ p[i].ends \in 0..1 /\ p[i].moves \in 0..1
  BY OpType
<1> HIDE DEF R
<1>4. p[i].act = "write" => Size(p[i]) <= p[i].need + 1 /\ (p[i].moves = 0 => p[i].ends = 1)
  BY <1>1, <1>2 DEF WellFormed, Writes
<1>5. p[i].act = "scan" => i > 1 /\ i < Len(p) /\ p[i - 1].act = "write" /\ p[i - 1].ends = 1
  BY <1>1, <1>2 DEF WellFormed, Scans
<1>6. p[i].act = "refuse" => i = Len(p)
  BY <1>1, <1>2 DEF WellFormed, Refusals
<1>7. i = Len(p) /\ p[i].act = "write" => p[i].ends = 1
  BY <1>1, <1>2 DEF WellFormed
<1>8. i = Len(p) => p[i].act = "refuse" \/ (p[i].act = "write" /\ p[i].ends = 1)
  <2> SUFFICES ASSUME i = Len(p), p[i].act # "refuse" PROVE p[i].act = "write" /\ p[i].ends = 1
    OBVIOUS
  <2>1. ~(i < Len(p))
    BY <1>2
  <2> QED
    BY <2>1, <1>3, <1>5, <1>7
<1> QED
  BY <1>4, <1>5, <1>6, <1>8, Zenon

-----------------------------------------------------------------------------
(* The block *)

\* What a sequence holds.
LEMMA ElementOf ==
    ASSUME NEW S, NEW q \in Seq(S), NEW j \in 1..Len(q)
    PROVE  q[j] \in S
  OBVIOUS

\* An operation that has room writes what it has to and nothing else.
LEMMA WrittenBlock ==
    ASSUME NEW n \in Nat, NEW b \in [1..n -> 0..Junk], NEW op, at \in Nat,
           op.put \in Seq(1..255), op.ends \in 0..1, at + Size(op) <= n
    PROVE  /\ Written(b, op) \in [1..n -> 0..Junk]
           /\ op.ends = 1 => at + Len(op.put) < n /\ Written(b, op)[at + Len(op.put) + 1] = NUL
           /\ \A j \in 1..Len(op.put) : Written(b, op)[at + j] = op.put[j]
<1> DEFINE end == at + Len(op.put)
<1>1. Len(op.put) \in Nat /\ end \in Nat /\ at + Size(op) = end + op.ends /\ end <= n
  BY DEF Size
<1>2. DOMAIN b \cup (at + 1)..(at + Size(op)) = 1..n
  BY <1>1
<1>3. \A i \in at + 1..end : op.put[i - at] \in 1..255
  <2> SUFFICES ASSUME NEW i \in at + 1..end PROVE op.put[i - at] \in 1..255
    OBVIOUS
  <2>1. i - at \in 1..Len(op.put)
    BY <1>1
  <2> QED
    BY <2>1, ElementOf
<1>4. Written(b, op) = [i \in 1..n |->
        IF i \in at + 1..end THEN op.put[i - at] ELSE IF i = end + 1 /\ op.ends = 1 THEN NUL ELSE b[i]]
  BY <1>2 DEF Written
<1>5. Written(b, op) \in [1..n -> 0..Junk]
  <2> SUFFICES ASSUME NEW i \in 1..n
               PROVE  (IF i \in at + 1..end THEN op.put[i - at] ELSE IF i = end + 1 /\ op.ends = 1 THEN NUL ELSE b[i])
                        \in 0..Junk
    BY <1>4
  <2>1. CASE i \in at + 1..end
    BY <2>1, <1>3 DEF Junk
  <2>2. CASE i \notin at + 1..end
    <3>1. b[i] \in 0..Junk /\ NUL \in 0..Junk
      BY DEF NUL, Junk
    <3> QED
      BY <2>2, <3>1
  <2> QED
    BY <2>1, <2>2
<1>6. op.ends = 1 => end < n /\ Written(b, op)[end + 1] = NUL
  BY <1>4, <1>1
<1>7. \A j \in 1..Len(op.put) : Written(b, op)[at + j] = op.put[j]
  <2> SUFFICES ASSUME NEW j \in 1..Len(op.put) PROVE Written(b, op)[at + j] = op.put[j]
    OBVIOUS
  <2>1. at + j \in at + 1..end /\ at + j \in 1..n /\ (at + j) - at = j
    BY <1>1
  <2> QED
    BY <2>1, <1>4
<1> QED
  BY <1>5, <1>6, <1>7

\* A larger block is a block.
LEMMA EnlargedBlock ==
    ASSUME PrintTypeOK, NEW n \in Nat
    PROVE  Enlarged(n) \in [1..n -> 0..Junk]
<1> DEFINE kept == IF realloc = 1 THEN 1..length ELSE 1..at + 1
<1>1. \A i \in kept \cap DOMAIN block : block[i] \in 0..Junk
  BY DEF PrintTypeOK
<1> QED
  BY <1>1 DEF Enlarged, Junk

\* update_offset finds the NUL behind what was written last.
LEMMA NextEndFound ==
    ASSUME length \in Nat, at \in Nat, at <= length
    PROVE  /\ NextEnd \in at..length
           /\ \A n \in Ends : NextEnd < length
<1>1. Ends \subseteq at..length - 1 /\ Ends \subseteq Nat
  BY DEF Ends
<1>2. CASE Ends = {}
  BY <1>2 DEF NextEnd
<1>3. CASE Ends # {}
  <2>1. \E n \in Ends : \A m \in Ends : n <= m
    BY <1>1, <1>3, Least
  <2>2. NextEnd \in Ends
    BY <1>3, <2>1 DEF NextEnd
  <2> QED
    BY <1>1, <2>2
<1> QED
  BY <1>2, <1>3

-----------------------------------------------------------------------------
(* The steps *)

LEMMA PrintInitInv ==
    ASSUME PrintInit
    PROVE  PrintInv /\ BlocksInv
<1>1. program \in Programs /\ Len(program) \in Nat /\ Len(program) > 0
  BY ProgramsAssumption DEF PrintInit, WellFormed
<1>2. length \in 0..MaxInt
  <2>1. MaxInt \in Nat /\ DefaultLength \in 0..MaxInt /\ Lengths \subseteq 0..MaxInt
    BY LengthsAssumption
  <2> QED
    BY <2>1 DEF PrintInit
<1>3. Unwritten(length) \in [1..length -> 0..Junk]
  BY DEF Unwritten, Junk
<1>4. PrintTypeOK
  BY <1>1, <1>2, <1>3 DEF PrintInit, PrintTypeOK, Callers, Phases
<1> QED
  BY <1>4 DEF PrintInit, PrintInv, OffsetInv, EndInv, TextInv, RefusalInv, BlocksInv

\* What a write leaves, in the block b of length n.
LEMMA WriteInv ==
    ASSUME PrintInv, Printing("write"), NEW n \in 0..MaxInt, NEW b \in [1..n -> 0..Junk],
           Needed <= n, block' = Written(b, Op), length' = n, Advance
    PROVE  PrintInv'
<1>1. /\ program \in Programs /\ Len(program) \in Nat /\ step \in 1..Len(program)
      /\ at \in Nat /\ n \in Nat
  BY ProgramsAssumption DEF PrintInv, PrintTypeOK, Printing, WellFormed
<1>2. /\ Op.need \in Nat /\ Op.put \in Seq(1..255) /\ Op.ends \in 0..1 /\ Op.moves \in 0..1
      /\ Op.act = "write" /\ Len(Op.put) \in Nat
  BY <1>1, OpType DEF Op, Printing
<1>3. Size(Op) <= Op.need + 1 /\ (Op.moves = 0 => Op.ends = 1) /\ Size(Op) = Len(Op.put) + Op.ends
  BY <1>1, <1>2, OpOrder DEF Op, Size
<1>4. Op.need + at + 1 <= n
  BY DEF Needed
<1>5. at + Size(Op) <= n
  <2> HIDE DEF Op, Size
  <2>1. Size(Op) \in Nat
    BY <1>2, <1>3
  <2> QED
    BY <2>1, <1>1, <1>2, <1>3, <1>4
<1>6. /\ block' \in [1..n -> 0..Junk]
      /\ Op.ends = 1 => at + Len(Op.put) < n /\ block'[at + Len(Op.put) + 1] = NUL
      /\ \A j \in 1..Len(Op.put) : block'[at + j] = Op.put[j]
  <2> HIDE DEF Op
  <2>1. /\ Written(b, Op) \in [1..n -> 0..Junk]
        /\ Op.ends = 1 => at + Len(Op.put) < n /\ Written(b, Op)[at + Len(Op.put) + 1] = NUL
        /\ \A j \in 1..Len(Op.put) : Written(b, Op)[at + j] = Op.put[j]
    <3>1. n \in Nat /\ b \in [1..n -> 0..Junk] /\ at \in Nat /\ Op.put \in Seq(1..255) /\ Op.ends \in 0..1 /\ at + Size(Op) <= n
      BY <1>1, <1>2, <1>5
    <3> QED
      BY <3>1, WrittenBlock, SMTT(60)
  <2> QED
    BY <2>1
<1>7. /\ step' = step + 1 /\ program' = program /\ caller' = caller /\ realloc' = realloc /\ phase' = phase
      /\ phase = "print"
      /\ at' = at + (IF Op.moves = 1 THEN Len(Op.put) ELSE 0)
  BY DEF Advance, Printing
<1>8. PrintTypeOK'
  BY <1>1, <1>2, <1>6, <1>7 DEF PrintInv, PrintTypeOK
<1>9. OffsetInv'
  BY <1>1, <1>2, <1>3, <1>5, <1>7 DEF OffsetInv
<1>10. EndInv'
  BY <1>1, <1>7 DEF EndInv
<1>11. TextInv'
  <2> SUFFICES ASSUME NEW i \in ToScan'
               PROVE  LET text == IF program[i].moves = 1 THEN 0 ELSE Len(program[i].put) IN
                      /\ at' + text < n
                      /\ block'[at' + text + 1] = NUL
                      /\ \A j \in 1..text : block'[at' + j] = program[i].put[j]
    BY <1>7 DEF TextInv
  <2>1. i = step /\ program[i] = Op /\ Op.ends = 1
    <3>1. i \in Writes(program) /\ i + 1 = step + 1 /\ program[i].ends = 1
      BY <1>7 DEF ToScan
    <3>2. i \in Nat
      BY <3>1, <1>1, ProgramsAssumption DEF Writes, WellFormed
    <3> QED
      BY <3>1, <3>2, <1>1 DEF Op
  <2>2. CASE Op.moves = 1
    BY <2>1, <2>2, <1>1, <1>2, <1>6, <1>7
  <2>3. CASE Op.moves # 1
    BY <2>1, <2>3, <1>1, <1>2, <1>6, <1>7
  <2> QED
    BY <2>2, <2>3
<1>12. RefusalInv'
  BY <1>1, <1>2, <1>7 DEF RefusalInv, Op
<1> QED
  BY <1>8, <1>9, <1>10, <1>11, <1>12 DEF PrintInv

\* Scanning stays in the block, and at the end of a program it finds the end
\* of the text.
LEMMA ScanInv ==
    ASSUME PrintInv, Scan
    PROVE  PrintInv'
<1>1. /\ program \in Programs /\ Len(program) \in Nat /\ step \in 1..Len(program) + 2
      /\ at \in Nat /\ length \in Nat /\ at <= length /\ phase = "print"
  BY ProgramsAssumption, LengthsAssumption DEF PrintInv, PrintTypeOK, OffsetInv, Scan, WellFormed
<1>2. NextEnd \in at..length /\ \A n \in Ends : NextEnd < length
  BY <1>1, NextEndFound
<1>3. step <= Len(program) + 1
  BY <1>1 DEF Scan, Printing
<1>4. /\ at' = NextEnd /\ step' = step + 1 /\ program' = program /\ caller' = caller /\ realloc' = realloc
      /\ block' = block /\ length' = length /\ phase' = phase
  BY DEF Scan
<1>5. PrintTypeOK'
  BY <1>1, <1>2, <1>3, <1>4 DEF PrintInv, PrintTypeOK
<1>6. OffsetInv'
  BY <1>1, <1>2, <1>4 DEF OffsetInv
<1>7. EndInv'
  <2> SUFFICES ASSUME step = Len(program) + 1
               PROVE  NextEnd < length /\ caller = "Print"
    BY <1>1, <1>4 DEF EndInv
  <2>1. caller = "Print"
    BY <1>1 DEF Scan, Printing
  <2>2. Len(program) \in 1..Len(program) /\ program[Len(program)].act = "write" /\ program[Len(program)].ends = 1
    <3>1. Len(program) > 0
      BY <1>1, ProgramsAssumption DEF WellFormed
    <3>2. program[Len(program)].act \in {"write", "refuse"} /\ (program[Len(program)].act = "write" => program[Len(program)].ends = 1)
      BY <1>1, <3>1, OpOrder
    <3>3. program[Len(program)].act = "write"
      BY <1>1 DEF PrintInv, RefusalInv
    <3> QED
      BY <1>1, <3>1, <3>2, <3>3
  <2>3. Len(program) \in ToScan
    BY <2>2, <1>1, ProgramsAssumption DEF ToScan, Writes, WellFormed
  <2>4. \E n \in Ends : TRUE
    <3> DEFINE text == IF program[Len(program)].moves = 1 THEN 0 ELSE Len(program[Len(program)].put)
    <3>1. at + text < length /\ block[at + text + 1] = NUL
      BY <2>3, <1>1 DEF PrintInv, TextInv
    <3>2. text \in Nat
      BY <2>2, <1>1, OpType
    <3>3. at + text \in at..length - 1
      BY <3>1, <3>2, <1>1
    <3> QED
      BY <3>1, <3>3 DEF Ends
  <2> QED
    BY <2>1, <2>4, <1>2
<1>8. TextInv'
  <2>1. \A i \in ToScan' : FALSE
    <3> SUFFICES ASSUME NEW i \in ToScan' PROVE FALSE
      OBVIOUS
    <3>1. i \in Writes(program) /\ i + 1 = step + 1
      BY <1>4 DEF ToScan
    <3>2. i \in 1..Len(program) /\ program[i].act = "write"
      BY <3>1, <1>1, ProgramsAssumption DEF Writes, WellFormed
    <3> QED
      BY <3>1, <3>2, <1>1 DEF Scan, Printing, Op
  <2> QED
    BY <2>1 DEF TextInv
<1>9. RefusalInv'
  <2> SUFFICES ASSUME step + 1 > Len(program) PROVE program[Len(program)].act = "write"
    BY <1>4 DEF RefusalInv
  <2>1. CASE step = Len(program) + 1
    BY <2>1, <1>1 DEF PrintInv, RefusalInv
  <2>2. CASE step = Len(program)
    <3>1. program[step].act = "scan"
      BY <2>2, <1>1 DEF Scan, Printing, Op
    <3> QED
      BY <3>1, <2>2, <1>1, OpOrder
  <2> QED
    BY <2>1, <2>2, <1>1, <1>3
<1> QED
  BY <1>5, <1>6, <1>7, <1>8, <1>9 DEF PrintInv

\* Where there is room in the block, the next write stays in it.
LEMMA WriteInPlaceInv ==
    ASSUME PrintInv, WriteInPlace
    PROVE  PrintInv'
<1>1. Printing("write") /\ Needed <= length /\ Advance /\ block' = Written(block, Op) /\ length' = length
  BY DEF WriteInPlace, Fits
<1>2. length \in 0..MaxInt /\ block \in [1..length -> 0..Junk]
  BY DEF PrintInv, PrintTypeOK
<1> QED
  BY <1>1, <1>2, WriteInv

\* The larger block has room for what is written next.
LEMMA NewLengthSuffices ==
    ASSUME PrintInv, Printing("write"), Grows
    PROVE  NewLength \in 0..MaxInt /\ Needed <= NewLength
<1>1. program \in Programs /\ step \in 1..Len(program) /\ at \in Nat /\ MaxInt \in Nat
  BY ProgramsAssumption, LengthsAssumption DEF PrintInv, PrintTypeOK, Printing, WellFormed
<1>2. Op.need \in Nat
  BY <1>1, OpType DEF Op
<1>3. Needed \in Nat /\ Needed <= MaxInt
  BY <1>1, <1>2 DEF Needed, Grows
<1>4. CASE Needed > MaxInt \div 2
  BY <1>1, <1>3, <1>4 DEF NewLength
<1>5. CASE ~(Needed > MaxInt \div 2)
  <2> DEFINE half == MaxInt \div 2
             need == Needed
  <2>1. 2 * half <= MaxInt /\ half \in Nat /\ need \in Nat /\ ~(need > half)
    BY <1>1, <1>3, <1>5
  <2>2. NewLength = 2 * need
    BY <1>5 DEF NewLength
  <2> HIDE DEF half, need
  <2>3. 2 * need \in 0..MaxInt /\ need <= 2 * need
    BY <1>1, <2>1
  <2> QED
    BY <2>2, <2>3 DEF need
<1> QED
  BY <1>4, <1>5

LEMMA WriteAfterGrowingInv ==
    ASSUME PrintInv, WriteAfterGrowing
    PROVE  PrintInv'
<1>1. /\ Printing("write") /\ Grows /\ Advance
      /\ block' = Written(Enlarged(NewLength), Op) /\ length' = NewLength
  BY DEF WriteAfterGrowing
<1>2. NewLength \in 0..MaxInt /\ Needed <= NewLength
  BY <1>1, NewLengthSuffices
<1>3. NewLength \in Nat
  BY <1>2
<1>4. Enlarged(NewLength) \in [1..NewLength -> 0..Junk]
  BY <1>3, EnlargedBlock DEF PrintInv
<1> HIDE DEF NewLength, Enlarged
<1> QED
  BY <1>1, <1>2, <1>4, WriteInv

\* The steps that leave the phase of printing for good have only types to keep.
LEMMA PrintEndsInv ==
    ASSUME PrintInv, PrintRefuses \/ GrowFails \/ PrintReturns \/ ShrinkFails \/ OthersReturn \/ GiveUp \/ OpenFails
    PROVE  PrintInv'
<1>1. PrintTypeOK /\ OffsetInv /\ EndInv /\ MaxInt \in Nat
  BY LengthsAssumption DEF PrintInv
<1>2. phase' \in {"false", "null", "printed", "failed"} /\ program' = program /\ step' = step
      /\ caller' = caller /\ realloc' = realloc /\ at' = at
  BY DEF PrintRefuses, GrowFails, PrintReturns, ShrinkFails, OthersReturn, GiveUp, OpenFails
<1>3. length' \in 0..MaxInt /\ block' \in [1..length' -> 0..Junk]
  <2>1. CASE GrowFails
    BY <2>1, <1>1 DEF GrowFails
  <2>2. CASE PrintReturns
    <3>1. at \in Nat /\ length \in 0..MaxInt /\ at < length /\ block \in [1..length -> 0..Junk]
      BY <2>2, <1>1 DEF PrintReturns, EndInv, PrintTypeOK
    <3>2. at + 1 \in 0..MaxInt
      BY <3>1, <1>1
    <3>3. \A i \in 1..at + 1 : block[i] \in 0..Junk
      BY <3>1
    <3>4. length' = at + 1 /\ block' = [i \in 1..at + 1 |-> IF realloc = 0 /\ i = at + 1 THEN NUL ELSE block[i]]
      BY <2>2 DEF PrintReturns
    <3>5. \A i \in 1..at + 1 : (IF realloc = 0 /\ i = at + 1 THEN NUL ELSE block[i]) \in 0..Junk
      BY <3>3 DEF NUL, Junk
    <3> QED
      BY <3>2, <3>4, <3>5
  <2>3. CASE PrintRefuses \/ ShrinkFails \/ OthersReturn \/ GiveUp \/ OpenFails
    BY <2>3, <1>1 DEF PrintRefuses, ShrinkFails, OthersReturn, GiveUp, OpenFails, PrintTypeOK
  <2> QED
    BY <2>1, <2>2, <2>3
<1>4. PrintTypeOK'
  BY <1>1, <1>2, <1>3 DEF PrintTypeOK, Phases
<1> QED
  BY <1>2, <1>4 DEF PrintInv, OffsetInv, EndInv, TextInv, RefusalInv

LEMMA OpenInv ==
    ASSUME PrintInv, Open, step = 1, at = 0
    PROVE  PrintInv'
<1>1. /\ program' = program /\ step' = step /\ caller' = caller /\ realloc' = realloc
      /\ block' = block /\ length' = length /\ at' = at /\ phase' = "print"
  BY DEF Open
<1>2. program \in Programs /\ Len(program) \in Nat /\ Len(program) > 0 /\ DOMAIN program = 1..Len(program)
  BY ProgramsAssumption DEF PrintInv, PrintTypeOK, WellFormed
<1>3. PrintTypeOK'
  BY <1>1 DEF PrintInv, PrintTypeOK, Phases
<1>4. OffsetInv' /\ EndInv' /\ RefusalInv'
  BY <1>1, <1>2 DEF PrintInv, PrintTypeOK, OffsetInv, EndInv, RefusalInv
<1>5. ToScan' = {}
  BY <1>1, <1>2 DEF ToScan, Writes
<1> QED
  BY <1>3, <1>4, <1>5 DEF PrintInv, TextInv

\* Nothing is printed before the buffer is there.
OpenInvariant == phase = "open" => step = 1 /\ at = 0

LEMMA PrintNextInv ==
    ASSUME PrintInv, BlocksInv, OpenInvariant, [PrintNext]_printVars
    PROVE  PrintInv' /\ BlocksInv' /\ OpenInvariant'
<1>1. CASE UNCHANGED printVars
  <2>1. /\ program' = program /\ step' = step /\ caller' = caller /\ realloc' = realloc /\ block' = block
        /\ length' = length /\ at' = at /\ blocks' = blocks /\ phase' = phase
    BY <1>1 DEF printVars
  <2>2. ToScan' = ToScan
    BY <2>1 DEF ToScan, Writes
  <2> QED
    BY <2>1, <2>2 DEF PrintInv, PrintTypeOK, OffsetInv, EndInv, TextInv, RefusalInv, BlocksInv, OpenInvariant
<1>2. CASE Open
  <2>1. PrintInv'
    BY <1>2, OpenInv DEF Open, OpenInvariant
  <2> QED
    BY <1>2, <2>1 DEF Open, BlocksInv, OpenInvariant
<1>3. CASE PrintRefuses \/ GrowFails \/ PrintReturns \/ ShrinkFails \/ OthersReturn \/ GiveUp \/ OpenFails
  <2>1. PrintInv'
    BY <1>3, PrintEndsInv
  <2>2. BlocksInv'
    BY <1>3 DEF PrintRefuses, GrowFails, PrintReturns, ShrinkFails, OthersReturn, GiveUp, OpenFails, Printing, Grows,
                BlocksInv
  <2>3. OpenInvariant'
    BY <1>3 DEF PrintRefuses, GrowFails, PrintReturns, ShrinkFails, OthersReturn, GiveUp, OpenFails, OpenInvariant
  <2> QED
    BY <2>1, <2>2, <2>3
<1>4. CASE WriteInPlace \/ WriteAfterGrowing
  <2>1. PrintInv'
    BY <1>4, WriteInPlaceInv, WriteAfterGrowingInv
  <2>2. phase = "print" /\ phase' = phase /\ blocks' = blocks /\ caller' = caller
    BY <1>4 DEF WriteInPlace, WriteAfterGrowing, Printing, Advance
  <2> QED
    BY <2>1, <2>2 DEF BlocksInv, OpenInvariant
<1>5. CASE Scan
  <2>1. PrintInv'
    BY <1>5, ScanInv
  <2>2. phase = "print" /\ phase' = phase /\ blocks' = blocks /\ caller' = caller
    BY <1>5 DEF Scan
  <2> QED
    BY <2>1, <2>2 DEF BlocksInv, OpenInvariant
<1> QED
  BY <1>1, <1>2, <1>3, <1>4, <1>5 DEF PrintNext

-----------------------------------------------------------------------------
(* Theorems *)

\* No operation of the printer writes outside its block, the block is never
\* longer than INT_MAX, and update_offset always has a NUL to find
\* (cJSON.c:383-481, 1172-1219).
THEOREM BufferIsSound == PrintSpec => []BufferSound
<1>1. PrintInit => PrintInv /\ BlocksInv /\ OpenInvariant
  BY PrintInitInv DEF PrintInit, OpenInvariant
<1>2. PrintInv /\ BlocksInv /\ OpenInvariant /\ [PrintNext]_printVars => PrintInv' /\ BlocksInv' /\ OpenInvariant'
  BY PrintNextInv
<1>3. PrintInv => BufferSound
  BY LengthsAssumption DEF PrintInv, PrintTypeOK, TextInv, BufferSound
<1> QED
  BY <1>1, <1>2, <1>3, PTL DEF PrintSpec

\* Whatever goes wrong while printing, memory running out included, nothing
\* stays allocated but the text that is returned (cJSON.c:438-462, 1097-1219).
THEOREM PrintingKeepsNothing == PrintSpec => []PrintKeepsNothing
<1>1. PrintInit => PrintInv /\ BlocksInv /\ OpenInvariant
  BY PrintInitInv DEF PrintInit, OpenInvariant
<1>2. PrintInv /\ BlocksInv /\ OpenInvariant /\ [PrintNext]_printVars => PrintInv' /\ BlocksInv' /\ OpenInvariant'
  BY PrintNextInv
<1>3. BlocksInv => PrintKeepsNothing
  BY DEF BlocksInv, PrintKeepsNothing
<1> QED
  BY <1>1, <1>2, <1>3, PTL DEF PrintSpec

-----------------------------------------------------------------------------
(* How long a text is *)

\* u tells how many bytes a program has put after each operation.
IsTally(p, u) ==
    /\ u \in [0..Len(p) -> Nat] /\ u[0] = 0
    /\ \A i \in 1..Len(p) : u[i] = u[i - 1] + Len(p[i].put)

\* Text is what the recursion in it says, for there is such a function.
LEMMA TextUnfolds ==
    ASSUME NEW p, Len(p) \in Nat
    PROVE  \E t : Text(p) = t[Len(p)] /\ t[0] = <<>> /\ \A i \in 1..Len(p) : t[i] = t[i - 1] \o p[i].put
<1> DEFINE Is(f, n) == f = [i \in 0..n |-> IF i = 0 THEN <<>> ELSE f[i - 1] \o p[i].put]
           upto == CHOOSE f : Is(f, Len(p))
           Bad == {n \in 0..Len(p) : ~\E f : Is(f, n)}
<1>1. Text(p) = upto[Len(p)]
  BY DEF Text
<1>2. Bad = {}
  <2> SUFFICES ASSUME Bad # {} PROVE FALSE
    OBVIOUS
  <2>0. 0..Len(p) \subseteq Nat
    OBVIOUS
  <2>1. Bad \subseteq Nat
    <3> HIDE DEF Is
    <3> QED
      BY <2>0
  <2>2. PICK n \in Bad : \A m \in Bad : n <= m
    <3> HIDE DEF Bad
    <3> QED
      BY <2>1, Least
  <2>3. n \in 0..Len(p) /\ n \in Nat /\ ~\E f : Is(f, n)
    <3> HIDE DEF Is
    <3> QED
      BY <2>0
  <2>4. \E f : \A i \in 0..n - 1 : f[i] = IF i = 0 THEN <<>> ELSE f[i - 1] \o p[i].put
    <3>1. CASE n = 0
      <4>1. 0..n - 1 = {}
        BY <3>1
      <4> QED
        BY <4>1
    <3>2. CASE n # 0
      <4>1. n - 1 \in 0..Len(p) /\ ~(n <= n - 1)
        BY <3>2, <2>3
      <4>2. n - 1 \notin Bad
        <5> HIDE DEF Bad
        <5> QED
          BY <4>1, <2>2
      <4>3. PICK f : Is(f, n - 1)
        BY <4>1, <4>2
      <4>4. \A i \in 0..n - 1 : f[i] = IF i = 0 THEN <<>> ELSE f[i - 1] \o p[i].put
        BY <4>3
      <4> QED
        BY <4>4
    <3> QED
      BY <3>1, <3>2
  <2>5. PICK f : \A i \in 0..n - 1 : f[i] = IF i = 0 THEN <<>> ELSE f[i - 1] \o p[i].put
    BY <2>4
  <2> DEFINE last == IF n = 0 THEN <<>> ELSE f[n - 1] \o p[n].put
             g == [i \in 0..n |-> IF i = n THEN last ELSE f[i]]
  <2>6. \A i \in 0..n - 1 : g[i] = f[i]
    <3> HIDE DEF last
    <3> QED
      BY <2>3
  <2>7. ASSUME NEW i \in 0..n PROVE g[i] = IF i = 0 THEN <<>> ELSE g[i - 1] \o p[i].put
    <3>1. i \in Nat /\ (i # 0 => i - 1 \in 0..n - 1) /\ (i # n => i \in 0..n - 1)
      BY <2>3
    <3>2. CASE i = n
      <4>1. g[i] = last
        BY <3>2
      <4>2. i # 0 => g[i - 1] = f[i - 1]
        <5> HIDE DEF g
        <5> QED
          BY <3>1, <2>6
      <4> HIDE DEF g
      <4> QED
        BY <4>1, <4>2, <3>2
    <3>3. CASE i # n
      <4> HIDE DEF g
      <4>1. g[i] = f[i] /\ (i # 0 => g[i - 1] = f[i - 1])
        BY <3>1, <3>3, <2>6
      <4> QED
        BY <4>1, <3>1, <3>3, <2>5
    <3> QED
      BY <3>2, <3>3
  <2>8. Is(g, n)
    <3>1. g = [i \in 0..n |-> g[i]]
      OBVIOUS
    <3> HIDE DEF g
    <3> QED
      BY <3>1, <2>7
  <2> HIDE DEF g, Is
  <2> QED
    BY <2>3, <2>8
<1>3. Is(upto, Len(p))
  <2>1. Len(p) \in 0..Len(p)
    OBVIOUS
  <2>2. \E f : Is(f, Len(p))
    <3> HIDE DEF Is
    <3> QED
      BY <1>2, <2>1
  <2> HIDE DEF Is
  <2> QED
    BY <2>2
<1> HIDE DEF upto
<1>4. upto[0] = <<>>
  BY <1>3
<1>5. \A i \in 1..Len(p) : upto[i] = upto[i - 1] \o p[i].put
  <2>1. \A i \in 1..Len(p) : i \in 0..Len(p) /\ i # 0
    OBVIOUS
  <2> QED
    BY <1>3, <2>1
<1> QED
  BY <1>1, <1>4, <1>5

\* The bytes add up to those of the text, and never to more on the way.
LEMMA TextTally ==
    ASSUME NEW p \in Programs
    PROVE  Len(Text(p)) \in Nat /\ \E u : IsTally(p, u) /\ \A i \in 0..Len(p) : u[i] <= Len(Text(p))
<1> DEFINE n == Len(p)
<1>1. n \in Nat /\ \A i \in 1..n : p[i].put \in Seq(1..255)
  <2>1. n \in Nat
    BY ProgramsAssumption DEF WellFormed
  <2> QED
    BY <2>1, OpType
<1>2. PICK t : Text(p) = t[n] /\ t[0] = <<>> /\ \A i \in 1..n : t[i] = t[i - 1] \o p[i].put
  BY <1>1, TextUnfolds
<1> HIDE DEF n
<1>3. \A i \in 0..n : t[i] \in Seq(1..255)
  <2> DEFINE Bad == {i \in 0..n : t[i] \notin Seq(1..255)}
  <2> SUFFICES ASSUME Bad # {} PROVE FALSE
    OBVIOUS
  <2>1. Bad \subseteq Nat
    OBVIOUS
  <2>2. PICK i \in Bad : \A m \in Bad : i <= m
    <3> HIDE DEF Bad
    <3> QED
      BY <2>1, Least
  <2>3. i \in 0..n /\ i \in Nat /\ t[i] \notin Seq(1..255)
    OBVIOUS
  <2>4. i # 0
    <3>1. <<>> \in Seq(1..255)
      OBVIOUS
    <3> QED
      BY <3>1, <2>3, <1>2
  <2>5. i \in 1..n /\ i - 1 \in 0..n /\ ~(i <= i - 1)
    BY <1>1, <2>3, <2>4
  <2>6. i - 1 \notin Bad
    <3> HIDE DEF Bad
    <3> QED
      BY <2>2, <2>5
  <2>7. t[i - 1] \in Seq(1..255) /\ t[i] = t[i - 1] \o p[i].put /\ p[i].put \in Seq(1..255)
    BY <2>5, <2>6, <1>1, <1>2
  <2>8. t[i - 1] \o p[i].put \in Seq(1..255)
    BY <2>7, ConcatProperties
  <2> QED
    BY <2>3, <2>7, <2>8
<1> DEFINE u == [i \in 0..n |-> Len(t[i])]
<1>4. \A i \in 0..n : Len(t[i]) \in Nat
  BY <1>3, LenProperties
<1>5. \A i \in 1..n : Len(t[i]) = Len(t[i - 1]) + Len(p[i].put) /\ Len(p[i].put) \in Nat
  <2> SUFFICES ASSUME NEW i \in 1..n
               PROVE  Len(t[i]) = Len(t[i - 1]) + Len(p[i].put) /\ Len(p[i].put) \in Nat
    OBVIOUS
  <2>1. i - 1 \in 0..n
    BY <1>1
  <2>2. t[i - 1] \in Seq(1..255) /\ t[i] = t[i - 1] \o p[i].put /\ p[i].put \in Seq(1..255)
    BY <2>1, <1>1, <1>2, <1>3
  <2> QED
    BY <2>2, ConcatProperties, LenProperties
<1>6. \A i \in 1..n : i \in 0..n /\ i - 1 \in 0..n
  BY <1>1
<1>7. IsTally(p, u)
  <2>1. u \in [0..n -> Nat]
    BY <1>4
  <2>2. 0 \in 0..n /\ u[0] = 0
    BY <1>1, <1>2
  <2>3. \A i \in 1..n : u[i] = u[i - 1] + Len(p[i].put)
    BY <1>5, <1>6
  <2> HIDE DEF u
  <2> QED
    BY <2>1, <2>2, <2>3 DEF IsTally, n
<1>8. \A i \in 0..n : u[i] <= Len(Text(p))
  <2> DEFINE Bad == {i \in 0..n : ~(u[i] <= u[n])}
  <2>1. n \in 0..n /\ u[n] = Len(Text(p))
    BY <1>1, <1>2
  <2> HIDE DEF u
  <2> SUFFICES ASSUME Bad # {} PROVE FALSE
    BY <2>1
  <2>2. Bad \subseteq 0..n
    OBVIOUS
  <2>3. PICK i \in Bad : \A m \in Bad : m <= i
    <3> HIDE DEF Bad
    <3> QED
      BY <1>1, <2>2, Greatest
  <2>4. i \in 0..n /\ i \in Nat /\ ~(u[i] <= u[n])
    OBVIOUS
  <2>5. \A j \in 0..n : u[j] \in Nat
    BY <1>7 DEF IsTally, n
  <2>6. i # n
    BY <2>1, <2>4, <2>5
  <2>7. i + 1 \in 1..n /\ i + 1 \in 0..n /\ ~(i + 1 <= i) /\ (i + 1) - 1 = i
    BY <2>4, <2>6, <1>1
  <2>8. i + 1 \notin Bad
    <3> HIDE DEF Bad
    <3> QED
      BY <2>3, <2>7
  <2>9. u[i + 1] <= u[n]
    BY <2>7, <2>8
  <2>10. u[i + 1] = u[i] + Len(p[i + 1].put) /\ Len(p[i + 1].put) \in Nat
    BY <2>7, <1>5, <1>7 DEF IsTally, n
  <2> QED
    BY <2>1, <2>4, <2>5, <2>7, <2>9, <2>10
<1>9. Len(Text(p)) \in Nat
  BY <1>1, <1>2, <1>4
<1> QED
  BY <1>7, <1>8, <1>9 DEF n

\* The bytes put so far.
Tally(p) == CHOOSE u : IsTally(p, u) /\ \A i \in 0..Len(p) : u[i] <= Len(Text(p))

LEMMA TallyOf ==
    ASSUME NEW p \in Programs
    PROVE  /\ Tally(p)[0] = 0 /\ Len(Text(p)) \in Nat
           /\ \A i \in 0..Len(p) : Tally(p)[i] \in Nat /\ Tally(p)[i] <= Len(Text(p))
           /\ \A i \in 1..Len(p) : Tally(p)[i] = Tally(p)[i - 1] + Len(p[i].put)
<1>1. IsTally(p, Tally(p)) /\ \A i \in 0..Len(p) : Tally(p)[i] <= Len(Text(p))
  BY TextTally DEF Tally
<1>2. Len(Text(p)) \in Nat
  BY TextTally
<1> QED
  BY <1>1, <1>2 DEF IsTally

\* The write at i asks for no more than the byte after its own, and when it
\* leaves the offset where it was the next operation moves it.
LEMMA WriteAsks ==
    ASSUME NEW p \in Programs, NEW i \in 1..Len(p), p[i].act = "write"
    PROVE  p[i].need <= Len(p[i].put) + 1 /\ (p[i].moves = 0 /\ i < Len(p) => p[i + 1].act = "scan")
<1>1. p \in Seq([act : {"write", "scan", "refuse"}, need : Nat, put : Seq(1..255), ends : 0..1, moves : 0..1])
  BY ProgramsAssumption DEF WellFormed
<1>2. DOMAIN p = 1..Len(p)
  BY <1>1
<1>3. i \in Writes(p)
  BY <1>2 DEF Writes
<1> QED
  BY <1>3, ProgramsAssumption DEF WellFormed

-----------------------------------------------------------------------------
(* The spare byte *)

\* The buffer of the caller has room for the text, its NUL and one byte.
Roomy ==
    /\ caller = "PrintPreallocated" /\ Refusals(program) = {}
    /\ Len(Text(program)) + 2 <= length /\ length < MaxInt

\* The bytes behind the offset that a scan has still to pass.
Unscanned ==
    IF step > 1 /\ program[step - 1].act = "write" /\ program[step - 1].moves = 0
    THEN Len(program[step - 1].put) ELSE 0

\* The offset never runs ahead of the bytes put, so nothing is refused.
SpareInv ==
    Roomy => /\ phase \notin {"false", "null", "failed"}
             /\ phase = "print" => at + Unscanned <= Tally(program)[step - 1]

LEMMA RoomyNumbers ==
    ASSUME PrintInv, Roomy, phase = "print"
    PROVE  /\ program \in Programs /\ Len(program) \in Nat /\ step \in 1..Len(program) + 1
           /\ at \in Nat /\ length \in Nat /\ MaxInt \in Nat /\ Len(Text(program)) \in Nat
           /\ Tally(program)[step - 1] \in Nat /\ Tally(program)[step - 1] <= Len(Text(program))
           /\ step <= Len(program) =>
                 /\ Tally(program)[step] = Tally(program)[step - 1] + Len(program[step].put)
                 /\ Tally(program)[step] \in Nat /\ Tally(program)[step] <= Len(Text(program))
           /\ Unscanned \in Nat
<1>1. /\ program \in Programs /\ Len(program) \in Nat /\ step \in 1..Len(program) + 2
      /\ at \in Nat /\ length \in Nat /\ MaxInt \in Nat
  BY ProgramsAssumption, LengthsAssumption DEF PrintInv, PrintTypeOK, WellFormed
<1>2. step # Len(program) + 2
  BY DEF PrintInv, EndInv, Roomy
<1>3. step \in 1..Len(program) + 1 /\ step - 1 \in 0..Len(program) /\ (step <= Len(program) => step \in 1..Len(program) /\ step \in 0..Len(program))
  BY <1>1, <1>2
<1>4. /\ Len(Text(program)) \in Nat
      /\ \A i \in 0..Len(program) : Tally(program)[i] \in Nat /\ Tally(program)[i] <= Len(Text(program))
      /\ \A i \in 1..Len(program) : Tally(program)[i] = Tally(program)[i - 1] + Len(program[i].put)
  BY <1>1, TallyOf
<1>5. Unscanned \in Nat
  <2>1. step > 1 => step - 1 \in 1..Len(program)
    BY <1>3, <1>1
  <2>2. step > 1 => program[step - 1].put \in Seq(1..255)
    BY <2>1, <1>1, OpType
  <2> QED
    BY <2>2 DEF Unscanned
<1> QED
  BY <1>1, <1>3, <1>4, <1>5, Zenon

\* Where a write comes next no byte is left to scan.
LEMMA NothingUnscanned ==
    ASSUME PrintInv, Roomy, Printing("write")
    PROVE  Unscanned = 0
<1>1. program \in Programs /\ Len(program) \in Nat /\ step \in 1..Len(program) /\ program[step].act = "write"
  BY RoomyNumbers DEF Printing, Op
<1> SUFFICES ASSUME step > 1, program[step - 1].act = "write", program[step - 1].moves = 0 PROVE FALSE
  BY DEF Unscanned
<1>2. step - 1 \in 1..Len(program) /\ step - 1 < Len(program) /\ (step - 1) + 1 = step
  BY <1>1
<1>3. program[step].act = "scan"
  BY <1>1, <1>2, WriteAsks
<1> QED
  BY <1>1, <1>3

\* What a write asks for is in the block.
LEMMA RoomyFits ==
    ASSUME PrintInv, SpareInv, Roomy, Printing("write")
    PROVE  Fits
<1>1. /\ program \in Programs /\ Len(program) \in Nat /\ step \in 1..Len(program) /\ program[step].act = "write"
      /\ at \in Nat /\ length \in Nat /\ MaxInt \in Nat /\ phase = "print" /\ Op = program[step]
  BY RoomyNumbers DEF Printing, Op
<1> DEFINE before == Tally(program)[step - 1]
           after == Tally(program)[step]
           size == Len(program[step].put)
           all == Len(Text(program))
<1>2. before \in Nat /\ after = before + size /\ after \in Nat /\ after <= all /\ all \in Nat
  BY <1>1, RoomyNumbers
<1>3. Op.need \in Nat /\ Op.need <= size + 1 /\ size \in Nat
  BY <1>1, WriteAsks, OpType
<1>4. at <= before
  <2>1. Unscanned = 0
    BY NothingUnscanned
  <2>2. at + Unscanned <= before
    BY <1>1 DEF SpareInv
  <2> QED
    BY <2>1, <2>2, <1>1
<1>5. all + 2 <= length /\ length < MaxInt
  BY DEF Roomy
<1> DEFINE need == Op.need
<1>6. need \in Nat /\ need <= size + 1
  BY <1>3
<1>7. Needed = need + at + 1
  BY DEF Needed
<1>8. Refused = ((length > 0 /\ at >= length) \/ need > MaxInt)
  BY DEF Refused
<1> HIDE DEF before, after, size, all, need
<1>9. need + at + 1 <= length /\ ~(at >= length) /\ ~(need > MaxInt)
  BY <1>1, <1>2, <1>3, <1>4, <1>5, <1>6
<1> QED
  BY <1>7, <1>8, <1>9 DEF Fits

\* update_offset goes no further than the NUL behind what was written.
LEMMA NextEndLeast ==
    ASSUME length \in Nat, at \in Nat, NEW n \in Ends
    PROVE  NextEnd <= n
<1>1. Ends \subseteq Nat
  BY DEF Ends
<1>2. \E m \in Ends : \A k \in Ends : m <= k
  BY <1>1, Least
<1>3. \A k \in Ends : NextEnd <= k
  BY <1>2 DEF NextEnd
<1> QED
  BY <1>3

LEMMA SpareScan ==
    ASSUME PrintInv, SpareInv, Roomy, Scan
    PROVE  at' + Unscanned' <= Tally(program)[step]
<1>1. phase = "print" /\ Printing("scan") /\ program' = program /\ step' = step + 1 /\ at' = NextEnd
  BY DEF Scan, Roomy
<1>2. /\ program \in Programs /\ Len(program) \in Nat /\ step \in 1..Len(program) /\ program[step].act = "scan"
      /\ at \in Nat /\ length \in Nat
  BY <1>1, RoomyNumbers DEF Printing, Op
<1>3. step > 1 /\ program[step - 1].act = "write" /\ program[step - 1].ends = 1
  BY <1>2, OpOrder
<1>4. step - 1 \in 1..Len(program) /\ (step - 1) + 1 = step /\ (step + 1) - 1 = step /\ step + 1 > 1
  BY <1>2, <1>3
<1>5. step - 1 \in ToScan
  <2>1. DOMAIN program = 1..Len(program)
    BY <1>2, ProgramsAssumption DEF WellFormed
  <2> QED
    BY <2>1, <1>3, <1>4 DEF ToScan, Writes
<1>6. program[step - 1].moves \in 0..1
  BY <1>2, <1>4, OpType
<1>7. at + Unscanned < length /\ block[at + Unscanned + 1] = NUL
  <2>1. Unscanned = IF program[step - 1].moves = 1 THEN 0 ELSE Len(program[step - 1].put)
    BY <1>3, <1>6 DEF Unscanned
  <2> QED
    BY <2>1, <1>1, <1>5 DEF PrintInv, TextInv
<1>8. Unscanned \in Nat
  BY <1>1, RoomyNumbers
<1>9. at + Unscanned \in Ends
  BY <1>2, <1>7, <1>8 DEF Ends
<1>10. NextEnd <= at + Unscanned
  BY <1>2, <1>9, NextEndLeast
<1>11. Unscanned' = 0
  BY <1>1, <1>2, <1>4 DEF Unscanned
<1>12. at + Unscanned <= Tally(program)[step - 1]
  BY <1>1 DEF SpareInv
<1>13. /\ Tally(program)[step] = Tally(program)[step - 1] + Len(program[step].put)
       /\ Tally(program)[step] \in Nat /\ Tally(program)[step - 1] \in Nat
  BY <1>1, <1>2, RoomyNumbers
<1>14. Len(program[step].put) \in Nat
  BY <1>2, OpType
<1>15. NextEnd \in Nat
  <2>1. at <= length
    BY <1>1 DEF PrintInv, OffsetInv
  <2>2. NextEnd \in at..length
    BY <2>1, <1>2, NextEndFound
  <2> QED
    BY <2>2, <1>2
<1> DEFINE before == Tally(program)[step - 1]
           after == Tally(program)[step]
           size == Len(program[step].put)
           last == NextEnd
           left == Unscanned
<1> HIDE DEF before, after, size, last, left
<1>16. last <= after
  <2>1. last \in Nat /\ left \in Nat /\ before \in Nat /\ size \in Nat /\ at \in Nat
    BY <1>2, <1>8, <1>13, <1>14, <1>15 DEF last, left, before, size
  <2>2. last <= at + left /\ at + left <= before /\ after = before + size
    BY <1>10, <1>12, <1>13 DEF last, left, before, size, after
  <2> QED
    BY <2>1, <2>2
<1>17. at' + Unscanned' = last
  BY <1>1, <1>11, <1>15 DEF last
<1> QED
  BY <1>16, <1>17 DEF after

LEMMA SpareWrite ==
    ASSUME PrintInv, SpareInv, Roomy, WriteInPlace
    PROVE  at' + Unscanned' <= Tally(program)[step]
<1>1. /\ phase = "print" /\ Printing("write") /\ program' = program /\ step' = step + 1
      /\ at' = at + (IF Op.moves = 1 THEN Len(Op.put) ELSE 0)
  BY DEF WriteInPlace, Advance, Printing
<1>2. /\ program \in Programs /\ Len(program) \in Nat /\ step \in 1..Len(program) /\ program[step].act = "write"
      /\ at \in Nat /\ Op = program[step]
  BY <1>1, RoomyNumbers DEF Printing, Op
<1> DEFINE size == Len(program[step].put)
<1>3. size \in Nat /\ program[step].moves \in 0..1
  BY <1>2, OpType
<1>4. (step + 1) - 1 = step /\ step + 1 > 1
  BY <1>2
<1>5. Unscanned' = IF program[step].moves = 0 THEN size ELSE 0
  BY <1>1, <1>2, <1>4 DEF Unscanned
<1>6. at' + Unscanned' = at + size
  <2> DEFINE moves == program[step].moves
  <2>0. moves \in 0..1 /\ at' = at + (IF moves = 1 THEN size ELSE 0) /\ Unscanned' = IF moves = 0 THEN size ELSE 0
    BY <1>1, <1>2, <1>3, <1>5
  <2> HIDE DEF moves, size
  <2>1. CASE moves = 0
    BY <2>0, <2>1, <1>2, <1>3
  <2>2. CASE moves = 1
    BY <2>0, <2>2, <1>2, <1>3
  <2> QED
    BY <2>0, <2>1, <2>2
<1>7. at <= Tally(program)[step - 1]
  <2>1. Unscanned = 0
    BY <1>1, NothingUnscanned
  <2>2. at + Unscanned <= Tally(program)[step - 1]
    BY <1>1 DEF SpareInv
  <2> QED
    BY <2>1, <2>2, <1>2
<1>8. /\ Tally(program)[step] = Tally(program)[step - 1] + size
      /\ Tally(program)[step] \in Nat /\ Tally(program)[step - 1] \in Nat
  BY <1>1, <1>2, RoomyNumbers
<1> HIDE DEF size
<1> QED
  BY <1>2, <1>3, <1>6, <1>7, <1>8

LEMMA SpareNextInv ==
    ASSUME PrintInv, OpenInvariant, SpareInv, [PrintNext]_printVars
    PROVE  SpareInv'
<1> SUFFICES ASSUME Roomy'
             PROVE  /\ phase' \notin {"false", "null", "failed"}
                    /\ phase' = "print" => at' + Unscanned' <= Tally(program')[step' - 1]
  BY DEF SpareInv
<1>1. program' = program /\ caller' = caller /\ length' = length /\ caller = "PrintPreallocated"
  <2>1. program' = program /\ caller' = caller
    BY DEF PrintNext, printVars, Open, OpenFails, WriteInPlace, WriteAfterGrowing, PrintRefuses, GrowFails, Scan,
           PrintReturns, ShrinkFails, OthersReturn, GiveUp, Advance
  <2>2. caller = "PrintPreallocated"
    BY <2>1 DEF Roomy
  <2> QED
    BY <2>1, <2>2 DEF PrintNext, printVars, Open, OpenFails, WriteInPlace, WriteAfterGrowing, PrintRefuses, GrowFails,
           Scan, PrintReturns, ShrinkFails, OthersReturn, GiveUp, Grows
<1>2. Roomy
  BY <1>1 DEF Roomy
<1>3. phase \notin {"false", "null", "failed"} /\ (phase = "print" => at + Unscanned <= Tally(program)[step - 1])
  BY <1>2 DEF SpareInv
<1>4. CASE UNCHANGED printVars
  <2>1. phase' = phase /\ at' = at /\ step' = step /\ Unscanned' = Unscanned
    BY <1>4 DEF printVars, Unscanned
  <2> QED
    BY <2>1, <1>1, <1>3
<1>5. CASE Open
  <2>1. phase' = "print" /\ step = 1 /\ at = 0 /\ step' = step /\ at' = at
    BY <1>5 DEF Open, OpenInvariant
  <2>2. Unscanned' = 0
    BY <2>1 DEF Unscanned
  <2>3. program \in Programs
    BY DEF PrintInv, PrintTypeOK
  <2>4. Tally(program)[0] = 0
    BY <2>3, TallyOf
  <2> QED
    BY <2>1, <2>2, <2>4, <1>1
<1>6. CASE PrintRefuses
  <2>1. ~Printing("refuse")
    <3> SUFFICES ASSUME Printing("refuse") PROVE FALSE
      OBVIOUS
    <3>1. program \in Programs /\ step \in 1..Len(program) /\ program[step].act = "refuse"
      BY <1>2, RoomyNumbers DEF Printing, Op
    <3>2. step \in DOMAIN program
      BY <3>1, ProgramsAssumption DEF WellFormed
    <3> QED
      BY <3>1, <3>2, <1>2 DEF Roomy, Refusals
  <2>2. Printing("write") => Fits
    BY <1>2, RoomyFits
  <2> QED
    BY <2>1, <2>2, <1>6 DEF PrintRefuses
<1>7. CASE OpenFails \/ WriteAfterGrowing \/ GrowFails \/ PrintReturns \/ ShrinkFails \/ GiveUp
  BY <1>7, <1>1, <1>3 DEF OpenFails, WriteAfterGrowing, GrowFails, PrintReturns, ShrinkFails, GiveUp, Grows
<1>8. CASE OthersReturn
  BY <1>8 DEF OthersReturn
<1>9. CASE WriteInPlace
  <2>1. at' + Unscanned' <= Tally(program)[step]
    BY <1>2, <1>9, SpareWrite
  <2>2. phase' = phase /\ phase = "print" /\ step' = step + 1
    BY <1>9 DEF WriteInPlace, Advance, Printing
  <2>3. (step + 1) - 1 = step
    BY DEF PrintInv, PrintTypeOK
  <2> QED
    BY <2>1, <2>2, <2>3, <1>1
<1>10. CASE Scan
  <2>1. at' + Unscanned' <= Tally(program)[step]
    BY <1>2, <1>10, SpareScan
  <2>2. phase' = phase /\ phase = "print" /\ step' = step + 1
    BY <1>10 DEF Scan
  <2>3. (step + 1) - 1 = step
    BY DEF PrintInv, PrintTypeOK
  <2> QED
    BY <2>1, <2>2, <2>3, <1>1
<1> QED
  BY <1>4, <1>5, <1>6, <1>7, <1>8, <1>9, <1>10 DEF PrintNext

\* A caller of cJSON_PrintPreallocated who leaves one byte more than the text
\* and its NUL is never refused, whatever the item and however long the buffer
\* (cJSON.c:383-481, 1202-1219).
THEOREM OneSpareByteSuffices == PrintSpec => []SpareByteSuffices
<1>1. PrintInit => PrintInv /\ BlocksInv /\ OpenInvariant /\ SpareInv
  BY PrintInitInv DEF PrintInit, OpenInvariant, SpareInv
<1>2. PrintInv /\ BlocksInv /\ OpenInvariant /\ SpareInv /\ [PrintNext]_printVars
      => PrintInv' /\ BlocksInv' /\ OpenInvariant' /\ SpareInv'
  BY PrintNextInv, SpareNextInv
<1>3. SpareInv => SpareByteSuffices
  BY DEF SpareInv, Roomy, SpareByteSuffices
<1> QED
  BY <1>1, <1>2, <1>3, PTL DEF PrintSpec

-----------------------------------------------------------------------------
(***************************************************************************)
(* Parsing.                                                                *)
(***************************************************************************)

\* The NUL is behind the text and nowhere in it.
ContentInv ==
    /\ content \in Seq(0..255) /\ Length \in Nat /\ Length > 0
    /\ At(Length - 1) = 0
    /\ \A o \in 0..Length - 2 : At(o) # 0

Kinds == {"array", "object"}

\* The calls that have not returned.
IsStack(s) == \E S : s \in Seq(S) /\ \A f \in S : "kind" \in DOMAIN f /\ f.kind \in Kinds

Parsing == stand \notin {"fail", "failed"}

PlaceInv ==
    /\ Parsing =>
          /\ offset \in Nat /\ offset < Length
          /\ IsStack(stack) /\ depth = Len(stack) /\ depth <= NestingLimit
    /\ stand = "element" => offset + 1 < Length /\ stack # <<>>

ParseInv == ContentInv /\ PlaceInv

-----------------------------------------------------------------------------
(* The stack *)

LEMMA Pushed ==
    ASSUME NEW s, IsStack(s), NEW r, "kind" \in DOMAIN r, r.kind \in Kinds
    PROVE  Len(s) \in Nat /\ IsStack(Append(s, r)) /\ Len(Append(s, r)) = Len(s) + 1 /\ Append(s, r) # <<>>
<1>1. PICK S : s \in Seq(S) /\ \A f \in S : "kind" \in DOMAIN f /\ f.kind \in Kinds
  BY DEF IsStack
<1>2. s \in Seq(S \cup {r})
  <2>1. \A i \in 1..Len(s) : s[i] \in S \cup {r}
    BY <1>1
  <2>2. Len(s) \in Nat /\ s = [i \in 1..Len(s) |-> s[i]]
    BY <1>1
  <2> QED
    BY <2>1, <2>2
<1>3. Append(s, r) \in Seq(S \cup {r}) /\ Len(Append(s, r)) = Len(s) + 1 /\ Len(s) \in Nat
  BY <1>2
<1>4. Append(s, r) # <<>>
  <2>1. Len(<<>>) = 0
    BY EmptySeq
  <2>2. Len(Append(s, r)) # 0
    BY <1>3
  <2> QED
    BY <2>1, <2>2, Zenon
<1> QED
  BY <1>1, <1>3, <1>4 DEF IsStack

LEMMA Changed ==
    ASSUME NEW s, IsStack(s), s # <<>>, NEW e
    PROVE  IsStack([s EXCEPT ![Len(s)].elements = e]) /\ Len([s EXCEPT ![Len(s)].elements = e]) = Len(s)
<1>1. PICK S : s \in Seq(S) /\ \A f \in S : "kind" \in DOMAIN f /\ f.kind \in Kinds
  BY DEF IsStack
<1> DEFINE top == s[Len(s)]
           new == [top EXCEPT !.elements = e]
           t == [s EXCEPT ![Len(s)] = new]
<1>2. Len(s) \in Nat /\ Len(s) > 0 /\ s = [i \in 1..Len(s) |-> s[i]] /\ top \in S
  BY <1>1
<1>3. "kind" \in DOMAIN new /\ new.kind = top.kind
  BY <1>1, <1>2
<1> HIDE DEF new
<1>4. t = [i \in 1..Len(s) |-> IF i = Len(s) THEN new ELSE s[i]]
  BY <1>2
<1>5. \A i \in 1..Len(s) : s[i] \in S
  BY <1>1
<1>6. t \in Seq(S \cup {new}) /\ Len(t) = Len(s)
  BY <1>2, <1>4, <1>5
<1>7. \A f \in S \cup {new} : "kind" \in DOMAIN f /\ f.kind \in Kinds
  BY <1>1, <1>2, <1>3
<1>8. [s EXCEPT ![Len(s)].elements = e] = t
  BY DEF new
<1> HIDE DEF t
<1> QED
  BY <1>6, <1>7, <1>8 DEF IsStack

LEMMA Popped ==
    ASSUME NEW s, IsStack(s), s # <<>>
    PROVE  /\ Len(s) \in Nat /\ Len(s) > 0
           /\ IsStack(SubSeq(s, 1, Len(s) - 1)) /\ Len(SubSeq(s, 1, Len(s) - 1)) = Len(s) - 1
           /\ s[Len(s)].kind \in Kinds
<1>1. PICK S : s \in Seq(S) /\ \A f \in S : "kind" \in DOMAIN f /\ f.kind \in Kinds
  BY DEF IsStack
<1>2. Len(s) \in Nat /\ Len(s) > 0 /\ s[Len(s)] \in S
  BY <1>1
<1>3. SubSeq(s, 1, Len(s) - 1) \in Seq(S) /\ Len(SubSeq(s, 1, Len(s) - 1)) = Len(s) - 1
  <2>1. 1 \in Int /\ Len(s) - 1 \in Int /\ \A i \in 1..Len(s) - 1 : s[i] \in S
    BY <1>1, <1>2
  <2>2. /\ SubSeq(s, 1, Len(s) - 1) \in Seq(S)
        /\ Len(SubSeq(s, 1, Len(s) - 1)) = IF 1 <= Len(s) - 1 THEN (Len(s) - 1) - 1 + 1 ELSE 0
    BY <2>1, SubSeqProperties
  <2> DEFINE n == Len(s)
  <2>3. (IF 1 <= n - 1 THEN (n - 1) - 1 + 1 ELSE 0) = n - 1
    <3>1. n \in Nat /\ n > 0
      BY <1>2
    <3> HIDE DEF n
    <3> QED
      BY <3>1
  <2>4. Len(SubSeq(s, 1, Len(s) - 1)) = n - 1
    BY <2>2, <2>3
  <2> QED
    BY <2>2, <2>4
<1> QED
  BY <1>1, <1>2, <1>3 DEF IsStack

-----------------------------------------------------------------------------
(* Moving in the text *)

\* What is not the NUL has something behind it.
LEMMA NotAtTheEnd ==
    ASSUME ContentInv, NEW o \in Nat, o < Length, At(o) # 0
    PROVE  o + 1 < Length
<1>1. Length \in Nat /\ o # Length - 1
  BY DEF ContentInv
<1> QED
  BY <1>1

\* Skipping blanks goes forward, and ends at the NUL.
LEMMA SkipStays ==
    ASSUME ContentInv, NEW o \in Nat, o < Length
    PROVE  Skip(o) \in o..Length - 1 /\ Skip(o) \in Nat /\ Skip(o) < Length
<1> DEFINE seen == {i \in o..Length - 1 : At(i) > 32}
<1>1. Length \in Nat /\ Length > 0 /\ seen \subseteq o..Length - 1 /\ seen \subseteq Nat
  BY DEF ContentInv
<1>2. CASE seen = {}
  <2>1. Skip(o) = Length - 1
    BY <1>2 DEF Skip
  <2> QED
    BY <2>1, <1>1
<1>3. CASE seen # {}
  <2>1. \E i \in seen : \A j \in seen : i <= j
    <3> HIDE DEF seen
    <3> QED
      BY <1>1, <1>3, Least
  <2>2. Skip(o) = CHOOSE i \in seen : \A j \in seen : i <= j
    BY <1>3 DEF Skip
  <2>3. Skip(o) \in seen
    <3> HIDE DEF seen
    <3> QED
      BY <2>1, <2>2
  <2> QED
    BY <2>3, <1>1
<1> QED
  BY <1>2, <1>3

\* A string ends at a quote, or not at all.
LEMMA StringEndStays ==
    ASSUME ContentInv, NEW q \in Nat, q < Length, StringEnd(q) < Length
    PROVE  StringEnd(q) \in q + 1..Length - 1 /\ StringEnd(q) + 1 < Length /\ StringEnd(q) \in Nat
<1> DEFINE escaped[i \in q + 1..Length] == i > q + 1 /\ At(i - 1) = Backslash /\ ~escaped[i - 1]
<1> DEFINE ends == {i \in q + 1..Length - 1 : At(i) = Quote /\ ~escaped[i]}
<1>1. StringEnd(q) = IF ends = {} THEN Length ELSE CHOOSE i \in ends : \A j \in ends : i <= j
  BY DEF StringEnd
<1>2. Length \in Nat /\ ends \subseteq q + 1..Length - 1 /\ ends \subseteq Nat /\ \A i \in ends : At(i) = Quote
  <2> HIDE DEF escaped
  <2> QED
    BY DEF ContentInv
<1> HIDE DEF ends
<1>3. ends # {}
  BY <1>1, <1>2
<1>4. \E i \in ends : \A j \in ends : i <= j
  BY <1>2, <1>3, Least
<1>5. StringEnd(q) \in ends
  BY <1>1, <1>3, <1>4
<1>6. StringEnd(q) \in q + 1..Length - 1 /\ At(StringEnd(q)) # 0
  <2>1. StringEnd(q) \in q + 1..Length - 1 /\ At(StringEnd(q)) = Quote
    BY <1>2, <1>5
  <2> QED
    BY <2>1 DEF Quote
<1>7. StringEnd(q) \in Nat
  BY <1>6, <1>2
<1>8. StringEnd(q) + 1 < Length
  BY <1>6, <1>7, NotAtTheEnd
<1> QED
  BY <1>6, <1>7, <1>8

NumberBytes == Digits \cup Signs \cup Exponents \cup {46}

\* The text that is copied for strtod ends before the NUL.
LEMMA NumberEndStays ==
    ASSUME ContentInv, NEW o \in Nat, o < Length
    PROVE  NumberEnd(o) \in o..Length - 1
<1> DEFINE T == {e \in o..Length : e = Length \/ e = o + NumberBuffer \/ At(e) \notin NumberBytes}
<1> DEFINE End(e) ==
        /\ \A i \in o..e - 1 : At(i) \in Digits \cup Signs \cup Exponents \cup {46}
        /\ e = Length \/ e = o + NumberBuffer \/ At(e) \notin Digits \cup Signs \cup Exponents \cup {46}
        /\ e <= o + NumberBuffer
<1>1. Length \in Nat /\ T \subseteq Nat /\ Length \in T /\ NumberBuffer \in Nat
  BY LimitsAssumption DEF ContentInv
<1>2. PICK e \in T : \A f \in T : e <= f
  <2> HIDE DEF T
  <2> QED
    BY <1>1, Least
<1>3. e \in o..Length /\ (e = Length \/ e = o + NumberBuffer \/ At(e) \notin NumberBytes)
  OBVIOUS
<1>4. \A i \in o..e - 1 : At(i) \in NumberBytes
  <2> SUFFICES ASSUME NEW i \in o..e - 1, At(i) \notin NumberBytes PROVE FALSE
    OBVIOUS
  <2>1. i \in T
    BY <1>1, <1>3
  <2> QED
    BY <2>1, <1>2, <1>3
<1>5. e <= o + NumberBuffer
  <2> SUFFICES ASSUME o + NumberBuffer < e PROVE FALSE
    BY <1>1, <1>3
  <2>1. o + NumberBuffer \in T
    BY <1>1, <1>3
  <2> QED
    BY <2>1, <1>1, <1>2, <1>3
<1>6. End(e)
  BY <1>3, <1>4, <1>5 DEF NumberBytes
<1>7. NumberEnd(o) \in o..Length /\ End(NumberEnd(o))
  <2>1. NumberEnd(o) = CHOOSE x \in o..Length : End(x)
    BY DEF NumberEnd
  <2> HIDE DEF End
  <2> QED
    BY <1>3, <1>6, <2>1
<1>8. At(Length - 1) \notin NumberBytes
  <2>1. 0 \notin NumberBytes
    BY DEF NumberBytes, Digits, Signs, Exponents
  <2>2. At(Length - 1) = 0
    BY DEF ContentInv
  <2> QED
    BY <2>1, <2>2
<1>9. NumberEnd(o) # Length
  <2> SUFFICES ASSUME NumberEnd(o) = Length PROVE FALSE
    OBVIOUS
  <2>1. Length - 1 \in o..Length - 1
    BY <1>1
  <2> QED
    BY <2>1, <1>7, <1>8 DEF NumberBytes
<1> HIDE DEF End
<1> QED
  BY <1>1, <1>7, <1>9

LEMMA AfterNumberStays ==
    ASSUME ContentInv, NEW o \in Nat, o < Length
    PROVE  AfterNumber(o) \in Nat /\ AfterNumber(o) < Length
<1>1. NumberEnd(o) \in o..Length - 1 /\ Length \in Nat
  BY NumberEndStays DEF ContentInv
<1>2. Decimals(o) \subseteq o + 1..NumberEnd(o)
  BY DEF Decimals
<1>3. Decimals(o) \subseteq 0..Length
  BY <1>1, <1>2
<1>4. CASE Decimals(o) = {}
  BY <1>4 DEF AfterNumber
<1>5. CASE Decimals(o) # {}
  <2>1. \E e \in Decimals(o) : \A f \in Decimals(o) : f <= e
    BY <1>1, <1>3, <1>5, Greatest
  <2>2. AfterNumber(o) \in Decimals(o)
    BY <1>5, <2>1 DEF AfterNumber
  <2> QED
    BY <2>2, <1>1, <1>2
<1> QED
  BY <1>4, <1>5

\* A literal that is read ends before the NUL.
LEMMA LiteralStays ==
    ASSUME ContentInv, NEW o \in Nat, o < Length, NEW type \in DOMAIN Literals, Reads(o, Literals[type])
    PROVE  o + Len(Literals[type]) \in Nat /\ o + Len(Literals[type]) < Length
<1> DEFINE w == Literals[type]
<1>1. Len(w) \in Nat /\ Len(w) > 0 /\ w[Len(w)] # 0
  <2>1. type = "null" \/ type = "false" \/ type = "true"
    BY DEF Literals
  <2>2. CASE type = "null"
    <3>1. w = <<110, 117, 108, 108>>
      BY <2>2 DEF Literals
    <3> QED
      BY <3>1
  <2>3. CASE type = "false"
    <3>1. w = <<102, 97, 108, 115, 101>>
      BY <2>3 DEF Literals
    <3> QED
      BY <3>1
  <2>4. CASE type = "true"
    <3>1. w = <<116, 114, 117, 101>>
      BY <2>4 DEF Literals
    <3> QED
      BY <3>1
  <2> QED
    BY <2>1, <2>2, <2>3, <2>4
<1>2. o + Len(w) <= Length /\ \A i \in 1..Len(w) : At(o + i - 1) = w[i]
  BY DEF Reads
<1> HIDE DEF w
<1>3. At(o + Len(w) - 1) # 0
  BY <1>1, <1>2
<1>4. Length \in Nat /\ o + Len(w) - 1 \in Nat /\ o + Len(w) - 1 < Length
  BY <1>1, <1>2 DEF ContentInv
<1>5. o + Len(w) - 1 + 1 < Length
  BY <1>3, <1>4, NotAtTheEnd
<1> QED
  BY <1>1, <1>5 DEF w

-----------------------------------------------------------------------------
(* The steps *)

LEMMA ParseInitInv ==
    ASSUME ParseInit
    PROVE  ParseInv
<1>1. PICK t \in Texts : content = Append(t, 0)
  BY DEF ParseInit
<1>2. t \in Seq(1..255)
  BY TextsAssumption
<1>3. Len(t) \in Nat /\ \A i \in 1..Len(t) : t[i] \in 1..255
  BY <1>2, ElementOfSeq, LenProperties
<1>4. Length = Len(t) + 1 /\ content[Length] = 0 /\ \A i \in 1..Len(t) : content[i] = t[i]
  BY <1>1, <1>2 DEF Length
<1>5. content \in Seq(0..255)
  <2>1. \A i \in 1..Len(t) : t[i] \in 0..255
    BY <1>3
  <2>2. t \in Seq(0..255)
    <3> DEFINE S == 0..255
    <3>1. t \in Seq(S) <=> \A i \in 1..Len(t) : t[i] \in S
      <4>1. t = [i \in 1..Len(t) |-> t[i]]
        BY <1>2
      <4> HIDE DEF S
      <4> QED
        BY <4>1, <1>3
    <3> QED
      BY <3>1, <2>1
  <2> QED
    BY <1>1, <2>2
<1>6. \A o \in 0..Length - 2 : At(o) # 0
  <2> SUFFICES ASSUME NEW o \in 0..Length - 2 PROVE At(o) # 0
    OBVIOUS
  <2>1. o + 1 \in 1..Len(t)
    BY <1>3, <1>4
  <2>2. content[o + 1] = t[o + 1] /\ t[o + 1] \in 1..255
    BY <2>1, <1>3, <1>4
  <2>3. At(o) \in 1..255
    BY <2>2 DEF At
  <2> QED
    BY <2>3
<1>7. ContentInv
  <2>1. Length - 1 + 1 = Length /\ Length \in Nat /\ Length > 0
    BY <1>3, <1>4
  <2>2. At(Length - 1) = 0
    BY <1>4, <2>1 DEF At
  <2> QED
    BY <1>5, <1>6, <2>1, <2>2 DEF ContentInv
<1>8. IsStack(<<>>)
  <2> DEFINE S == {}
  <2>1. <<>> \in Seq(S) /\ \A f \in S : "kind" \in DOMAIN f /\ f.kind \in Kinds
    BY EmptySeq
  <2> HIDE DEF S
  <2> QED
    BY <2>1 DEF IsStack
<1>9. PlaceInv
  BY <1>3, <1>4, <1>8, LimitsAssumption DEF ParseInit, PlaceInv
<1> QED
  BY <1>7, <1>9 DEF ParseInv

\* A step that fails has only the text to keep.
LEMMA FailsInv ==
    ASSUME ParseInv, content' = content, stand' \in {"fail", "failed"}
    PROVE  ParseInv'
<1>1. ContentInv'
  BY DEF ParseInv, ContentInv, Length, At
<1> QED
  BY <1>1 DEF ParseInv, PlaceInv, Parsing

\* One that moves must stay before the end.
LEMMA MovesInv ==
    ASSUME ParseInv, content' = content, stand' \notin {"fail", "failed", "element"},
           offset' \in Nat, offset' < Length,
           IsStack(stack'), depth' = Len(stack'), depth' <= NestingLimit
    PROVE  ParseInv'
<1>1. ContentInv' /\ Length' = Length
  BY DEF ParseInv, ContentInv, Length, At
<1> QED
  BY <1>1 DEF ParseInv, PlaceInv, Parsing

\* One that finds a value stays where it is in the stack.
LEMMA ReturnsInv ==
    ASSUME ParseInv, Parsing, NEW type, NEW value, NEW o \in Nat, o < Length, Returns(type, value, o)
    PROVE  ParseInv'
<1>1. content' = content /\ stand' = "after" /\ offset' = o /\ stack' = stack /\ depth' = depth
  BY DEF Returns
<1>2. IsStack(stack) /\ depth = Len(stack) /\ depth <= NestingLimit
  BY DEF ParseInv, PlaceInv
<1> QED
  BY <1>1, <1>2, MovesInv

LEMMA StartsInv ==
    ASSUME ParseInv, ParseStarts
    PROVE  ParseInv'
<1>1. CASE content' = content /\ stand' \in {"fail", "failed"}
  BY <1>1, FailsInv
<1>2. CASE /\ content' = content /\ stand' = "value" /\ offset' = Skip(Bom)
           /\ stack' = stack /\ depth' = depth /\ stand = "start"
  <2>1. Bom \in Nat /\ Bom < Length /\ ContentInv
    BY DEF Bom, ParseInv, ContentInv
  <2>2. Skip(Bom) \in Nat /\ Skip(Bom) < Length
    BY <2>1, SkipStays
  <2>3. IsStack(stack) /\ depth = Len(stack) /\ depth <= NestingLimit
    BY <1>2 DEF ParseInv, PlaceInv, Parsing
  <2> QED
    BY <1>2, <2>2, <2>3, MovesInv
<1> QED
  BY <1>1, <1>2 DEF ParseStarts, Fails

\* What is true where a value starts.
LEMMA Standing ==
    ASSUME ParseInv, Parsing
    PROVE  /\ ContentInv /\ offset \in Nat /\ offset < Length /\ Length \in Nat
           /\ IsStack(stack) /\ depth = Len(stack) /\ depth <= NestingLimit
  BY DEF ParseInv, PlaceInv, ContentInv

LEMMA ValueInv ==
    ASSUME ParseInv, ParseLiteral \/ ParseNumber \/ ParseString \/ ParseValueFails
    PROVE  ParseInv'
<1>1. stand = "value" /\ Parsing
  BY DEF ParseLiteral, ParseNumber, ParseString, ParseValueFails, Parsing
<1>2. /\ ContentInv /\ offset \in Nat /\ offset < Length /\ Length \in Nat
  BY <1>1, Standing
<1>3. CASE content' = content /\ stand' \in {"fail", "failed"}
  BY <1>3, FailsInv
<1>4. CASE ParseLiteral
  <2>1. PICK type \in DOMAIN Literals :
          Reads(offset, Literals[type]) /\ Returns(type, None, offset + Len(Literals[type]))
    BY <1>4 DEF ParseLiteral
  <2>2. offset + Len(Literals[type]) \in Nat /\ offset + Len(Literals[type]) < Length
    BY <2>1, <1>2, LiteralStays
  <2> QED
    BY <1>1, <2>1, <2>2, ReturnsInv
<1>5. CASE ParseNumber
  <2>1. AfterNumber(offset) \in Nat /\ AfterNumber(offset) < Length
    BY <1>2, AfterNumberStays
  <2>2. CASE Returns("number", offset, AfterNumber(offset))
    BY <1>1, <2>1, <2>2, ReturnsInv
  <2> QED
    BY <1>3, <1>5, <2>2 DEF ParseNumber, Fails
<1>6. CASE ParseString
  <2>1. CASE IsString(offset) /\ Returns("string", offset, StringEnd(offset) + 1)
    <3>1. StringEnd(offset) + 1 < Length /\ StringEnd(offset) + 1 \in Nat
      BY <2>1, <1>2, StringEndStays DEF IsString
    <3> QED
      BY <1>1, <2>1, <3>1, ReturnsInv
  <2> QED
    BY <1>3, <1>6, <2>1 DEF ParseString, StringFails, Fails
<1>7. CASE ParseValueFails
  BY <1>3, <1>7 DEF ParseValueFails, Fails
<1> QED
  BY <1>4, <1>5, <1>6, <1>7

LEMMA OpensInv ==
    ASSUME ParseInv, NEW kind \in Kinds, ParseOpens(kind)
    PROVE  ParseInv'
<1> DEFINE o == Skip(offset + 1)
<1>1. stand = "value" /\ Parsing /\ At(offset) = Opening[kind]
  BY DEF ParseOpens, Parsing
<1>2. /\ ContentInv /\ offset \in Nat /\ offset < Length /\ Length \in Nat
      /\ IsStack(stack) /\ depth = Len(stack) /\ depth <= NestingLimit
  BY <1>1, Standing
<1>3. offset + 1 \in Nat /\ offset + 1 < Length
  <2>1. At(offset) # 0
    BY <1>1 DEF Opening, Kinds
  <2> QED
    BY <2>1, <1>2, NotAtTheEnd
<1>4. o \in offset + 1..Length - 1 /\ o \in Nat /\ o < Length
  BY <1>2, <1>3, SkipStays
<1>5. CASE content' = content /\ stand' \in {"fail", "failed"}
  BY <1>5, FailsInv
<1>6. CASE At(o) = Closing[kind] /\ Returns(kind, None, o + 1)
  <2>1. At(o) # 0
    BY <1>6 DEF Closing, Kinds
  <2>2. o + 1 \in Nat /\ o + 1 < Length
    BY <2>1, <1>2, <1>4, NotAtTheEnd
  <2> HIDE DEF o
  <2> QED
    BY <1>1, <1>6, <2>2, ReturnsInv
<1>7. CASE /\ depth < NestingLimit /\ depth' = depth + 1 /\ offset' = o - 1 /\ stand' = "element"
           /\ stack' = Append(stack, [kind |-> kind, item |-> Item, elements |-> <<>>]) /\ content' = content
  <2>1. Len(stack) \in Nat /\ IsStack(stack') /\ Len(stack') = Len(stack) + 1 /\ stack' # <<>>
    <3> DEFINE r == [kind |-> kind, item |-> Item, elements |-> <<>>]
    <3>1. "kind" \in DOMAIN r /\ r.kind \in Kinds
      OBVIOUS
    <3>2. stack' = Append(stack, r)
      BY <1>7
    <3> HIDE DEF r
    <3> QED
      BY <3>1, <3>2, <1>2, Pushed
  <2>2. NestingLimit \in Nat
    BY LimitsAssumption
  <2>3. ContentInv' /\ Length' = Length
    BY <1>2, <1>7 DEF ContentInv, Length, At
  <2>4. offset' \in Nat /\ offset' + 1 < Length /\ offset' < Length
    BY <1>2, <1>4, <1>7
  <2>5. depth' = Len(stack') /\ depth' <= NestingLimit
    BY <1>2, <1>7, <2>1, <2>2
  <2> QED
    BY <1>7, <2>1, <2>3, <2>4, <2>5 DEF ParseInv, PlaceInv, Parsing
<1> QED
  BY <1>5, <1>6, <1>7 DEF ParseOpens, Fails

LEMMA ElementInv ==
    ASSUME ParseInv, ParseElement
    PROVE  ParseInv'
<1>1. stand = "element" /\ Parsing
  BY DEF ParseElement, Parsing
<1>2. /\ ContentInv /\ offset \in Nat /\ offset + 1 < Length /\ Length \in Nat
      /\ IsStack(stack) /\ depth = Len(stack) /\ depth <= NestingLimit /\ stack # <<>>
  BY <1>1, Standing DEF ParseInv, PlaceInv
<1>3. CASE content' = content /\ stand' \in {"fail", "failed"}
  BY <1>3, FailsInv
<1>4. CASE /\ stack' = [stack EXCEPT ![Len(stack)].elements = Append(@, offset + 1)]
           /\ offset' = Skip(offset + 1) /\ stand' = IF Top.kind = "object" THEN "name" ELSE "value"
           /\ content' = content /\ depth' = depth
  <2>1. Skip(offset + 1) \in Nat /\ Skip(offset + 1) < Length
    BY <1>2, SkipStays
  <2> DEFINE e == Append(stack[Len(stack)].elements, offset + 1)
  <2>2. stack' = [stack EXCEPT ![Len(stack)].elements = e]
    BY <1>4
  <2> HIDE DEF e
  <2>3. IsStack(stack') /\ Len(stack') = Len(stack)
    BY <2>2, <1>2, Changed
  <2> QED
    BY <1>2, <1>4, <2>1, <2>3, MovesInv
<1> QED
  BY <1>3, <1>4 DEF ParseElement, Fails

LEMMA NameInv ==
    ASSUME ParseInv, ParseName
    PROVE  ParseInv'
<1> DEFINE o == Skip(StringEnd(offset) + 1)
<1>1. stand = "name" /\ Parsing
  BY DEF ParseName, Parsing
<1>2. /\ ContentInv /\ offset \in Nat /\ offset < Length /\ Length \in Nat
      /\ IsStack(stack) /\ depth = Len(stack) /\ depth <= NestingLimit
  BY <1>1, Standing
<1>3. CASE content' = content /\ stand' \in {"fail", "failed"}
  BY <1>3, FailsInv
<1>4. CASE /\ IsString(offset) /\ At(o) = Colon /\ offset' = Skip(o + 1) /\ stand' = "value"
           /\ content' = content /\ depth' = depth /\ stack' = stack
  <2>1. StringEnd(offset) + 1 < Length /\ StringEnd(offset) + 1 \in Nat
    BY <1>4, <1>2, StringEndStays DEF IsString
  <2>2. o \in Nat /\ o < Length
    BY <2>1, <1>2, SkipStays
  <2>3. o + 1 \in Nat /\ o + 1 < Length
    <3>1. At(o) # 0
      BY <1>4 DEF Colon
    <3> HIDE DEF o
    <3> QED
      BY <3>1, <1>2, <2>2, NotAtTheEnd
  <2> HIDE DEF o
  <2>4. Skip(o + 1) \in Nat /\ Skip(o + 1) < Length
    BY <2>3, <1>2, SkipStays
  <2> QED
    BY <1>2, <1>4, <2>4, MovesInv
<1>5. CASE StringFails(offset)
  BY <1>3, <1>5 DEF StringFails, Fails
<1> QED
  BY <1>3, <1>4, <1>5 DEF ParseName, Fails

LEMMA AfterInv ==
    ASSUME ParseInv, ParseAfter
    PROVE  ParseInv'
<1> DEFINE o == Skip(offset)
<1>1. stand = "after" /\ Parsing /\ stack # <<>>
  BY DEF ParseAfter, Parsing
<1>2. /\ ContentInv /\ offset \in Nat /\ offset < Length /\ Length \in Nat
      /\ IsStack(stack) /\ depth = Len(stack) /\ depth <= NestingLimit
  BY <1>1, Standing
<1>3. o \in Nat /\ o < Length
  BY <1>2, SkipStays
<1>4. CASE content' = content /\ stand' \in {"fail", "failed"}
  BY <1>4, FailsInv
<1>5. CASE /\ At(o) = Comma /\ offset' = o /\ stand' = "element"
           /\ content' = content /\ depth' = depth /\ stack' = stack
  <2>1. At(o) # 0
    BY <1>5 DEF Comma
  <2> HIDE DEF o
  <2>2. o + 1 < Length
    BY <2>1, <1>2, <1>3, NotAtTheEnd
  <2>3. ContentInv' /\ Length' = Length
    BY <1>2, <1>5 DEF ContentInv, Length, At
  <2> QED
    BY <1>1, <1>2, <1>3, <1>5, <2>2, <2>3 DEF ParseInv, PlaceInv, Parsing
<1>6. CASE /\ At(o) = Closing[Top.kind] /\ stack' = SubSeq(stack, 1, Len(stack) - 1)
           /\ offset' = o + 1 /\ depth' = depth - 1 /\ content' = content /\ stand' = stand
  <2>1. /\ Len(stack) \in Nat /\ Len(stack) > 0 /\ IsStack(stack') /\ Len(stack') = Len(stack) - 1
        /\ Top.kind \in Kinds
    BY <1>1, <1>2, <1>6, Popped DEF Top
  <2>2. At(o) # 0
    BY <1>6, <2>1 DEF Closing, Kinds
  <2> HIDE DEF o
  <2>3. o + 1 \in Nat /\ o + 1 < Length
    BY <2>2, <1>2, <1>3, NotAtTheEnd
  <2>4. depth' = Len(stack') /\ depth' <= NestingLimit
    BY <1>2, <1>6, <2>1, LimitsAssumption
  <2> QED
    BY <1>1, <1>6, <2>1, <2>3, <2>4, MovesInv
<1> QED
  BY <1>4, <1>5, <1>6 DEF ParseAfter, Fails

LEMMA ParseEndsInv ==
    ASSUME ParseInv, ParseEnds
    PROVE  ParseInv'
<1>1. stand = "after" /\ Parsing
  BY DEF ParseEnds, Parsing
<1>2. /\ ContentInv /\ offset \in Nat /\ offset < Length
      /\ IsStack(stack) /\ depth = Len(stack) /\ depth <= NestingLimit
  BY <1>1, Standing
<1> DEFINE o == IF whole THEN Skip(offset) ELSE offset
<1>3. o \in Nat /\ o < Length
  BY <1>2, SkipStays
<1> HIDE DEF o
<1>4. CASE content' = content /\ stand' \in {"fail", "failed"}
  BY <1>4, FailsInv
<1>5. CASE stand' = "parsed" /\ offset' = o /\ content' = content /\ depth' = depth /\ stack' = stack
  BY <1>2, <1>3, <1>5, MovesInv
<1> QED
  BY <1>4, <1>5 DEF ParseEnds, Fails, o

LEMMA ParseNextInv ==
    ASSUME ParseInv, [ParseNext]_parseVars
    PROVE  ParseInv'
<1>1. CASE UNCHANGED parseVars
  BY <1>1 DEF parseVars, ParseInv, ContentInv, PlaceInv, Parsing, Length, At
<1>2. CASE ParseUnwinds \/ ParseFails
  <2>1. content' = content /\ stand' \in {"fail", "failed"}
    BY <1>2 DEF ParseUnwinds, ParseFails
  <2> QED
    BY <2>1, FailsInv
<1>3. CASE \E kind \in Kinds : ParseOpens(kind)
  BY <1>3, OpensInv
<1>4. CASE ParseLiteral \/ ParseNumber \/ ParseString \/ ParseValueFails
  BY <1>4, ValueInv
<1>5. CASE ParseStarts \/ ParseElement \/ ParseName \/ ParseAfter \/ ParseEnds
  BY <1>5, StartsInv, ElementInv, NameInv, AfterInv, ParseEndsInv
<1> QED
  BY <1>1, <1>2, <1>3, <1>4, <1>5 DEF ParseNext, Kinds

\* On every text, and with memory that may run out at any allocation, the
\* parser looks at no byte behind the NUL and nests no deeper than
\* CJSON_NESTING_LIMIT (cJSON.c:266-273, 708-834, 973-1087, 1222-1613).
THEOREM ParserStaysInside == ParseSpec => []StaysInside
<1>1. ParseInit => ParseInv
  BY ParseInitInv
<1>2. ParseInv /\ [ParseNext]_parseVars => ParseInv'
  BY ParseNextInv
<1>3. ParseInv => StaysInside
  BY DEF ParseInv, PlaceInv, Parsing, StaysInside
<1> QED
  BY <1>1, <1>2, <1>3, PTL DEF ParseSpec

-----------------------------------------------------------------------------
(***************************************************************************)
(* What the parser allocates.                                              *)
(*                                                                         *)
(* The heap is a parameter, as the items N and the stack s change in two   *)
(* or three ways that several steps share.                                 *)
(***************************************************************************)

Types == {"invalid", "null", "false", "true", "number", "string", "array", "object"}
Node == [type : Types, kids : Seq(Nat), name : Int, value : Int]
Frame == [kind : Kinds, item : Nat, elements : Seq(Nat)]

KidsOf(N, i) == {N[i].kids[k] : k \in DOMAIN N[i].kids}

HeapTyped(N, s) ==
    /\ N \in [DOMAIN N -> Node] /\ \E b \in Nat : DOMAIN N \subseteq 0..b
    /\ s \in Seq(Frame)

\* An item is made after the one it is an element of.
KidsLater(N) == \A i \in DOMAIN N : \A k \in KidsOf(N, i) : k \in DOMAIN N /\ k > i

\* The item of an array that is being parsed does not show its elements yet.
Opened(N, s) == \A k \in 1..Len(s) :
    /\ s[k].item \in DOMAIN N /\ N[s[k].item].type = "invalid" /\ KidsOf(N, s[k].item) = {}
    /\ \A e \in Elements(s[k]) : e \in DOMAIN N /\ e > s[k].item

\* What was there before it knows nothing made since.
Separate(N, s) == \A k \in 1..Len(s) :
    /\ \A p \in DOMAIN N : p <= s[k].item => \A j \in KidsOf(N, p) : j <= s[k].item
    /\ \A m \in 1..k - 1 : s[m].item < s[k].item /\ \A e \in Elements(s[m]) : e <= s[k].item

\* Every item but the root is an element of something.
Parented(N, s) == \A j \in DOMAIN N \ {0} :
    \/ \E i \in DOMAIN N : j \in KidsOf(N, i)
    \/ \E k \in 1..Len(s) : j \in Elements(s[k])

\* The strings of an item, of which each has one owner.
StringsAt(N, i) == ({N[i].name} \cup IF N[i].type = "string" THEN {N[i].value} ELSE {}) \ {None}
StringsIn(N) == UNION {StringsAt(N, i) : i \in DOMAIN N}
Unshared(N) == \A i, j \in DOMAIN N : i # j => StringsAt(N, i) \cap StringsAt(N, j) = {}

HeapInv(N, s) ==
    HeapTyped(N, s) /\ KidsLater(N) /\ Opened(N, s) /\ Separate(N, s) /\ Parented(N, s) /\ Unshared(N)

-----------------------------------------------------------------------------
(* What cJSON_Delete frees *)

IsClosed(N, C) == C \subseteq DOMAIN N /\ \A i \in C : KidsOf(N, i) \subseteq C
Reach(N, i) == {j \in DOMAIN N : \A C \in SUBSET DOMAIN N : IsClosed(N, C) /\ i \in C => j \in C}

LEMMA ReachUnfolds ==
    ASSUME NEW N, \A i \in DOMAIN N : KidsOf(N, i) \subseteq DOMAIN N, NEW i \in DOMAIN N
    PROVE  Reach(N, i) = {i} \cup UNION {Reach(N, k) : k \in KidsOf(N, i)}
<1> DEFINE R == {i} \cup UNION {Reach(N, k) : k \in KidsOf(N, i)}
<1>1. ASSUME NEW j \in DOMAIN N PROVE j \in Reach(N, j) /\ IsClosed(N, Reach(N, j))
  <2>1. j \in Reach(N, j)
    BY DEF Reach
  <2>2. ASSUME NEW l \in Reach(N, j), NEW k \in KidsOf(N, l) PROVE k \in Reach(N, j)
    <3>1. k \in DOMAIN N
      BY <2>2 DEF Reach
    <3>2. ASSUME NEW C \in SUBSET DOMAIN N, IsClosed(N, C), j \in C PROVE k \in C
      <4>1. l \in C
        BY <2>2, <3>2 DEF Reach
      <4> QED
        BY <4>1, <2>2, <3>2 DEF IsClosed
    <3> QED
      BY <3>1, <3>2 DEF Reach
  <2> QED
    BY <2>1, <2>2 DEF IsClosed, Reach
<1>2. R \subseteq Reach(N, i)
  <2>1. ASSUME NEW k \in KidsOf(N, i), NEW j \in Reach(N, k) PROVE j \in Reach(N, i)
    <3>1. j \in DOMAIN N
      BY <2>1 DEF Reach
    <3>2. ASSUME NEW C \in SUBSET DOMAIN N, IsClosed(N, C), i \in C PROVE j \in C
      <4>1. k \in C
        BY <2>1, <3>2 DEF IsClosed
      <4> QED
        BY <4>1, <2>1, <3>2 DEF Reach
    <3> QED
      BY <3>1, <3>2 DEF Reach
  <2>2. i \in Reach(N, i)
    BY <1>1
  <2> QED
    BY <2>1, <2>2
<1>3. IsClosed(N, R)
  <2>1. ASSUME NEW k \in KidsOf(N, i) PROVE k \in Reach(N, k) /\ IsClosed(N, Reach(N, k))
    BY <1>1, <2>1
  <2>2. ASSUME NEW j \in R, NEW l \in KidsOf(N, j) PROVE l \in R
    <3>1. CASE j = i
      BY <3>1, <2>1, <2>2
    <3>2. CASE \E k \in KidsOf(N, i) : j \in Reach(N, k)
      <4>1. PICK k \in KidsOf(N, i) : j \in Reach(N, k)
        BY <3>2
      <4>2. l \in Reach(N, k)
        BY <4>1, <2>1, <2>2 DEF IsClosed
      <4> QED
        BY <4>1, <4>2
    <3> QED
      BY <2>2, <3>1, <3>2
  <2>3. R \subseteq DOMAIN N
    BY DEF Reach
  <2> HIDE DEF R
  <2> QED
    BY <2>2, <2>3 DEF IsClosed
<1>4. Reach(N, i) \subseteq R
  <2>1. i \in R /\ R \in SUBSET DOMAIN N
    BY <1>3 DEF IsClosed
  <2> HIDE DEF R
  <2> QED
    BY <2>1, <1>3 DEF Reach
<1> QED
  BY <1>2, <1>4

\* Below is what the recursion in it says, for there is such a function.
LEMMA TreeUnfolds ==
    ASSUME \A i \in DOMAIN nodes : KidsOf(nodes, i) \subseteq DOMAIN nodes
    PROVE  \E tree :
              /\ DOMAIN tree = DOMAIN nodes
              /\ \A i \in DOMAIN nodes : tree[i] = {i} \cup UNION {tree[k] : k \in KidsOf(nodes, i)}
              /\ \A S : Below(S) = UNION {tree[i] : i \in S}
<1> DEFINE Body(f, i) == {i} \cup UNION {f[nodes[i].kids[k]] : k \in DOMAIN nodes[i].kids}
           Is(f) == f = [i \in DOMAIN nodes |-> {i} \cup UNION {f[nodes[i].kids[k]] : k \in DOMAIN nodes[i].kids}]
           tree == CHOOSE f : Is(f)
           reach == [i \in DOMAIN nodes |-> Reach(nodes, i)]
<1>1. Is(reach)
  <2>1. ASSUME NEW i \in DOMAIN nodes PROVE reach[i] = Body(reach, i)
    <3>1. {reach[nodes[i].kids[k]] : k \in DOMAIN nodes[i].kids} = {Reach(nodes, k) : k \in KidsOf(nodes, i)}
      <4>1. \A k \in DOMAIN nodes[i].kids : nodes[i].kids[k] \in DOMAIN nodes
        BY DEF KidsOf
      <4> QED
        BY <4>1 DEF KidsOf
    <3> QED
      BY <3>1, ReachUnfolds
  <2> QED
    BY <2>1
<1>2. Is(tree)
  <2> HIDE DEF Is, reach
  <2> QED
    BY <1>1
<1>3. ASSUME NEW S PROVE Below(S) = UNION {tree[i] : i \in S}
  BY DEF Below
<1> HIDE DEF tree
<1>4. ASSUME NEW i \in DOMAIN nodes PROVE tree[i] = {i} \cup UNION {tree[k] : k \in KidsOf(nodes, i)}
  <2>1. tree[i] = Body(tree, i)
    BY <1>2
  <2> QED
    BY <2>1 DEF KidsOf
<1>5. DOMAIN tree = DOMAIN nodes
  BY <1>2
<1> QED
  BY <1>3, <1>4, <1>5

\* What is deleted with the items S is the least closed set they are in.
LEMMA BelowIsLeast ==
    ASSUME NEW b \in Nat, DOMAIN nodes \subseteq 0..b, KidsLater(nodes), NEW S \in SUBSET DOMAIN nodes
    PROVE  /\ S \subseteq Below(S) /\ IsClosed(nodes, Below(S))
           /\ \A C : IsClosed(nodes, C) /\ S \subseteq C => Below(S) \subseteq C
<1>1. \A i \in DOMAIN nodes : KidsOf(nodes, i) \subseteq DOMAIN nodes
  BY DEF KidsLater
<1>2. PICK tree :
          /\ DOMAIN tree = DOMAIN nodes
          /\ \A i \in DOMAIN nodes : tree[i] = {i} \cup UNION {tree[k] : k \in KidsOf(nodes, i)}
          /\ \A T : Below(T) = UNION {tree[i] : i \in T}
  BY <1>1, TreeUnfolds
<1>3. ASSUME NEW C, IsClosed(nodes, C), S \subseteq C PROVE Below(S) \subseteq C
  <2> DEFINE Bad == {i \in C : ~(tree[i] \subseteq C)}
  <2>1. Bad = {}
    <3> SUFFICES ASSUME Bad # {} PROVE FALSE
      OBVIOUS
    <3>1. Bad \subseteq 0..b /\ C \subseteq DOMAIN nodes
      BY <1>3 DEF IsClosed
    <3>2. PICK g \in Bad : \A m \in Bad : m <= g
      <4> HIDE DEF Bad
      <4> QED
        BY <3>1, Greatest
    <3>3. ASSUME NEW k \in KidsOf(nodes, g) PROVE tree[k] \subseteq C
      <4>1. k \in C /\ k > g /\ k \in 0..b /\ g \in 0..b
        BY <3>1, <1>3 DEF IsClosed, KidsLater
      <4>2. k \notin Bad
        <5> HIDE DEF Bad
        <5> QED
          BY <4>1, <3>2
      <4> QED
        BY <4>1, <4>2
    <3>4. tree[g] = {g} \cup UNION {tree[k] : k \in KidsOf(nodes, g)} /\ g \in C
      BY <1>2, <3>1
    <3> QED
      BY <3>3, <3>4
  <2>2. \A i \in S : tree[i] \subseteq C
    BY <2>1, <1>3
  <2> QED
    BY <2>2, <1>2
<1>4. ASSUME NEW i \in DOMAIN nodes PROVE IsClosed(nodes, tree[i])
  <2> DEFINE Bad == {j \in DOMAIN nodes : ~IsClosed(nodes, tree[j])}
  <2>1. Bad = {}
    <3> SUFFICES ASSUME Bad # {} PROVE FALSE
      OBVIOUS
    <3>1. Bad \subseteq 0..b
      OBVIOUS
    <3>2. PICK g \in Bad : \A m \in Bad : m <= g
      <4> HIDE DEF Bad
      <4> QED
        BY <3>1, Greatest
    <3>3. ASSUME NEW k \in KidsOf(nodes, g) PROVE IsClosed(nodes, tree[k]) /\ k \in tree[k]
      <4>1. k \in DOMAIN nodes /\ k > g /\ k \in 0..b /\ g \in 0..b
        BY <3>1 DEF KidsLater
      <4>2. k \notin Bad
        <5> HIDE DEF Bad
        <5> QED
          BY <4>1, <3>2
      <4> QED
        BY <4>1, <4>2, <1>2
    <3>4. tree[g] = {g} \cup UNION {tree[k] : k \in KidsOf(nodes, g)} /\ g \in DOMAIN nodes
      BY <1>2
    <3>5. IsClosed(nodes, tree[g])
      <4>1. tree[g] \subseteq DOMAIN nodes
        BY <3>3, <3>4 DEF IsClosed
      <4>2. ASSUME NEW j \in tree[g] PROVE KidsOf(nodes, j) \subseteq tree[g]
        <5>1. CASE j = g
          BY <5>1, <3>3, <3>4
        <5>2. CASE \E k \in KidsOf(nodes, g) : j \in tree[k]
          BY <5>2, <3>3, <3>4 DEF IsClosed
        <5> QED
          BY <5>1, <5>2, <3>4
      <4> QED
        BY <4>1, <4>2 DEF IsClosed
    <3> QED
      BY <3>5, <3>2
  <2> QED
    BY <2>1
<1>5. S \subseteq Below(S)
  <2>1. \A i \in S : i \in tree[i]
    BY <1>2
  <2> QED
    BY <2>1, <1>2
<1>6. IsClosed(nodes, Below(S))
  BY <1>2, <1>4 DEF IsClosed
<1> QED
  BY <1>3, <1>5, <1>6

-----------------------------------------------------------------------------
(* The changes of the heap *)

LEMMA NodeFields ==
    ASSUME NEW N, NEW s, HeapTyped(N, s), NEW i \in DOMAIN N
    PROVE  /\ i \in Nat /\ N[i] \in Node
           /\ N[i].type \in Types /\ N[i].kids \in Seq(Nat) /\ N[i].name \in Int /\ N[i].value \in Int
<1>1. PICK b \in Nat : DOMAIN N \subseteq 0..b
  BY DEF HeapTyped
<1>2. N[i] \in Node
  BY DEF HeapTyped
<1> QED
  BY <1>1, <1>2 DEF Node

LEMMA FrameFields ==
    ASSUME NEW s \in Seq(Frame)
    PROVE  /\ Len(s) \in Nat
           /\ \A k \in 1..Len(s) : s[k] \in Frame /\ s[k].kind \in Kinds /\ s[k].item \in Nat /\ s[k].elements \in Seq(Nat)
<1>1. Len(s) \in Nat /\ \A k \in 1..Len(s) : s[k] \in Frame
  BY ElementOfSeq, LenProperties
<1> QED
  BY <1>1 DEF Frame

\* The four ways the heap grows.
Valued(N, i, type, value) == [N EXCEPT ![i].type = type, ![i].value = value]
Named(N, i, name) == [N EXCEPT ![i].name = name]
Filled(N, frame) == [N EXCEPT ![frame.item].type = frame.kind, ![frame.item].kids = frame.elements]
Born(N, j) == [i \in DOMAIN N \cup {j} |-> IF i = j THEN Fresh ELSE N[i]]

\* The item i gets its value, a new string if it is one.
LEMMA ValuedHeap ==
    ASSUME NEW N, NEW s, HeapInv(N, s), NEW i \in DOMAIN N, N[i].type = "invalid",
           \A k \in 1..Len(s) : s[k].item # i,
           NEW type \in Types, NEW value \in Int,
           type = "string" => value # None /\ value \notin StringsIn(N)
    PROVE  LET M == Valued(N, i, type, value) IN
           /\ HeapInv(M, s) /\ DOMAIN M = DOMAIN N
           /\ StringsIn(M) = StringsIn(N) \cup (IF type = "string" THEN {value} ELSE {})
<1> DEFINE M == Valued(N, i, type, value)
           new == [N[i] EXCEPT !.type = type, !.value = value]
<1>1. DOMAIN M = DOMAIN N /\ HeapTyped(N, s)
  BY DEF HeapInv, Valued
<1>2. new \in Node /\ new.type = type /\ new.value = value /\ new.kids = N[i].kids /\ new.name = N[i].name
  BY <1>1, NodeFields DEF Node
<1>3. M[i] = new /\ \A j \in DOMAIN N : j # i => M[j] = N[j]
  <2>1. M = [N EXCEPT ![i] = new]
    BY <1>1 DEF HeapTyped, Valued
  <2> HIDE DEF M, new
  <2> QED
    BY <2>1, <1>1 DEF HeapTyped
<1> HIDE DEF M, new
<1>4. HeapTyped(M, s)
  <2>1. M \in [DOMAIN M -> Node]
    <3>1. \A j \in DOMAIN N : M[j] \in Node
      BY <1>1, <1>2, <1>3, NodeFields
    <3>2. M = [j \in DOMAIN N |-> M[j]]
      BY <1>1 DEF M, HeapTyped, Valued
    <3> QED
      BY <3>1, <3>2, <1>1
  <2> QED
    BY <2>1, <1>1 DEF HeapTyped
<1>5. \A j \in DOMAIN N : KidsOf(M, j) = KidsOf(N, j)
  BY <1>2, <1>3 DEF KidsOf
<1>6. KidsLater(M) /\ Separate(M, s) /\ Parented(M, s)
  BY <1>1, <1>5 DEF HeapInv, KidsLater, Separate, Parented
<1>7. Opened(M, s)
  BY <1>1, <1>3, <1>5 DEF HeapInv, Opened
<1>8. \A j \in DOMAIN N : StringsAt(M, j) = StringsAt(N, j) \cup (IF j = i /\ type = "string" THEN {value} ELSE {})
  <2>1. \A j \in DOMAIN N : j # i => StringsAt(M, j) = StringsAt(N, j)
    BY <1>3 DEF StringsAt
  <2>2. StringsAt(M, i) = StringsAt(N, i) \cup (IF type = "string" THEN {value} ELSE {})
    BY <1>2, <1>3 DEF StringsAt
  <2> QED
    BY <2>1, <2>2
<1>9. StringsIn(M) = StringsIn(N) \cup (IF type = "string" THEN {value} ELSE {})
  BY <1>1, <1>8 DEF StringsIn
<1>10. Unshared(M)
  <2>1. \A j \in DOMAIN N : type = "string" => value \notin StringsAt(N, j)
    BY DEF StringsIn
  <2>2. Unshared(N)
    BY DEF HeapInv
  <2> QED
    BY <2>1, <2>2, <1>1, <1>8 DEF Unshared
<1> QED
  BY <1>1, <1>4, <1>6, <1>7, <1>9, <1>10 DEF HeapInv, M

\* It gets its name, a new string.
LEMMA NamedHeap ==
    ASSUME NEW N, NEW s, HeapInv(N, s), NEW i \in DOMAIN N, N[i].name = None,
           NEW name \in Int, name # None, name \notin StringsIn(N)
    PROVE  LET M == Named(N, i, name) IN
           /\ HeapInv(M, s) /\ DOMAIN M = DOMAIN N /\ M[i].type = N[i].type
           /\ StringsIn(M) = StringsIn(N) \cup {name}
<1> DEFINE M == Named(N, i, name)
           new == [N[i] EXCEPT !.name = name]
<1>1. DOMAIN M = DOMAIN N /\ HeapTyped(N, s)
  BY DEF HeapInv, Named
<1>2. new \in Node /\ new.type = N[i].type /\ new.value = N[i].value /\ new.kids = N[i].kids /\ new.name = name
  BY <1>1, NodeFields DEF Node
<1>3. M[i] = new /\ \A j \in DOMAIN N : j # i => M[j] = N[j]
  <2>1. M = [N EXCEPT ![i] = new]
    BY <1>1 DEF HeapTyped, Named
  <2> HIDE DEF M, new
  <2> QED
    BY <2>1, <1>1 DEF HeapTyped
<1> HIDE DEF M, new
<1>4. HeapTyped(M, s)
  <2>1. M \in [DOMAIN M -> Node]
    <3>1. \A j \in DOMAIN N : M[j] \in Node
      BY <1>1, <1>2, <1>3, NodeFields
    <3>2. M = [j \in DOMAIN N |-> M[j]]
      BY <1>1 DEF M, HeapTyped, Named
    <3> QED
      BY <3>1, <3>2, <1>1
  <2> QED
    BY <2>1, <1>1 DEF HeapTyped
<1>5. \A j \in DOMAIN N : KidsOf(M, j) = KidsOf(N, j) /\ M[j].type = N[j].type
  BY <1>2, <1>3 DEF KidsOf
<1>6. KidsLater(M) /\ Separate(M, s) /\ Parented(M, s) /\ Opened(M, s)
  BY <1>1, <1>5 DEF HeapInv, KidsLater, Separate, Parented, Opened
<1>7. \A j \in DOMAIN N : StringsAt(M, j) = StringsAt(N, j) \cup (IF j = i THEN {name} ELSE {})
  <2>1. \A j \in DOMAIN N : j # i => StringsAt(M, j) = StringsAt(N, j)
    BY <1>3 DEF StringsAt
  <2>2. StringsAt(M, i) = StringsAt(N, i) \cup {name}
    BY <1>2, <1>3 DEF StringsAt
  <2> QED
    BY <2>1, <2>2
<1>8. StringsIn(M) = StringsIn(N) \cup {name}
  BY <1>1, <1>7 DEF StringsIn
<1>9. Unshared(M)
  <2>1. \A j \in DOMAIN N : name \notin StringsAt(N, j)
    BY DEF StringsIn
  <2>2. Unshared(N)
    BY DEF HeapInv
  <2> QED
    BY <2>1, <2>2, <1>1, <1>7 DEF Unshared
<1> QED
  BY <1>1, <1>2, <1>3, <1>4, <1>6, <1>8, <1>9 DEF HeapInv, M

\* A stack with one frame more, or with another one on top.
LEMMA PushedFrames ==
    ASSUME NEW s \in Seq(Frame), NEW f \in Frame
    PROVE  /\ Append(s, f) \in Seq(Frame) /\ Len(Append(s, f)) = Len(s) + 1
           /\ Append(s, f)[Len(s) + 1] = f /\ \A k \in 1..Len(s) : Append(s, f)[k] = s[k]
  BY AppendProperties

LEMMA ChangedFrames ==
    ASSUME NEW s \in Seq(Frame), s # <<>>, NEW j \in Nat
    PROVE  LET t == [s EXCEPT ![Len(s)].elements = Append(@, j)]
           IN  /\ Len(s) \in 1..Len(s) /\ t \in Seq(Frame) /\ Len(t) = Len(s)
               /\ \A k \in 1..Len(s) : k # Len(s) => t[k] = s[k]
               /\ t[Len(s)].item = s[Len(s)].item /\ t[Len(s)].elements = Append(s[Len(s)].elements, j)
               /\ Elements(t[Len(s)]) = Elements(s[Len(s)]) \cup {j}
<1> DEFINE n == Len(s)
           f == [s[n] EXCEPT !.elements = Append(@, j)]
           t == [s EXCEPT ![n] = f]
<1>1. n \in Nat /\ n > 0 /\ n \in 1..n /\ s[n] \in Frame
  BY FrameFields
<1>2. f \in Frame /\ f.item = s[n].item /\ f.elements = Append(s[n].elements, j) /\ s[n].elements \in Seq(Nat)
  <2> DEFINE x == s[n]
             e == Append(x.elements, j)
  <2>1. x \in Frame /\ x.elements \in Seq(Nat)
    BY <1>1 DEF Frame
  <2>2. e \in Seq(Nat)
    BY <2>1, AppendProperties
  <2>3. f = [x EXCEPT !.elements = e]
    OBVIOUS
  <2> HIDE DEF x, e, f
  <2>4. f \in Frame /\ f.item = x.item /\ f.elements = e
    BY <2>1, <2>2, <2>3 DEF Frame
  <2> QED
    BY <2>1, <2>4 DEF x, e
<1>3. Elements(f) = Elements(s[n]) \cup {j}
  <2> DEFINE e == s[n].elements
  <2>1. e \in Seq(Nat) /\ Len(e) \in Nat /\ DOMAIN e = 1..Len(e)
    BY <1>2
  <2>2. /\ Append(e, j) \in Seq(Nat) /\ Len(Append(e, j)) = Len(e) + 1 /\ DOMAIN Append(e, j) = 1..Len(e) + 1
        /\ Append(e, j)[Len(e) + 1] = j /\ \A k \in 1..Len(e) : Append(e, j)[k] = e[k]
    BY <2>1
  <2>3. Elements(f) = {Append(e, j)[k] : k \in 1..Len(e) + 1} /\ Elements(s[n]) = {e[k] : k \in 1..Len(e)}
    BY <1>2, <2>1, <2>2 DEF Elements
  <2> HIDE DEF e, f
  <2>4. 1..Len(e) + 1 = (1..Len(e)) \cup {Len(e) + 1}
    BY <2>1
  <2> QED
    BY <2>2, <2>3, <2>4
<1>4. [s EXCEPT ![Len(s)].elements = Append(@, j)] = t
  OBVIOUS
<1> HIDE DEF f
<1>5. t \in Seq(Frame) /\ Len(t) = n /\ t[n] = f /\ \A k \in 1..n : k # n => t[k] = s[k]
  <2>1. t = [k \in 1..n |-> IF k = n THEN f ELSE s[k]]
    BY <1>1
  <2>2. \A k \in 1..n : s[k] \in Frame
    BY FrameFields
  <2>3. \A k \in 1..n : (IF k = n THEN f ELSE s[k]) \in Frame
    BY <1>2, <2>2
  <2> HIDE DEF n
  <2>4. t \in Seq(Frame) /\ Len(t) = n
    BY <1>1, <2>1, <2>3
  <2> QED
    BY <1>1, <2>1, <2>4
<1> HIDE DEF t
<1> QED
  BY <1>1, <1>2, <1>3, <1>4, <1>5

LEMMA PoppedFrames ==
    ASSUME NEW s \in Seq(Frame), s # <<>>
    PROVE  LET t == SubSeq(s, 1, Len(s) - 1)
           IN  /\ Len(s) \in Nat /\ Len(s) > 0 /\ Len(s) \in 1..Len(s) /\ s[Len(s)] \in Frame
               /\ t \in Seq(Frame) /\ Len(t) = Len(s) - 1 /\ \A k \in 1..Len(s) - 1 : t[k] = s[k]
<1> DEFINE n == Len(s)
           t == SubSeq(s, 1, n - 1)
<1>1. n \in Nat /\ n > 0 /\ n \in 1..n /\ s[n] \in Frame
  BY FrameFields
<1>2. /\ t \in Seq(Frame)
      /\ Len(t) = IF 1 <= n - 1 THEN (n - 1) - 1 + 1 ELSE 0
      /\ \A i \in 1..(n - 1) - 1 + 1 : t[i] = s[1 + i - 1]
  <2>1. 1 \in Int /\ n - 1 \in Int /\ \A i \in 1..n - 1 : s[i] \in Frame
    BY <1>1, FrameFields
  <2> QED
    BY <2>1, SubSeqProperties
<1>3. (n - 1) - 1 + 1 = n - 1 /\ \A i \in 1..n - 1 : 1 + i - 1 = i
  BY <1>1
<1> HIDE DEF t
<1>4. Len(t) = n - 1
  <2> HIDE DEF n
  <2> QED
    BY <1>1, <1>2
<1>5. \A i \in 1..n - 1 : t[i] = s[i]
  BY <1>2, <1>3
<1> QED
  BY <1>1, <1>2, <1>4, <1>5 DEF t

\* The newest item becomes one whose elements are being parsed.
LEMMA PushedHeap ==
    ASSUME NEW N, NEW s, HeapInv(N, s), NEW i \in DOMAIN N, N[i].type = "invalid",
           \A j \in DOMAIN N : j <= i, \A k \in 1..Len(s) : s[k].item < i, NEW kind \in Kinds
    PROVE  HeapInv(N, Append(s, [kind |-> kind, item |-> i, elements |-> <<>>]))
<1> DEFINE f == [kind |-> kind, item |-> i, elements |-> <<>>]
           t == Append(s, f)
<1>1. HeapTyped(N, s) /\ s \in Seq(Frame) /\ i \in Nat
  BY NodeFields DEF HeapInv, HeapTyped
<1>2. f \in Frame /\ f.item = i /\ Elements(f) = {}
  <2>1. <<>> \in Seq(Nat) /\ DOMAIN <<>> = {}
    OBVIOUS
  <2> QED
    BY <1>1, <2>1 DEF Frame, Elements
<1> HIDE DEF f
<1>3. /\ t \in Seq(Frame) /\ Len(t) = Len(s) + 1 /\ Len(s) \in Nat
      /\ t[Len(s) + 1] = f /\ \A k \in 1..Len(s) : t[k] = s[k]
  BY <1>1, <1>2, PushedFrames, FrameFields
<1> HIDE DEF t
<1>4. \A k \in 1..Len(t) : k \in 1..Len(s) \/ k = Len(s) + 1
  BY <1>3
<1>5. KidsOf(N, i) = {}
  <2>1. ASSUME NEW k \in KidsOf(N, i) PROVE FALSE
    <3>1. k \in DOMAIN N /\ k > i
      BY DEF HeapInv, KidsLater
    <3>2. k \in Nat
      BY <3>1, <1>1, NodeFields
    <3> QED
      BY <3>1, <3>2, <1>1
  <2> QED
    BY <2>1
<1>6. HeapTyped(N, t)
  BY <1>1, <1>3 DEF HeapTyped
<1>7. Opened(N, t)
  BY <1>2, <1>3, <1>4, <1>5 DEF HeapInv, Opened
<1>8. Separate(N, t)
  <2> SUFFICES ASSUME NEW k \in 1..Len(t)
               PROVE  /\ \A p \in DOMAIN N : p <= t[k].item => \A j \in KidsOf(N, p) : j <= t[k].item
                      /\ \A m \in 1..k - 1 : t[m].item < t[k].item /\ \A e \in Elements(t[m]) : e <= t[k].item
    BY DEF Separate
  <2>1. CASE k \in 1..Len(s)
    <3>1. \A m \in 1..k - 1 : m \in 1..Len(s)
      BY <2>1, <1>3
    <3> QED
      BY <2>1, <3>1, <1>3 DEF HeapInv, Separate
  <2>2. CASE k = Len(s) + 1
    <3>1. \A m \in 1..k - 1 : m \in 1..Len(s)
      BY <2>2, <1>3
    <3>2. \A p \in DOMAIN N : \A j \in KidsOf(N, p) : j <= i
      BY DEF HeapInv, KidsLater
    <3>3. \A m \in 1..Len(s) : \A e \in Elements(s[m]) : e <= i
      BY DEF HeapInv, Opened
    <3> QED
      BY <2>2, <3>1, <3>2, <3>3, <1>2, <1>3
  <2> QED
    BY <2>1, <2>2, <1>4
<1>9. Parented(N, t)
  <2> SUFFICES ASSUME NEW j \in DOMAIN N \ {0}
               PROVE  (\E p \in DOMAIN N : j \in KidsOf(N, p)) \/ \E k \in 1..Len(t) : j \in Elements(t[k])
    BY DEF Parented
  <2>1. (\E p \in DOMAIN N : j \in KidsOf(N, p)) \/ \E k \in 1..Len(s) : j \in Elements(s[k])
    BY DEF HeapInv, Parented
  <2>2. \A k \in 1..Len(s) : k \in 1..Len(t)
    BY <1>3
  <2> QED
    BY <2>1, <2>2, <1>3
<1> QED
  BY <1>6, <1>7, <1>8, <1>9 DEF HeapInv, t, f

LEMMA BornNode ==
    ASSUME NEW N, NEW j \in Nat, j \notin DOMAIN N
    PROVE  /\ DOMAIN Born(N, j) = DOMAIN N \cup {j}
           /\ Born(N, j)[j] = Fresh /\ \A i \in DOMAIN N : Born(N, j)[i] = N[i]
           /\ KidsOf(Born(N, j), j) = {} /\ \A i \in DOMAIN N : KidsOf(Born(N, j), i) = KidsOf(N, i)
           /\ StringsAt(Born(N, j), j) = {} /\ \A i \in DOMAIN N : StringsAt(Born(N, j), i) = StringsAt(N, i)
           /\ StringsIn(Born(N, j)) = StringsIn(N)
           /\ Fresh \in Node /\ Fresh.type = "invalid" /\ Fresh.name = None
<1> DEFINE M == Born(N, j)
<1>1. DOMAIN M = DOMAIN N \cup {j} /\ M[j] = Fresh /\ \A i \in DOMAIN N : M[i] = N[i]
  BY DEF Born
<1> HIDE DEF M
<1>2. Fresh \in Node /\ Fresh.type = "invalid" /\ Fresh.name = None /\ Fresh.kids = <<>>
  BY DEF Fresh, Node, Types, None
<1>3. KidsOf(M, j) = {} /\ \A i \in DOMAIN N : KidsOf(M, i) = KidsOf(N, i)
  <2>1. DOMAIN <<>> = {}
    OBVIOUS
  <2> QED
    BY <1>1, <1>2, <2>1 DEF KidsOf
<1>4. StringsAt(M, j) = {} /\ \A i \in DOMAIN N : StringsAt(M, i) = StringsAt(N, i)
  BY <1>1, <1>2 DEF StringsAt
<1>5. StringsIn(M) = StringsIn(N)
  BY <1>1, <1>4 DEF StringsIn
<1> QED
  BY <1>1, <1>2, <1>3, <1>4, <1>5 DEF M

LEMMA BornTyped ==
    ASSUME NEW N, NEW s, HeapTyped(N, s), NEW j \in Nat, j \notin DOMAIN N, NEW t \in Seq(Frame)
    PROVE  HeapTyped(Born(N, j), t)
<1>1. PICK b \in Nat : DOMAIN N \subseteq 0..b
  BY DEF HeapTyped
<1>2. /\ DOMAIN Born(N, j) = DOMAIN N \cup {j} /\ Fresh \in Node
      /\ Born(N, j)[j] = Fresh /\ \A i \in DOMAIN N : Born(N, j)[i] = N[i]
  BY BornNode
<1>4. b + j \in Nat /\ DOMAIN Born(N, j) \subseteq 0..b + j
  <2>1. b + j \in Nat /\ j \in 0..b + j /\ 0..b \subseteq 0..b + j
    BY <1>1
  <2> QED
    BY <2>1, <1>1, <1>2
<1>3. Born(N, j) \in [DOMAIN Born(N, j) -> Node]
  <2>1. \A i \in DOMAIN N : N[i] \in Node
    BY NodeFields
  <2>2. \A i \in DOMAIN N \cup {j} : Born(N, j)[i] \in Node
    BY <2>1, <1>2
  <2>3. Born(N, j) = [i \in DOMAIN N \cup {j} |-> Born(N, j)[i]]
    BY DEF Born
  <2> QED
    BY <2>2, <2>3, <1>2
<1> QED
  BY <1>3, <1>4 DEF HeapTyped

\* The root is born.
LEMMA RootHeap ==
    ASSUME NEW N, HeapInv(N, <<>>), DOMAIN N = {}
    PROVE  HeapInv(Born(N, 0), <<>>)
<1>1. HeapTyped(Born(N, 0), <<>>)
  BY BornTyped DEF HeapInv, HeapTyped
<1>2. 1..Len(<<>>) = {}
  OBVIOUS
<1>3. DOMAIN Born(N, 0) = {0} /\ KidsOf(Born(N, 0), 0) = {}
  <2>1. 0 \in Nat /\ 0 \notin DOMAIN N
    OBVIOUS
  <2>2. DOMAIN Born(N, 0) = DOMAIN N \cup {0}
    BY <2>1, BornNode
  <2>3. KidsOf(Born(N, 0), 0) = {}
    BY <2>1, BornNode
  <2> QED
    BY <2>2, <2>3
<1> QED
  BY <1>1, <1>2, <1>3 DEF HeapInv, KidsLater, Opened, Separate, Parented, Unshared

\* An element is born.
LEMMA ElementHeap ==
    ASSUME NEW N, NEW s, HeapInv(N, s), s # <<>>, NEW j \in Nat, \A i \in DOMAIN N : i < j
    PROVE  HeapInv(Born(N, j), [s EXCEPT ![Len(s)].elements = Append(@, j)])
<1> DEFINE t == [s EXCEPT ![Len(s)].elements = Append(@, j)]
           M == Born(N, j)
           n == Len(s)
<1>1. HeapTyped(N, s) /\ s \in Seq(Frame) /\ j \notin DOMAIN N /\ \A i \in DOMAIN N : i \in Nat
  BY NodeFields DEF HeapInv, HeapTyped
<1>2. /\ n \in 1..n /\ t \in Seq(Frame) /\ Len(t) = n /\ n \in Nat
      /\ \A k \in 1..n : t[k].item = s[k].item /\ Elements(t[k]) = IF k = n THEN Elements(s[k]) \cup {j} ELSE Elements(s[k])
  <2>1. /\ n \in 1..n /\ t \in Seq(Frame) /\ Len(t) = n /\ \A k \in 1..n : k # n => t[k] = s[k]
        /\ t[n].item = s[n].item /\ Elements(t[n]) = Elements(s[n]) \cup {j}
    BY <1>1, ChangedFrames
  <2>2. n \in Nat
    BY <1>1, FrameFields
  <2> HIDE DEF n, t
  <2> QED
    BY <2>1, <2>2
<1>3. /\ DOMAIN M = DOMAIN N \cup {j} /\ M[j] = Fresh /\ \A i \in DOMAIN N : M[i] = N[i]
      /\ KidsOf(M, j) = {} /\ \A i \in DOMAIN N : KidsOf(M, i) = KidsOf(N, i)
      /\ StringsAt(M, j) = {} /\ \A i \in DOMAIN N : StringsAt(M, i) = StringsAt(N, i)
  BY <1>1, BornNode
<1>4. HeapTyped(M, t)
  BY <1>1, <1>2, BornTyped
<1> HIDE DEF M, t, n
<1>5. KidsLater(M)
  BY <1>3 DEF HeapInv, KidsLater
<1>6. Opened(M, t)
  <2>1. \A k \in 1..n : s[k].item \in DOMAIN N /\ s[k].item < j
    BY DEF HeapInv, Opened, n
  <2>2. \A k \in 1..n : \A e \in Elements(t[k]) : e \in Elements(s[k]) \/ e = j
    BY <1>2
  <2>3. \A k \in 1..n : /\ N[s[k].item].type = "invalid" /\ KidsOf(N, s[k].item) = {}
                        /\ \A e \in Elements(s[k]) : e \in DOMAIN N /\ e > s[k].item
    BY DEF HeapInv, Opened, n
  <2> SUFFICES ASSUME NEW k \in 1..n
               PROVE  /\ t[k].item \in DOMAIN M /\ M[t[k].item].type = "invalid" /\ KidsOf(M, t[k].item) = {}
                      /\ \A e \in Elements(t[k]) : e \in DOMAIN M /\ e > t[k].item
    BY <1>2 DEF Opened
  <2>4. t[k].item = s[k].item
    BY <1>2
  <2>5. \A e \in Elements(t[k]) : e \in DOMAIN M /\ e > s[k].item
    <3>1. s[k].item < j /\ s[k].item \in Nat
      BY <2>1, <1>1
    <3>2. j > s[k].item
      BY <3>1
    <3> QED
      BY <2>2, <2>3, <3>2, <1>3
  <2> QED
    BY <2>1, <2>3, <2>4, <2>5, <1>3
<1>7. Separate(M, t)
  <2> SUFFICES ASSUME NEW k \in 1..n
               PROVE  /\ \A p \in DOMAIN M : p <= t[k].item => \A l \in KidsOf(M, p) : l <= t[k].item
                      /\ \A m \in 1..k - 1 : t[m].item < t[k].item /\ \A e \in Elements(t[m]) : e <= t[k].item
    BY <1>2 DEF Separate
  <2>1. \A p \in DOMAIN N : p <= s[k].item => \A l \in KidsOf(N, p) : l <= s[k].item
    BY DEF HeapInv, Separate, n
  <2>2. \A m \in 1..k - 1 : s[m].item < s[k].item /\ \A e \in Elements(s[m]) : e <= s[k].item
    BY DEF HeapInv, Separate, n
  <2>3. \A m \in 1..k - 1 : m \in 1..n /\ m # n
    BY <1>2
  <2> QED
    BY <2>1, <2>2, <2>3, <1>2, <1>3
<1>8. Parented(M, t)
  <2> SUFFICES ASSUME NEW l \in DOMAIN M \ {0}
               PROVE  (\E p \in DOMAIN M : l \in KidsOf(M, p)) \/ \E k \in 1..n : l \in Elements(t[k])
    BY <1>2 DEF Parented
  <2>1. CASE l = j
    BY <2>1, <1>2
  <2>2. CASE l \in DOMAIN N
    <3>1. (\E p \in DOMAIN N : l \in KidsOf(N, p)) \/ \E k \in 1..n : l \in Elements(s[k])
      BY <2>2 DEF HeapInv, Parented, n
    <3> QED
      BY <3>1, <1>2, <1>3
  <2> QED
    BY <2>1, <2>2, <1>3
<1>9. Unshared(M)
  BY <1>3 DEF HeapInv, Unshared
<1> QED
  BY <1>4, <1>5, <1>6, <1>7, <1>8, <1>9 DEF HeapInv, M, t

\* The array or object that was opened last gets its elements.
LEMMA ClosedHeap ==
    ASSUME NEW N, NEW s, HeapInv(N, s), s # <<>>
    PROVE  LET top == s[Len(s)]
               M == Filled(N, top)
           IN  HeapInv(M, SubSeq(s, 1, Len(s) - 1)) /\ DOMAIN M = DOMAIN N /\ StringsIn(M) = StringsIn(N)
<1> DEFINE n == Len(s)
           top == s[n]
           i == top.item
           new == [N[i] EXCEPT !.type = top.kind, !.kids = top.elements]
           M == Filled(N, top)
           t == SubSeq(s, 1, n - 1)
<1>1. HeapTyped(N, s) /\ s \in Seq(Frame) /\ \A j \in DOMAIN N : j \in Nat
  BY NodeFields DEF HeapInv, HeapTyped
<1>2. /\ n \in Nat /\ n > 0 /\ n \in 1..n /\ top \in Frame
      /\ t \in Seq(Frame) /\ Len(t) = n - 1 /\ \A k \in 1..n - 1 : t[k] = s[k]
  BY <1>1, PoppedFrames
<1>3. /\ top.kind \in Types /\ top.kind # "string" /\ top.elements \in Seq(Nat)
      /\ Elements(top) = {top.elements[k] : k \in DOMAIN top.elements}
  BY <1>2 DEF Frame, Kinds, Types, Elements
<1>4. /\ i \in DOMAIN N /\ N[i].type = "invalid" /\ KidsOf(N, i) = {}
      /\ \A e \in Elements(top) : e \in DOMAIN N /\ e > i
  BY <1>2 DEF HeapInv, Opened
<1>5. new \in Node /\ new.type = top.kind /\ new.kids = top.elements /\ new.name = N[i].name
  <2> DEFINE x == N[i]
             kind == top.kind
             e == top.elements
  <2>1. x \in Node /\ kind \in Types /\ e \in Seq(Nat)
    BY <1>1, <1>3, <1>4, NodeFields
  <2>2. new = [x EXCEPT !.type = kind, !.kids = e]
    OBVIOUS
  <2> HIDE DEF x, kind, e, new
  <2>3. new \in Node /\ new.type = kind /\ new.kids = e /\ new.name = x.name
    BY <2>1, <2>2 DEF Node
  <2> QED
    BY <2>3 DEF x, kind, e
<1>6. DOMAIN M = DOMAIN N /\ M[i] = new /\ \A j \in DOMAIN N : j # i => M[j] = N[j]
  <2>1. M = [N EXCEPT ![i] = new]
    BY <1>1 DEF HeapTyped, Filled
  <2> HIDE DEF M, new, i
  <2> QED
    BY <2>1, <1>1, <1>4 DEF HeapTyped
<1>7. HeapTyped(M, t)
  <2>1. \A j \in DOMAIN N : M[j] \in Node
    <3> HIDE DEF M, new, i
    <3> QED
      BY <1>1, <1>5, <1>6, NodeFields
  <2>2. M = [j \in DOMAIN N |-> M[j]]
    BY <1>1 DEF HeapTyped, Filled
  <2> HIDE DEF M, t
  <2> QED
    BY <2>1, <2>2, <1>1, <1>2, <1>6 DEF HeapTyped
<1> HIDE DEF M, new, t
<1>8. KidsOf(M, i) = Elements(top) /\ \A j \in DOMAIN N : j # i => KidsOf(M, j) = KidsOf(N, j)
  BY <1>3, <1>5, <1>6 DEF KidsOf
<1>9. \A j \in DOMAIN N : StringsAt(M, j) = StringsAt(N, j)
  BY <1>3, <1>4, <1>5, <1>6 DEF StringsAt
<1>10. \A k \in 1..n - 1 : k \in 1..n /\ s[k].item < i
  <2>1. \A k \in 1..n - 1 : k \in 1..n
    BY <1>2
  <2> QED
    BY <2>1, <1>2 DEF HeapInv, Separate
<1>11. KidsLater(M)
  BY <1>4, <1>6, <1>8 DEF HeapInv, KidsLater
<1>12. Opened(M, t)
  <2> SUFFICES ASSUME NEW k \in 1..n - 1
               PROVE  /\ s[k].item \in DOMAIN M /\ M[s[k].item].type = "invalid" /\ KidsOf(M, s[k].item) = {}
                      /\ \A e \in Elements(s[k]) : e \in DOMAIN M /\ e > s[k].item
    BY <1>2 DEF Opened
  <2>1. /\ s[k].item \in DOMAIN N /\ N[s[k].item].type = "invalid" /\ KidsOf(N, s[k].item) = {}
        /\ \A e \in Elements(s[k]) : e \in DOMAIN N /\ e > s[k].item
    BY <1>10 DEF HeapInv, Opened
  <2>2. s[k].item # i
    BY <2>1, <1>1, <1>4, <1>10
  <2> QED
    BY <2>1, <2>2, <1>6, <1>8
<1>13. Separate(M, t)
  <2> SUFFICES ASSUME NEW k \in 1..n - 1
               PROVE  /\ \A p \in DOMAIN M : p <= s[k].item => \A l \in KidsOf(M, p) : l <= s[k].item
                      /\ \A m \in 1..k - 1 : t[m].item < s[k].item /\ \A e \in Elements(t[m]) : e <= s[k].item
    BY <1>2 DEF Separate
  <2>1. /\ \A p \in DOMAIN N : p <= s[k].item => \A l \in KidsOf(N, p) : l <= s[k].item
        /\ \A m \in 1..k - 1 : s[m].item < s[k].item /\ \A e \in Elements(s[m]) : e <= s[k].item
    BY <1>10 DEF HeapInv, Separate
  <2>2. \A m \in 1..k - 1 : m \in 1..n - 1
    BY <1>2
  <2>3. ASSUME NEW p \in DOMAIN N, p <= s[k].item PROVE p # i
    <3>1. s[k].item \in Nat /\ i \in Nat /\ s[k].item < i
      BY <1>1, <1>4, <1>10, FrameFields
    <3> QED
      BY <3>1, <2>3
  <2> QED
    BY <2>1, <2>2, <2>3, <1>2, <1>6, <1>8
<1>14. Parented(M, t)
  <2> SUFFICES ASSUME NEW j \in DOMAIN N \ {0}
               PROVE  (\E p \in DOMAIN N : j \in KidsOf(M, p)) \/ \E k \in 1..n - 1 : j \in Elements(s[k])
    BY <1>2, <1>6 DEF Parented
  <2>1. (\E p \in DOMAIN N : j \in KidsOf(N, p)) \/ \E k \in 1..n : j \in Elements(s[k])
    BY DEF HeapInv, Parented
  <2>2. ASSUME NEW p \in DOMAIN N, j \in KidsOf(N, p) PROVE j \in KidsOf(M, p)
    BY <2>2, <1>4, <1>8
  <2>3. ASSUME NEW k \in 1..n, j \in Elements(s[k]) PROVE j \in KidsOf(M, i) \/ k \in 1..n - 1
    <3>1. CASE k = n
      BY <3>1, <2>3, <1>8
    <3>2. CASE k # n
      BY <3>2, <1>2
    <3> QED
      BY <3>1, <3>2
  <2> QED
    BY <2>1, <2>2, <2>3, <1>4
<1>15. Unshared(M) /\ StringsIn(M) = StringsIn(N)
  BY <1>6, <1>9 DEF HeapInv, Unshared, StringsIn
<1> QED
  BY <1>6, <1>7, <1>11, <1>12, <1>13, <1>14, <1>15 DEF HeapInv, M, t

\* What has been made for an array or object is freed, and it is abandoned.
LEMMA AbandonedHeap ==
    ASSUME NEW N, NEW s, HeapInv(N, s), s # <<>>
    PROVE  LET D == {j \in DOMAIN N : j > s[Len(s)].item}
               M == [j \in DOMAIN N \ D |-> N[j]]
           IN  HeapInv(M, SubSeq(s, 1, Len(s) - 1)) /\ \A j \in DOMAIN M : StringsAt(M, j) = StringsAt(N, j)
<1> DEFINE n == Len(s)
           i == s[n].item
           D == {j \in DOMAIN N : j > i}
           M == [j \in DOMAIN N \ D |-> N[j]]
           t == SubSeq(s, 1, n - 1)
<1>1. HeapTyped(N, s) /\ s \in Seq(Frame) /\ \A j \in DOMAIN N : j \in Nat
  BY NodeFields DEF HeapInv, HeapTyped
<1>2. /\ n \in Nat /\ n > 0 /\ n \in 1..n /\ i \in Nat
      /\ t \in Seq(Frame) /\ Len(t) = n - 1 /\ \A k \in 1..n - 1 : t[k] = s[k]
  BY <1>1, PoppedFrames, FrameFields
<1>3. DOMAIN M \subseteq DOMAIN N /\ \A j \in DOMAIN N : j \in DOMAIN M <=> j <= i
  BY <1>1, <1>2
<1>4. \A j \in DOMAIN M : M[j] = N[j]
  OBVIOUS
<1>5. HeapTyped(M, t)
  <2>1. \A j \in DOMAIN N \ D : N[j] \in Node
    BY <1>1, NodeFields
  <2>2. M \in [DOMAIN M -> Node]
    BY <2>1
  <2> HIDE DEF M, t
  <2> QED
    BY <2>2, <1>1, <1>2, <1>3 DEF HeapTyped
<1> HIDE DEF M, t, D
<1>6. \A j \in DOMAIN M : KidsOf(M, j) = KidsOf(N, j) /\ StringsAt(M, j) = StringsAt(N, j)
  BY <1>4 DEF KidsOf, StringsAt
<1>7. /\ \A p \in DOMAIN N : p <= i => \A l \in KidsOf(N, p) : l <= i
      /\ \A m \in 1..n - 1 : s[m].item < i /\ \A e \in Elements(s[m]) : e <= i
  BY <1>2 DEF HeapInv, Separate
<1>8. \A k \in 1..n - 1 : k \in 1..n
  BY <1>2
<1>9. KidsLater(M)
  <2>1. \A p \in DOMAIN N : \A l \in KidsOf(N, p) : l \in DOMAIN N /\ l > p
    BY DEF HeapInv, KidsLater
  <2> QED
    BY <2>1, <1>3, <1>6, <1>7 DEF KidsLater
<1>10. Opened(M, t)
  <2> SUFFICES ASSUME NEW k \in 1..n - 1
               PROVE  /\ s[k].item \in DOMAIN M /\ M[s[k].item].type = "invalid" /\ KidsOf(M, s[k].item) = {}
                      /\ \A e \in Elements(s[k]) : e \in DOMAIN M /\ e > s[k].item
    BY <1>2 DEF Opened
  <2>1. /\ s[k].item \in DOMAIN N /\ N[s[k].item].type = "invalid" /\ KidsOf(N, s[k].item) = {}
        /\ \A e \in Elements(s[k]) : e \in DOMAIN N /\ e > s[k].item
    BY <1>8 DEF HeapInv, Opened
  <2>2. s[k].item <= i
    BY <2>1, <1>1, <1>2, <1>7
  <2> QED
    BY <2>1, <2>2, <1>3, <1>4, <1>6, <1>7
<1>11. Separate(M, t)
  <2> SUFFICES ASSUME NEW k \in 1..n - 1
               PROVE  /\ \A p \in DOMAIN M : p <= s[k].item => \A l \in KidsOf(M, p) : l <= s[k].item
                      /\ \A m \in 1..k - 1 : t[m].item < s[k].item /\ \A e \in Elements(t[m]) : e <= s[k].item
    BY <1>2 DEF Separate
  <2>1. /\ \A p \in DOMAIN N : p <= s[k].item => \A l \in KidsOf(N, p) : l <= s[k].item
        /\ \A m \in 1..k - 1 : s[m].item < s[k].item /\ \A e \in Elements(s[m]) : e <= s[k].item
    BY <1>8 DEF HeapInv, Separate
  <2>2. \A m \in 1..k - 1 : m \in 1..n - 1
    BY <1>2
  <2> QED
    BY <2>1, <2>2, <1>2, <1>3, <1>6
<1>12. Parented(M, t)
  <2> SUFFICES ASSUME NEW j \in DOMAIN M \ {0}
               PROVE  (\E p \in DOMAIN M : j \in KidsOf(M, p)) \/ \E k \in 1..n - 1 : j \in Elements(s[k])
    BY <1>2 DEF Parented
  <2>1. j \in DOMAIN N /\ j \in Nat /\ j <= i
    BY <1>1, <1>3
  <2>2. (\E p \in DOMAIN N : j \in KidsOf(N, p)) \/ \E k \in 1..n : j \in Elements(s[k])
    BY <2>1 DEF HeapInv, Parented
  <2>3. ASSUME NEW p \in DOMAIN N, j \in KidsOf(N, p) PROVE p \in DOMAIN M /\ j \in KidsOf(M, p)
    <3>1. j > p /\ p \in Nat
      BY <2>3, <1>1 DEF HeapInv, KidsLater
    <3>2. p <= i
      BY <3>1, <2>1, <1>2
    <3> QED
      BY <3>2, <2>3, <1>3, <1>6
  <2>4. ASSUME NEW k \in 1..n, j \in Elements(s[k]) PROVE k \in 1..n - 1
    <3>1. k = n => j > i
      BY <2>4 DEF HeapInv, Opened
    <3>2. k # n
      BY <3>1, <2>1, <1>2
    <3> QED
      BY <3>2, <1>2
  <2> QED
    BY <2>2, <2>3, <2>4
<1>13. Unshared(M)
  BY <1>3, <1>6 DEF HeapInv, Unshared
<1> QED
  BY <1>5, <1>6, <1>9, <1>10, <1>11, <1>12, <1>13 DEF HeapInv, M, t, D

-----------------------------------------------------------------------------
(* What is deleted when a call fails *)

\* With the elements of the array that failed go all items made after it.
LEMMA BelowElements ==
    ASSUME HeapInv(nodes, stack), stack # <<>>
    PROVE  /\ Top = stack[Len(stack)] /\ Top.item \in Nat
           /\ Below(Elements(Top)) = {j \in DOMAIN nodes : j > Top.item}
<1> DEFINE n == Len(stack)
           i == Top.item
           D == {j \in DOMAIN nodes : j > i}
           B == Below(Elements(Top))
<1>1. HeapTyped(nodes, stack) /\ stack \in Seq(Frame) /\ KidsLater(nodes) /\ \A j \in DOMAIN nodes : j \in Nat
  BY NodeFields DEF HeapInv, HeapTyped
<1>2. n \in Nat /\ n > 0 /\ n \in 1..n /\ Top = stack[n] /\ i \in Nat
  <2>1. n \in Nat /\ n > 0 /\ n \in 1..n
    BY <1>1, PoppedFrames
  <2> QED
    BY <2>1, <1>1, FrameFields DEF Top
<1>3. \A e \in Elements(Top) : e \in D
  BY <1>2 DEF HeapInv, Opened
<1>4. IsClosed(nodes, D)
  <2>1. ASSUME NEW p \in D, NEW k \in KidsOf(nodes, p) PROVE k \in D
    <3>1. k \in DOMAIN nodes /\ k > p /\ p > i /\ p \in DOMAIN nodes
      BY <1>1 DEF KidsLater
    <3>2. k \in Nat /\ p \in Nat
      BY <3>1, <1>1
    <3> QED
      BY <3>1, <3>2, <1>2
  <2> QED
    BY <2>1 DEF IsClosed
<1>5. PICK b \in Nat : DOMAIN nodes \subseteq 0..b
  BY <1>1 DEF HeapTyped
<1>6. /\ Elements(Top) \subseteq B /\ IsClosed(nodes, B)
      /\ \A C : IsClosed(nodes, C) /\ Elements(Top) \subseteq C => B \subseteq C
  <2>1. Elements(Top) \in SUBSET DOMAIN nodes
    BY <1>3
  <2> QED
    BY <2>1, <1>1, <1>5, BelowIsLeast
<1> HIDE DEF B
<1>7. B \subseteq D
  BY <1>3, <1>4, <1>6
<1>8. D \subseteq B
  <2> DEFINE Bad == D \ B
  <2> SUFFICES ASSUME Bad # {} PROVE FALSE
    OBVIOUS
  <2>1. Bad \subseteq Nat
    BY <1>1
  <2>2. PICK j \in Bad : \A m \in Bad : j <= m
    <3> HIDE DEF Bad
    <3> QED
      BY <2>1, Least
  <2>3. j \in DOMAIN nodes /\ j > i /\ j \in Nat /\ j \notin B
    BY <1>1
  <2>4. j \in DOMAIN nodes \ {0}
    BY <2>3, <1>2
  <2>5. (\E p \in DOMAIN nodes : j \in KidsOf(nodes, p)) \/ \E k \in 1..n : j \in Elements(stack[k])
    BY <2>4 DEF HeapInv, Parented
  <2>6. ASSUME NEW p \in DOMAIN nodes, j \in KidsOf(nodes, p) PROVE FALSE
    <3>1. j > p /\ p \in Nat
      BY <2>6, <1>1 DEF KidsLater
    <3>2. p > i
      <4>1. p <= i => j <= i
        BY <2>6, <1>2 DEF HeapInv, Separate
      <4> QED
        BY <4>1, <3>1, <2>3, <1>2
    <3>3. p \in D /\ p < j
      BY <3>1, <3>2, <2>3
    <3>4. p \in B
      <4>1. p \notin Bad
        <5> HIDE DEF Bad
        <5> QED
          BY <2>2, <3>1, <3>3, <2>3
      <4> QED
        BY <4>1, <3>3
    <3>5. j \in B
      BY <3>4, <2>6, <1>6 DEF IsClosed
    <3> QED
      BY <3>5, <2>3
  <2>7. ASSUME NEW k \in 1..n, j \in Elements(stack[k]) PROVE FALSE
    <3>1. CASE k = n
      BY <3>1, <2>7, <2>3, <1>2, <1>6
    <3>2. CASE k # n
      <4>1. k \in 1..n - 1
        BY <3>2, <1>2
      <4>2. j <= i
        BY <4>1, <2>7, <1>2 DEF HeapInv, Separate
      <4> QED
        BY <4>2, <2>3, <1>2
    <3> QED
      BY <3>1, <3>2
  <2> QED
    BY <2>5, <2>6, <2>7
<1> QED
  BY <1>2, <1>7, <1>8 DEF B

\* What was made is the tree of the root.
LEMMA BelowRoot ==
    ASSUME HeapInv(nodes, stack), stack = <<>>
    PROVE  /\ Below(DOMAIN nodes \cap {0}) = DOMAIN nodes
           /\ DOMAIN nodes # {} => 0 \in DOMAIN nodes
<1> DEFINE B == Below(DOMAIN nodes \cap {0})
<1>1. HeapTyped(nodes, stack) /\ KidsLater(nodes) /\ \A j \in DOMAIN nodes : j \in Nat
  BY NodeFields DEF HeapInv
<1>2. PICK b \in Nat : DOMAIN nodes \subseteq 0..b
  BY <1>1 DEF HeapTyped
<1>3. DOMAIN nodes \cap {0} \subseteq B /\ IsClosed(nodes, B)
  <2>1. DOMAIN nodes \cap {0} \in SUBSET DOMAIN nodes
    OBVIOUS
  <2> QED
    BY <2>1, <1>1, <1>2, BelowIsLeast
<1> HIDE DEF B
<1>4. 1..Len(stack) = {}
  OBVIOUS
<1>5. DOMAIN nodes \subseteq B
  <2> DEFINE Bad == DOMAIN nodes \ B
  <2> SUFFICES ASSUME Bad # {} PROVE FALSE
    OBVIOUS
  <2>1. Bad \subseteq Nat
    BY <1>1
  <2>2. PICK j \in Bad : \A m \in Bad : j <= m
    <3> HIDE DEF Bad
    <3> QED
      BY <2>1, Least
  <2>3. j \in DOMAIN nodes /\ j \in Nat /\ j \notin B
    BY <1>1
  <2>4. j # 0
    BY <2>3, <1>3
  <2>5. PICK p \in DOMAIN nodes : j \in KidsOf(nodes, p)
    BY <2>3, <2>4, <1>4 DEF HeapInv, Parented
  <2>6. j > p /\ p \in Nat
    BY <2>5, <1>1 DEF KidsLater
  <2>7. p \in B
    <3>1. p \notin Bad
      <4> HIDE DEF Bad
      <4> QED
        BY <2>2, <2>6, <2>3
    <3> QED
      BY <3>1
  <2> QED
    BY <2>3, <2>5, <2>7, <1>3 DEF IsClosed
<1>6. DOMAIN nodes # {} => 0 \in DOMAIN nodes
  <2> SUFFICES ASSUME DOMAIN nodes # {}, 0 \notin DOMAIN nodes PROVE FALSE
    OBVIOUS
  <2>1. IsClosed(nodes, {}) /\ DOMAIN nodes \cap {0} \subseteq {}
    BY DEF IsClosed
  <2>2. B \subseteq {}
    <3>1. DOMAIN nodes \cap {0} \in SUBSET DOMAIN nodes
      OBVIOUS
    <3>2. \A C : IsClosed(nodes, C) /\ DOMAIN nodes \cap {0} \subseteq C => B \subseteq C
      BY <3>1, <1>1, <1>2, BelowIsLeast DEF B
    <3> QED
      BY <2>1, <3>2
  <2> QED
    BY <2>2, <1>5
<1> QED
  BY <1>3, <1>5, <1>6 DEF B, IsClosed

\* The strings of some items.
LEMMA StringsOfItems ==
    ASSUME NEW D \in SUBSET DOMAIN nodes
    PROVE  StringsOf(D) = UNION {StringsAt(nodes, i) : i \in D}
  BY DEF StringsOf, StringsAt

\* Deleting items leaves the strings of the others.
LEMMA DeletedStrings ==
    ASSUME Unshared(nodes), strings = StringsIn(nodes), NEW D \in SUBSET DOMAIN nodes, Delete(D),
           \A j \in DOMAIN nodes \ D : StringsAt(nodes', j) = StringsAt(nodes, j)
    PROVE  strings' = StringsIn(nodes') /\ DOMAIN nodes' = DOMAIN nodes \ D
<1>1. DOMAIN nodes' = DOMAIN nodes \ D /\ strings' = strings \ StringsOf(D)
  BY DEF Delete
<1>2. StringsOf(D) = UNION {StringsAt(nodes, i) : i \in D}
  BY StringsOfItems
<1>3. \A s : s \in strings' <=> \E i \in DOMAIN nodes \ D : s \in StringsAt(nodes, i)
  BY <1>1, <1>2 DEF StringsIn, Unshared
<1> QED
  BY <1>1, <1>3 DEF StringsIn

-----------------------------------------------------------------------------
(* The heap while the parser runs *)

\* The item whose value or name comes next is the newest one.
NewestInv == stand \in {"value", "name"} =>
    /\ Item \in DOMAIN nodes /\ nodes[Item].type = "invalid"
    /\ \A j \in DOMAIN nodes : j <= Item
    /\ \A k \in 1..Len(stack) : stack[k].item < Item
    /\ stand = "name" => nodes[Item].name = None

\* What is behind the offset has not been made.
BehindInv == stand \in {"element", "value", "name", "after"} =>
    /\ 0 \in DOMAIN nodes /\ \A j \in DOMAIN nodes : j <= offset
    /\ \A s \in strings : s < offset

EdgeInv ==
    /\ stand \in {"start", "failed"} => DOMAIN nodes = {} /\ stack = <<>>
    /\ stand = "parsed" => 0 \in DOMAIN nodes /\ stack = <<>>

TreeInv == HeapInv(nodes, stack) /\ strings = StringsIn(nodes) /\ NewestInv /\ BehindInv /\ EdgeInv

LEMMA TreeInit ==
    ASSUME ParseInit
    PROVE  TreeInv
<1>1. nodes = <<>> /\ stack = <<>> /\ strings = {} /\ stand = "start"
  BY DEF ParseInit
<1>2. DOMAIN nodes = {} /\ 1..Len(stack) = {}
  BY <1>1
<1>3. HeapTyped(nodes, stack)
  <2>1. nodes \in [DOMAIN nodes -> Node]
    BY <1>1, <1>2
  <2>2. stack \in Seq(Frame) /\ 0 \in Nat /\ DOMAIN nodes \subseteq 0..0
    BY <1>1, <1>2
  <2> QED
    BY <2>1, <2>2 DEF HeapTyped
<1>4. HeapInv(nodes, stack)
  BY <1>2, <1>3 DEF HeapInv, KidsLater, Opened, Separate, Parented, Unshared
<1> QED
  BY <1>1, <1>2, <1>4 DEF TreeInv, StringsIn, NewestInv, BehindInv, EdgeInv

\* A call that returns false leaves the heap to those that clean up.
LEMMA FailingTree ==
    ASSUME HeapInv(nodes', stack'), strings' = StringsIn(nodes'), stand' = "fail"
    PROVE  TreeInv'
  BY DEF TreeInv, NewestInv, BehindInv, EdgeInv

LEMMA FailsTree ==
    ASSUME TreeInv, NEW o, Fails(o), nodes' = nodes, strings' = strings
    PROVE  TreeInv'
<1>1. stack' = stack /\ stand' = "fail"
  BY DEF Fails
<1> QED
  BY <1>1, FailingTree DEF TreeInv

\* A string is named by a number.
LEMMA HeapStrings ==
    ASSUME NEW N, NEW s, HeapInv(N, s), NEW q \in StringsIn(N)
    PROVE  q \in Int
<1>1. PICK j \in DOMAIN N : q \in StringsAt(N, j)
  BY DEF StringsIn
<1>2. N[j].name \in Int /\ N[j].value \in Int
  BY NodeFields DEF HeapInv
<1> QED
  BY <1>1, <1>2 DEF StringsAt

\* The newest item has its value, and behind it comes what follows.
LEMMA ReturnsTree ==
    ASSUME TreeInv, stand = "value", offset \in Nat, NEW type \in Types, NEW value \in Int, NEW o \in Nat, offset < o,
           Returns(type, value, o),
           type = "string" => value = offset,
           strings' = strings \cup (IF type = "string" THEN {value} ELSE {})
    PROVE  TreeInv'
<1>1. /\ HeapInv(nodes, stack) /\ strings = StringsIn(nodes)
      /\ Item \in DOMAIN nodes /\ nodes[Item].type = "invalid"
      /\ \A k \in 1..Len(stack) : stack[k].item < Item
      /\ 0 \in DOMAIN nodes /\ \A j \in DOMAIN nodes : j <= offset
      /\ \A s \in strings : s < offset
  BY DEF TreeInv, NewestInv, BehindInv
<1> DEFINE i == Item
<1>2. i \in Nat /\ stack \in Seq(Frame) /\ \A j \in DOMAIN nodes : j \in Nat
  BY <1>1, NodeFields DEF HeapInv, HeapTyped
<1>3. \A k \in 1..Len(stack) : stack[k].item # i
  BY <1>1, <1>2, FrameFields
<1>4. type = "string" => value # None /\ value \notin StringsIn(nodes)
  BY <1>1 DEF None
<1> DEFINE M == Valued(nodes, i, type, value)
<1>5. nodes' = M /\ offset' = o /\ stand' = "after" /\ stack' = stack
  BY DEF Returns, Valued
<1> HIDE DEF i
<1>6. /\ HeapInv(M, stack) /\ DOMAIN M = DOMAIN nodes
      /\ StringsIn(M) = StringsIn(nodes) \cup (IF type = "string" THEN {value} ELSE {})
  <2>1. i \in DOMAIN nodes /\ nodes[i].type = "invalid" /\ HeapInv(nodes, stack)
    BY <1>1 DEF i
  <2> QED
    BY <2>1, <1>3, <1>4, ValuedHeap
<1> HIDE DEF M
<1>7. \A j \in DOMAIN nodes : j <= o
  <2> SUFFICES ASSUME NEW j \in DOMAIN nodes PROVE j <= o
    OBVIOUS
  <2>1. j \in Nat /\ j <= offset
    BY <1>1, <1>2
  <2> QED
    BY <2>1
<1>8. \A s \in strings' : s < o
  <2> SUFFICES ASSUME NEW s \in strings' PROVE s < o
    OBVIOUS
  <2>1. CASE s \in strings
    <3>1. s < offset /\ s \in Int
      BY <2>1, <1>1, HeapStrings
    <3> QED
      BY <3>1
  <2>2. CASE s = offset
    BY <2>2
  <2> QED
    BY <2>1, <2>2
<1> QED
  BY <1>1, <1>5, <1>6, <1>7, <1>8 DEF TreeInv, NewestInv, BehindInv, EdgeInv

LEMMA StartsTree ==
    ASSUME ParseInv, TreeInv, ParseStarts
    PROVE  TreeInv'
<1>1. /\ HeapInv(nodes, <<>>) /\ DOMAIN nodes = {} /\ stack = <<>> /\ strings = StringsIn(nodes) /\ strings = {}
  BY DEF ParseStarts, TreeInv, EdgeInv, StringsIn
<1>2. CASE \E o : Fails(o) /\ Starves
  BY <1>2, FailsTree DEF Starves
<1>3. CASE /\ nodes' = [i \in {0} |-> Fresh] /\ offset' = Skip(Bom) /\ stand' = "value"
           /\ stack' = stack /\ strings' = strings
  <2>1. nodes' = Born(nodes, 0)
    BY <1>1, <1>3 DEF Born
  <2>2. HeapInv(nodes', stack')
    BY <1>1, <1>3, <2>1, RootHeap
  <2>3. nodes'[0] = Fresh /\ Fresh.type = "invalid" /\ DOMAIN nodes' = {0} /\ StringsIn(nodes') = {}
    <3>1. 0 \in Nat /\ 0 \notin DOMAIN nodes
      BY <1>1
    <3>2. /\ Born(nodes, 0)[0] = Fresh /\ Fresh.type = "invalid" /\ StringsIn(Born(nodes, 0)) = StringsIn(nodes)
          /\ DOMAIN Born(nodes, 0) = DOMAIN nodes \cup {0}
      BY <3>1, BornNode
    <3> QED
      BY <3>2, <2>1, <1>1
  <2>4. Item' = 0 /\ 1..Len(stack') = {}
    BY <1>1, <1>3 DEF Item
  <2>5. NewestInv'
    BY <1>3, <2>3, <2>4 DEF NewestInv
  <2>6. Skip(Bom) \in Nat
    <3>1. Bom \in Nat /\ Bom < Length /\ ContentInv
      BY DEF Bom, ParseInv, ContentInv
    <3> QED
      BY <3>1, SkipStays
  <2>7. BehindInv'
    BY <1>1, <1>3, <2>3, <2>6 DEF BehindInv
  <2> QED
    BY <1>1, <1>3, <2>2, <2>3, <2>5, <2>7 DEF TreeInv, EdgeInv
<1> QED
  BY <1>2, <1>3 DEF ParseStarts

LEMMA StringFailsTree ==
    ASSUME TreeInv, NEW q, StringFails(q)
    PROVE  TreeInv'
<1>1. \E o : Fails(o) /\ nodes' = nodes /\ strings' = strings
  BY DEF StringFails, Starves
<1> QED
  BY <1>1, FailsTree

LEMMA ValueTree ==
    ASSUME ParseInv, TreeInv, ParseLiteral \/ ParseNumber \/ ParseString \/ ParseValueFails
    PROVE  TreeInv'
<1>1. stand = "value" /\ Parsing
  BY DEF ParseLiteral, ParseNumber, ParseString, ParseValueFails, Parsing
<1>2. ContentInv /\ offset \in Nat /\ offset < Length /\ Length \in Nat
  BY <1>1, Standing
<1>3. None \in Int
  BY DEF None
<1>4. CASE ParseLiteral
  <2>1. PICK type \in DOMAIN Literals :
          Reads(offset, Literals[type]) /\ Returns(type, None, offset + Len(Literals[type]))
    BY <1>4 DEF ParseLiteral
  <2>2. type \in Types /\ type # "string" /\ Len(Literals[type]) \in Nat /\ Len(Literals[type]) > 0
    <3>1. type = "null" \/ type = "false" \/ type = "true"
      BY DEF Literals
    <3>2. Len(<<110, 117, 108, 108>>) = 4 /\ Len(<<102, 97, 108, 115, 101>>) = 5 /\ Len(<<116, 114, 117, 101>>) = 4
      OBVIOUS
    <3> QED
      BY <3>1, <3>2 DEF Types, Literals
  <2>3. offset + Len(Literals[type]) \in Nat /\ offset < offset + Len(Literals[type])
    BY <1>2, <2>2
  <2>4. strings' = strings \cup (IF type = "string" THEN {None} ELSE {})
    BY <1>4, <2>2 DEF ParseLiteral
  <2> QED
    BY <1>1, <1>2, <1>3, <2>1, <2>2, <2>3, <2>4, ReturnsTree
<1>5. CASE ParseNumber
  <2>1. CASE AfterNumber(offset) > offset
    <3>1. AfterNumber(offset) \in Nat /\ offset < AfterNumber(offset)
      BY <1>2, <2>1, AfterNumberStays
    <3>2. Returns("number", offset, AfterNumber(offset)) /\ strings' = strings \cup (IF "number" = "string" THEN {offset} ELSE {})
      BY <1>5, <2>1 DEF ParseNumber
    <3>3. "number" \in Types /\ offset \in Int
      BY <1>2 DEF Types
    <3> QED
      BY <1>1, <1>2, <3>1, <3>2, <3>3, ReturnsTree
  <2>2. CASE ~(AfterNumber(offset) > offset)
    BY <1>5, <2>2, FailsTree DEF ParseNumber
  <2> QED
    BY <2>1, <2>2
<1>6. CASE ParseString
  <2>1. CASE IsString(offset) /\ Returns("string", offset, StringEnd(offset) + 1) /\ strings' = strings \cup {offset}
    <3>1. StringEnd(offset) + 1 \in Nat /\ offset < StringEnd(offset) + 1
      BY <1>2, <2>1, StringEndStays DEF IsString
    <3>2. strings' = strings \cup (IF "string" = "string" THEN {offset} ELSE {})
      BY <2>1
    <3>3. "string" \in Types /\ offset \in Int
      BY <1>2 DEF Types
    <3> QED
      BY <1>1, <1>2, <2>1, <3>1, <3>2, <3>3, ReturnsTree
  <2> QED
    BY <1>6, <2>1, StringFailsTree DEF ParseString
<1>7. CASE ParseValueFails
  BY <1>7, FailsTree DEF ParseValueFails
<1> QED
  BY <1>4, <1>5, <1>6, <1>7

LEMMA OpensTree ==
    ASSUME ParseInv, TreeInv, NEW kind \in Kinds, ParseOpens(kind)
    PROVE  TreeInv'
<1> DEFINE o == Skip(offset + 1)
<1>1. stand = "value" /\ Parsing /\ At(offset) = Opening[kind]
  BY DEF ParseOpens, Parsing
<1>2. ContentInv /\ offset \in Nat /\ offset < Length /\ Length \in Nat
  BY <1>1, Standing
<1>3. offset + 1 \in Nat /\ offset + 1 < Length
  <2>1. At(offset) # 0
    BY <1>1 DEF Opening, Kinds
  <2> QED
    BY <2>1, <1>2, NotAtTheEnd
<1>4. o \in Nat /\ offset < o
  <2>1. o \in offset + 1..Length - 1
    BY <1>2, <1>3, SkipStays
  <2> QED
    BY <2>1, <1>2
<1> HIDE DEF o
<1>5. CASE \E q : Fails(q) /\ UNCHANGED <<nodes, strings, starved>>
  BY <1>5, FailsTree
<1>6. CASE Returns(kind, None, o + 1) /\ strings' = strings
  <2>1. kind \in Types /\ kind # "string" /\ None \in Int
    BY DEF Kinds, Types, None
  <2>2. o + 1 \in Nat /\ offset < o + 1
    BY <1>2, <1>4
  <2>3. strings' = strings \cup (IF kind = "string" THEN {None} ELSE {})
    BY <1>6, <2>1
  <2> QED
    BY <1>1, <1>2, <1>6, <2>1, <2>2, <2>3, ReturnsTree
<1>7. CASE /\ offset' = o - 1 /\ stand' = "element"
           /\ stack' = Append(stack, [kind |-> kind, item |-> Item, elements |-> <<>>])
           /\ nodes' = nodes /\ strings' = strings
  <2>1. /\ HeapInv(nodes, stack) /\ strings = StringsIn(nodes)
        /\ Item \in DOMAIN nodes /\ nodes[Item].type = "invalid"
        /\ \A j \in DOMAIN nodes : j <= Item
        /\ \A k \in 1..Len(stack) : stack[k].item < Item
        /\ 0 \in DOMAIN nodes /\ \A j \in DOMAIN nodes : j <= offset
        /\ \A s \in strings : s < offset
    BY <1>1 DEF TreeInv, NewestInv, BehindInv
  <2>2. HeapInv(nodes, stack')
    BY <1>7, <2>1, PushedHeap
  <2>3. \A j \in DOMAIN nodes : j <= o - 1
    <3>1. \A j \in DOMAIN nodes : j \in Nat
      BY <2>1, NodeFields DEF HeapInv
    <3> QED
      BY <3>1, <2>1, <1>2, <1>4
  <2>4. \A s \in strings : s < o - 1
    BY <2>1, HeapStrings, <1>2, <1>4
  <2> QED
    BY <1>7, <2>1, <2>2, <2>3, <2>4 DEF TreeInv, NewestInv, BehindInv, EdgeInv
<1> QED
  BY <1>5, <1>6, <1>7 DEF ParseOpens, o

LEMMA ElementTree ==
    ASSUME ParseInv, TreeInv, ParseElement
    PROVE  TreeInv'
<1> DEFINE j == offset + 1
<1>1. stand = "element" /\ Parsing
  BY DEF ParseElement, Parsing
<1>2. ContentInv /\ offset \in Nat /\ j < Length /\ Length \in Nat /\ stack # <<>>
  BY <1>1, Standing DEF ParseInv, PlaceInv
<1>3. j \in Nat /\ Skip(j) \in Nat /\ j <= Skip(j)
  <2>1. j \in Nat
    BY <1>2
  <2>2. Skip(j) \in j..Length - 1
    BY <2>1, <1>2, SkipStays
  <2> QED
    BY <2>1, <2>2, <1>2
<1>4. CASE \E q : Fails(q) /\ Starves
  BY <1>4, FailsTree DEF Starves
<1>5. CASE /\ nodes' = [i \in DOMAIN nodes \cup {j} |-> IF i = j THEN Fresh ELSE nodes[i]]
           /\ stack' = [stack EXCEPT ![Len(stack)].elements = Append(@, j)]
           /\ offset' = Skip(j) /\ stand' = IF Top.kind = "object" THEN "name" ELSE "value"
           /\ strings' = strings
  <2>1. /\ HeapInv(nodes, stack) /\ strings = StringsIn(nodes)
        /\ 0 \in DOMAIN nodes /\ \A i \in DOMAIN nodes : i <= offset
        /\ \A s \in strings : s < offset
    BY <1>1 DEF TreeInv, BehindInv
  <2>2. stack \in Seq(Frame) /\ \A i \in DOMAIN nodes : i \in Nat
    BY <2>1, NodeFields DEF HeapInv, HeapTyped
  <2>3. \A i \in DOMAIN nodes : i < j
    BY <1>2, <2>1, <2>2
  <2>4. nodes' = Born(nodes, j)
    BY <1>5 DEF Born
  <2>5. /\ j \notin DOMAIN nodes /\ stand' \in {"value", "name"}
    BY <1>3, <1>5, <2>3
  <2>6. /\ Len(stack) \in 1..Len(stack) /\ Len(stack') = Len(stack)
        /\ \A k \in 1..Len(stack) : stack'[k].item = stack[k].item
        /\ stack'[Len(stack)].elements = Append(stack[Len(stack)].elements, j)
        /\ stack[Len(stack)].elements \in Seq(Nat)
    <3> DEFINE t == [stack EXCEPT ![Len(stack)].elements = Append(@, j)]
    <3>1. /\ Len(stack) \in 1..Len(stack) /\ Len(t) = Len(stack)
          /\ \A k \in 1..Len(stack) : k # Len(stack) => t[k] = stack[k]
          /\ t[Len(stack)].item = stack[Len(stack)].item
          /\ t[Len(stack)].elements = Append(stack[Len(stack)].elements, j)
      BY <1>2, <1>3, <2>2, ChangedFrames
    <3>2. stack' = t
      BY <1>5
    <3> HIDE DEF t
    <3>3. stack[Len(stack)].elements \in Seq(Nat)
      BY <3>1, <2>2, FrameFields
    <3> QED
      BY <3>1, <3>2, <3>3
  <2>7. Item' = j
    <3> DEFINE e == stack[Len(stack)].elements
    <3>1. stack' # <<>> /\ Top' = stack'[Len(stack)] /\ stack'[Len(stack)].elements = Append(e, j)
      <4>1. Len(stack') # 0
        BY <2>6
      <4> QED
        BY <4>1, <2>6 DEF Top
    <3>2. e \in Seq(Nat)
      BY <2>6
    <3> HIDE DEF e, j
    <3>3. Len(Append(e, j)) = Len(e) + 1 /\ Append(e, j)[Len(e) + 1] = j
      BY <3>2, <1>3
    <3> QED
      BY <3>1, <3>3 DEF Item
  <2> HIDE DEF j
  <2>8. HeapInv(nodes', stack')
    <3>1. HeapInv(Born(nodes, j), [stack EXCEPT ![Len(stack)].elements = Append(@, j)])
      BY <2>1, <2>3, <1>2, <1>3, ElementHeap
    <3> QED
      BY <3>1, <2>4, <1>5
  <2>9. /\ DOMAIN nodes' = DOMAIN nodes \cup {j} /\ nodes'[j] = Fresh /\ StringsIn(nodes') = StringsIn(nodes)
        /\ Fresh.type = "invalid" /\ Fresh.name = None
    BY <1>3, <2>4, <2>5, BornNode
  <2>10. NewestInv'
    <3>1. \A i \in DOMAIN nodes' : i <= j
      BY <2>2, <2>3, <2>9, <1>3
    <3>2. \A k \in 1..Len(stack) : stack[k].item < j
      BY <2>1, <2>3 DEF HeapInv, Opened
    <3> QED
      BY <3>1, <3>2, <2>5, <2>6, <2>7, <2>9 DEF NewestInv
  <2>11. BehindInv'
    <3>1. \A i \in DOMAIN nodes' : i <= Skip(j)
      <4>1. \A i \in DOMAIN nodes : i \in Nat /\ i < j
        BY <2>2, <2>3
      <4> HIDE DEF Skip
      <4> QED
        BY <4>1, <2>9, <1>3
    <3>2. \A s \in strings : s < Skip(j)
      <4>1. \A s \in strings : s \in Int /\ s < offset
        BY <2>1, HeapStrings
      <4>2. offset < j
        BY <1>2 DEF j
      <4> QED
        BY <4>1, <4>2, <1>2, <1>3
    <3> QED
      BY <3>1, <3>2, <2>1, <2>9, <1>5 DEF BehindInv
  <2> QED
    BY <2>1, <2>5, <2>8, <2>9, <2>10, <2>11, <1>5 DEF TreeInv, EdgeInv
<1> QED
  BY <1>4, <1>5 DEF ParseElement

LEMMA NameTree ==
    ASSUME ParseInv, TreeInv, ParseName
    PROVE  TreeInv'
<1> DEFINE o == Skip(StringEnd(offset) + 1)
<1>1. stand = "name" /\ Parsing
  BY DEF ParseName, Parsing
<1>2. ContentInv /\ offset \in Nat /\ offset < Length /\ Length \in Nat
  BY <1>1, Standing
<1>3. CASE StringFails(offset)
  BY <1>3, StringFailsTree
<1>4. CASE /\ IsString(offset) /\ strings' = strings \cup {offset}
           /\ nodes' = [nodes EXCEPT ![Item].name = offset]
           /\ IF At(o) = Colon
              THEN offset' = Skip(o + 1) /\ stand' = "value" /\ UNCHANGED <<content, depth, stack, whole>>
              ELSE Fails(o)
  <2> DEFINE i == Item
  <2>1. /\ HeapInv(nodes, stack) /\ strings = StringsIn(nodes)
        /\ i \in DOMAIN nodes /\ nodes[i].type = "invalid" /\ nodes[i].name = None
        /\ \A j \in DOMAIN nodes : j <= i
        /\ \A k \in 1..Len(stack) : stack[k].item < i
        /\ 0 \in DOMAIN nodes /\ \A j \in DOMAIN nodes : j <= offset
        /\ \A s \in strings : s < offset
    BY <1>1 DEF TreeInv, NewestInv, BehindInv
  <2>2. stack' = stack /\ nodes' = Named(nodes, i, offset)
    BY <1>4 DEF Fails, Named
  <2>3. Item' = i
    BY <2>2 DEF Item, Top
  <2> HIDE DEF i
  <2>4. offset \in Int /\ offset # None /\ offset \notin StringsIn(nodes)
    BY <1>2, <2>1 DEF None
  <2>5. /\ HeapInv(nodes', stack') /\ DOMAIN nodes' = DOMAIN nodes /\ nodes'[i].type = "invalid"
        /\ StringsIn(nodes') = strings \cup {offset}
    BY <2>1, <2>2, <2>4, NamedHeap
  <2>6. CASE At(o) = Colon /\ offset' = Skip(o + 1) /\ stand' = "value"
    <3>1. StringEnd(offset) \in offset + 1..Length - 1 /\ StringEnd(offset) + 1 < Length /\ StringEnd(offset) \in Nat
      BY <1>2, <1>4, StringEndStays DEF IsString
    <3>2. o \in StringEnd(offset) + 1..Length - 1
      BY <3>1, <1>2, SkipStays
    <3>3. o \in Nat /\ o < Length /\ offset < o
      <4> HIDE DEF o
      <4> QED
        BY <3>1, <3>2, <1>2
    <3> HIDE DEF o
    <3>4. o + 1 \in Nat /\ o + 1 < Length
      <4>1. At(o) # 0
        BY <2>6 DEF Colon
      <4> QED
        BY <4>1, <1>2, <3>3, NotAtTheEnd
    <3>5. Skip(o + 1) \in o + 1..Length - 1
      BY <3>4, <1>2, SkipStays
    <3>6. offset' \in Nat /\ offset < offset'
      BY <3>3, <3>5, <1>2, <2>6
    <3>7. \A j \in DOMAIN nodes' : j <= offset'
      <4>1. \A j \in DOMAIN nodes : j \in Nat
        BY <2>1, NodeFields DEF HeapInv
      <4> QED
        BY <4>1, <2>1, <2>5, <3>6, <1>2
    <3>8. \A s \in strings' : s < offset'
      <4>1. \A s \in strings : s \in Int /\ s < offset
        BY <2>1, HeapStrings
      <4>2. \A s \in strings' : s \in strings \/ s = offset
        BY <1>4
      <4> QED
        BY <4>1, <4>2, <3>6, <1>2
    <3>9. NewestInv'
      BY <2>1, <2>2, <2>3, <2>5, <2>6 DEF NewestInv
    <3>10. BehindInv' /\ EdgeInv'
      BY <2>1, <2>5, <2>6, <3>7, <3>8 DEF BehindInv, EdgeInv
    <3> QED
      BY <1>4, <2>5, <3>9, <3>10 DEF TreeInv
  <2>7. CASE stand' = "fail"
    BY <1>4, <2>5, <2>7, FailingTree
  <2> QED
    BY <1>4, <2>6, <2>7 DEF Fails
<1> QED
  BY <1>3, <1>4 DEF ParseName

LEMMA AfterTree ==
    ASSUME ParseInv, TreeInv, ParseAfter
    PROVE  TreeInv'
<1> DEFINE o == Skip(offset)
<1>1. stand = "after" /\ Parsing /\ stack # <<>>
  BY DEF ParseAfter, Parsing
<1>2. ContentInv /\ offset \in Nat /\ offset < Length /\ Length \in Nat
  BY <1>1, Standing
<1>3. o \in Nat /\ offset <= o
  <2>1. o \in offset..Length - 1
    BY <1>2, SkipStays
  <2> QED
    BY <2>1, <1>2
<1> HIDE DEF o
<1>4. /\ HeapInv(nodes, stack) /\ strings = StringsIn(nodes)
      /\ 0 \in DOMAIN nodes /\ \A j \in DOMAIN nodes : j <= offset
      /\ \A s \in strings : s < offset
  BY <1>1 DEF TreeInv, BehindInv
<1>5. ASSUME NEW p \in Nat, o <= p
      PROVE  (\A j \in DOMAIN nodes : j <= p) /\ \A s \in strings : s < p
  <2>1. \A j \in DOMAIN nodes : j \in Nat
    BY <1>4, NodeFields DEF HeapInv
  <2>2. \A s \in strings : s \in Int
    BY <1>4, HeapStrings
  <2> QED
    BY <2>1, <2>2, <1>2, <1>3, <1>4, <1>5
<1>6. CASE \E q : Fails(q) /\ UNCHANGED <<nodes, strings, starved>>
  BY <1>6, FailsTree
<1>7. CASE offset' = o /\ stand' = "element" /\ stack' = stack /\ nodes' = nodes /\ strings' = strings
  BY <1>3, <1>4, <1>5, <1>7 DEF TreeInv, NewestInv, BehindInv, EdgeInv
<1>8. CASE /\ nodes' = [nodes EXCEPT ![Top.item].type = Top.kind, ![Top.item].kids = Top.elements]
           /\ stack' = SubSeq(stack, 1, Len(stack) - 1)
           /\ offset' = o + 1 /\ stand' = stand /\ strings' = strings
  <2>1. nodes' = Filled(nodes, stack[Len(stack)])
    BY <1>8 DEF Filled, Top
  <2>2. HeapInv(nodes', stack') /\ DOMAIN nodes' = DOMAIN nodes /\ StringsIn(nodes') = StringsIn(nodes)
    BY <1>1, <1>4, <1>8, <2>1, ClosedHeap
  <2>3. o + 1 \in Nat /\ o <= o + 1
    BY <1>3
  <2>4. (\A j \in DOMAIN nodes : j <= o + 1) /\ \A s \in strings : s < o + 1
    BY <2>3, <1>5
  <2> QED
    BY <1>1, <1>4, <1>8, <2>2, <2>4 DEF TreeInv, NewestInv, BehindInv, EdgeInv
<1> QED
  BY <1>6, <1>7, <1>8 DEF ParseAfter, o

LEMMA EndsTree ==
    ASSUME TreeInv, ParseEnds
    PROVE  TreeInv'
<1>1. stand = "after" /\ stack = <<>> /\ nodes' = nodes /\ strings' = strings
  BY DEF ParseEnds
<1>2. CASE \E o : Fails(o)
  BY <1>1, <1>2, FailsTree
<1>3. CASE stand' = "parsed" /\ stack' = stack
  BY <1>1, <1>3 DEF TreeInv, NewestInv, BehindInv, EdgeInv
<1> QED
  BY <1>2, <1>3 DEF ParseEnds

\* The strings of the items that are deleted go with them.
LEMMA UnwindsTree ==
    ASSUME TreeInv, ParseUnwinds
    PROVE  TreeInv'
<1> DEFINE i == stack[Len(stack)].item
           D == {j \in DOMAIN nodes : j > i}
           M == [j \in DOMAIN nodes \ D |-> nodes[j]]
<1>1. HeapInv(nodes, stack) /\ strings = StringsIn(nodes) /\ Unshared(nodes) /\ stack # <<>>
  BY DEF TreeInv, HeapInv, ParseUnwinds
<1>2. Below(Elements(Top)) = D
  BY <1>1, BelowElements
<1>3. Delete(D) /\ nodes' = M /\ stack' = SubSeq(stack, 1, Len(stack) - 1) /\ stand' = "fail"
  BY <1>2 DEF ParseUnwinds, Delete
<1>4. HeapInv(M, SubSeq(stack, 1, Len(stack) - 1)) /\ \A j \in DOMAIN M : StringsAt(M, j) = StringsAt(nodes, j)
  BY <1>1, AbandonedHeap
<1>5. DOMAIN M = DOMAIN nodes \ D /\ D \subseteq DOMAIN nodes
  OBVIOUS
<1> HIDE DEF D, M
<1>6. strings' = StringsIn(nodes')
  BY <1>1, <1>3, <1>4, <1>5, DeletedStrings
<1> QED
  BY <1>3, <1>4, <1>6, FailingTree

LEMMA ParseFailsTree ==
    ASSUME TreeInv, ParseFails
    PROVE  TreeInv'
<1>1. HeapInv(nodes, stack) /\ strings = StringsIn(nodes) /\ Unshared(nodes) /\ stack = <<>>
  BY DEF TreeInv, HeapInv, ParseFails
<1>2. Delete(DOMAIN nodes) /\ stack' = <<>> /\ stand' = "failed"
  BY <1>1, BelowRoot DEF ParseFails
<1>3. strings' = StringsIn(nodes') /\ DOMAIN nodes' = {}
  <2>1. DOMAIN nodes \in SUBSET DOMAIN nodes /\ DOMAIN nodes \ DOMAIN nodes = {}
    OBVIOUS
  <2> QED
    BY <1>1, <1>2, <2>1, DeletedStrings
<1>4. HeapTyped(nodes', stack')
  <2>1. nodes' \in [DOMAIN nodes' -> Node]
    BY <1>2, <1>3 DEF Delete
  <2>2. <<>> \in Seq(Frame) /\ 0 \in Nat /\ {} \subseteq 0..0
    OBVIOUS
  <2> QED
    BY <1>2, <1>3, <2>1, <2>2 DEF HeapTyped
<1>5. HeapInv(nodes', stack')
  <2>1. 1..Len(<<>>) = {}
    OBVIOUS
  <2> QED
    BY <2>1, <1>2, <1>3, <1>4 DEF HeapInv, KidsLater, Opened, Separate, Parented, Unshared
<1> QED
  BY <1>2, <1>3, <1>5 DEF TreeInv, NewestInv, BehindInv, EdgeInv

LEMMA TreeNext ==
    ASSUME ParseInv, TreeInv, [ParseNext]_parseVars
    PROVE  TreeInv'
<1>1. CASE UNCHANGED parseVars
  BY <1>1 DEF parseVars, TreeInv, NewestInv, BehindInv, EdgeInv, Item, Top
<1>2. CASE \E kind \in Kinds : ParseOpens(kind)
  BY <1>2, OpensTree
<1>3. CASE ParseLiteral \/ ParseNumber \/ ParseString \/ ParseValueFails
  BY <1>3, ValueTree
<1>4. CASE ParseStarts \/ ParseElement \/ ParseName \/ ParseAfter
  BY <1>4, StartsTree, ElementTree, NameTree, AfterTree
<1>5. CASE ParseEnds \/ ParseUnwinds \/ ParseFails
  BY <1>5, EndsTree, UnwindsTree, ParseFailsTree
<1> QED
  BY <1>1, <1>2, <1>3, <1>4, <1>5 DEF ParseNext, Kinds

\* When parsing has failed, at whatever byte and whichever allocation, every
\* item and every string is freed again; when it has succeeded, what is
\* allocated is the tree of the root with the strings in it (cJSON.c:224-245,
\* 708-834, 973-1087, 1382-1613).
THEOREM ParsingKeepsNothing == ParseSpec => []ParseKeepsNothing
<1>1. ParseInit => ParseInv /\ TreeInv
  BY ParseInitInv, TreeInit
<1>2. ParseInv /\ TreeInv /\ [ParseNext]_parseVars => ParseInv' /\ TreeInv'
  BY ParseNextInv, TreeNext
<1>3. ParseInv /\ TreeInv => ParseKeepsNothing
  <2> SUFFICES ASSUME TreeInv PROVE ParseKeepsNothing
    OBVIOUS
  <2>1. HeapInv(nodes, stack) /\ strings = StringsIn(nodes)
    BY DEF TreeInv
  <2>2. CASE stand = "failed"
    <3>1. DOMAIN nodes = {}
      BY <2>2 DEF TreeInv, EdgeInv
    <3> QED
      BY <2>1, <2>2, <3>1 DEF StringsIn, ParseKeepsNothing
  <2>3. CASE stand = "parsed"
    <3>1. 0 \in DOMAIN nodes /\ stack = <<>>
      BY <2>3 DEF TreeInv, EdgeInv
    <3>2. DOMAIN nodes \cap {0} = {0}
      BY <3>1
    <3>3. DOMAIN nodes = Below({0})
      BY <2>1, <3>1, <3>2, BelowRoot
    <3>4. strings = StringsOf(DOMAIN nodes)
      BY <2>1, StringsOfItems DEF StringsIn
    <3> HIDE DEF Below
    <3> QED
      BY <2>3, <3>3, <3>4 DEF ParseKeepsNothing
  <2> QED
    BY <2>2, <2>3 DEF ParseKeepsNothing
<1> QED
  BY <1>1, <1>2, <1>3, PTL DEF ParseSpec

-----------------------------------------------------------------------------
(***************************************************************************)
(* What a string needs.                                                    *)
(*                                                                         *)
(* Decode and Allocated run from the front of a string to its end e, each  *)
(* in its own steps.  What they compute is a function on the offsets that  *)
(* is the one on the offsets behind, continued; and for all of them the    *)
(* bytes that are written and the escapes that are counted are no more     *)
(* than the bytes that are left, and one.                                  *)
(***************************************************************************)

\* What Decode and Allocated say of an offset, when f and g are what they say
\* of the ones behind it.
Decoded(f, i, e) ==
    IF i >= e THEN [bytes |-> <<>>, stop |-> i]
    ELSE IF At(i) # Backslash
    THEN Prefixed(<<At(i)>>, f[i + 1])
    ELSE IF \E n \in DOMAIN Escapes : Escapes[n] = At(i + 1)
    THEN Prefixed(<<Escaped[CHOOSE n \in DOMAIN Escapes : Escapes[n] = At(i + 1)]>>, f[i + 2])
    ELSE IF At(i + 1) = 117 /\ SequenceLength(i, e) > 0
    THEN Prefixed(Utf8(CodePoint(i, e)), f[i + SequenceLength(i, e)])
    ELSE [bytes |-> <<>>, stop |-> i]

Counted(g, i, e) ==
    IF i >= e THEN 0 ELSE IF At(i) = Backslash THEN 1 + g[i + 2] ELSE g[i + 1]

LEMMA SequenceInside ==
    ASSUME NEW e \in Nat, NEW i \in Nat, SequenceLength(i, e) > 0
    PROVE  (SequenceLength(i, e) = 6 /\ e - i >= 6) \/ (SequenceLength(i, e) = 12 /\ e - i >= 12)
<1> DEFINE l == SequenceLength(i, e)
<1>1. \/ l = 0
      \/ l = 6 /\ ~(e - i < 6)
      \/ l = 12 /\ e - i >= 12
  BY Zenon DEF SequenceLength
<1>2. l > 0
  OBVIOUS
<1> HIDE DEF l
<1>3. l # 0
  BY <1>2
<1>4. ~(e - i < 6) => e - i >= 6
  OBVIOUS
<1>5. (l = 6 /\ e - i >= 6) \/ (l = 12 /\ e - i >= 12)
  BY <1>1, <1>3, <1>4, Zenon
<1> QED
  BY <1>5 DEF l

LEMMA DecodedLater ==
    ASSUME NEW e \in Nat, NEW i \in Nat, NEW f, NEW g, \A j \in i + 1..e + 1 : f[j] = g[j]
    PROVE  Decoded(f, i, e) = Decoded(g, i, e)
<1>1. CASE i >= e
  BY <1>1 DEF Decoded
<1>2. CASE ~(i >= e)
  <2>1. f[i + 1] = g[i + 1] /\ f[i + 2] = g[i + 2]
    <3>1. i + 1 \in i + 1..e + 1 /\ i + 2 \in i + 1..e + 1
      BY <1>2
    <3> QED
      BY <3>1
  <2>2. SequenceLength(i, e) > 0 => f[i + SequenceLength(i, e)] = g[i + SequenceLength(i, e)]
    <3> SUFFICES ASSUME SequenceLength(i, e) > 0 PROVE f[i + SequenceLength(i, e)] = g[i + SequenceLength(i, e)]
      OBVIOUS
    <3> DEFINE l == SequenceLength(i, e)
    <3>1. (l = 6 /\ e - i >= 6) \/ (l = 12 /\ e - i >= 12)
      BY SequenceInside
    <3> HIDE DEF l
    <3>2. i + l \in i + 1..e + 1
      BY <3>1
    <3> QED
      BY <3>2 DEF l
  <2> QED
    BY <2>1, <2>2 DEF Decoded
<1> QED
  BY <1>1, <1>2

LEMMA CountedLater ==
    ASSUME NEW e \in Nat, NEW i \in Nat, NEW f, NEW g, \A j \in i + 1..e + 1 : f[j] = g[j]
    PROVE  Counted(f, i, e) = Counted(g, i, e)
<1>1. ~(i >= e) => i + 1 \in i + 1..e + 1 /\ i + 2 \in i + 1..e + 1
  OBVIOUS
<1> QED
  BY <1>1 DEF Counted

\* There is what Decode says.
LEMMA DecodeUnfolds ==
    ASSUME NEW a \in Nat, NEW e \in Nat, a <= e
    PROVE  \E f : DOMAIN f = a..e + 1 /\ Decode(a, e) = f[a] /\ \A i \in a..e + 1 : f[i] = Decoded(f, i, e)
<1> DEFINE Is(f, n) == f = [i \in n..e + 1 |-> Decoded(f, i, e)]
           from == CHOOSE f : Is(f, a)
           Bad == {n \in a..e + 1 : ~\E f : Is(f, n)}
<1>1. Decode(a, e) = from[a]
  BY DEF Decode, Decoded
<1>2. Bad = {}
  <2> SUFFICES ASSUME Bad # {} PROVE FALSE
    OBVIOUS
  <2>1. Bad \subseteq 0..e + 1 /\ e + 1 \in Nat
    OBVIOUS
  <2>2. PICK n \in Bad : \A m \in Bad : m <= n
    <3> HIDE DEF Bad
    <3> QED
      BY <2>1, Greatest
  <2>3. n \in a..e + 1 /\ n \in Nat /\ ~\E f : Is(f, n)
    OBVIOUS
  <2>4. \E f : \A i \in n + 1..e + 1 : f[i] = Decoded(f, i, e)
    <3>1. CASE n = e + 1
      <4>1. n + 1..e + 1 = {}
        BY <3>1
      <4> QED
        BY <4>1
    <3>2. CASE n # e + 1
      <4>1. n + 1 \in a..e + 1 /\ ~(n + 1 <= n)
        BY <3>2, <2>3
      <4>2. n + 1 \notin Bad
        <5> HIDE DEF Bad
        <5> QED
          BY <4>1, <2>2
      <4>3. PICK f : Is(f, n + 1)
        BY <4>1, <4>2
      <4>4. \A i \in n + 1..e + 1 : f[i] = Decoded(f, i, e)
        BY <4>3
      <4> QED
        BY <4>4
    <3> QED
      BY <3>1, <3>2
  <2>5. PICK f : \A i \in n + 1..e + 1 : f[i] = Decoded(f, i, e)
    BY <2>4
  <2> DEFINE g == [i \in n..e + 1 |-> IF i = n THEN Decoded(f, n, e) ELSE f[i]]
  <2>6. \A i \in n + 1..e + 1 : g[i] = f[i]
    BY <2>3
  <2>7. ASSUME NEW i \in n..e + 1 PROVE g[i] = Decoded(g, i, e)
    <3>1. i \in Nat /\ \A j \in i + 1..e + 1 : j \in n + 1..e + 1
      BY <2>3
    <3>2. Decoded(g, i, e) = Decoded(f, i, e)
      <4> HIDE DEF g
      <4>1. \A j \in i + 1..e + 1 : g[j] = f[j]
        BY <3>1, <2>6
      <4> QED
        BY <4>1, <3>1, DecodedLater
    <3>3. g[i] = Decoded(f, i, e)
      <4>1. i = n \/ i \in n + 1..e + 1
        BY <2>3
      <4> QED
        BY <4>1, <2>5
    <3> QED
      BY <3>2, <3>3
  <2>8. Is(g, n)
    <3>1. g = [i \in n..e + 1 |-> g[i]]
      OBVIOUS
    <3> HIDE DEF g
    <3> QED
      BY <3>1, <2>7
  <2> HIDE DEF g, Is
  <2> QED
    BY <2>3, <2>8
<1>3. Is(from, a)
  <2>1. a \in a..e + 1
    OBVIOUS
  <2>2. \E f : Is(f, a)
    <3> HIDE DEF Is
    <3> QED
      BY <1>2, <2>1
  <2> HIDE DEF Is
  <2> QED
    BY <2>2
<1> HIDE DEF from
<1> QED
  BY <1>1, <1>3

\* And what Allocated counts.
LEMMA AllocatedUnfolds ==
    ASSUME NEW q \in Nat, NEW e \in Nat, e = StringEnd(q), q < e
    PROVE  \E g : Allocated(q) = e - q - g[q + 1] + 1 /\ \A i \in q + 1..e + 1 : g[i] = Counted(g, i, e)
<1> DEFINE Is(f, n) == f = [i \in n..e + 1 |-> Counted(f, i, e)]
           escapes == CHOOSE f : Is(f, q + 1)
           Bad == {n \in q + 1..e + 1 : ~\E f : Is(f, n)}
<1>1. Allocated(q) = e - q - escapes[q + 1] + 1
  BY DEF Allocated, Counted
<1>2. Bad = {}
  <2> SUFFICES ASSUME Bad # {} PROVE FALSE
    OBVIOUS
  <2>1. Bad \subseteq 0..e + 1 /\ e + 1 \in Nat
    OBVIOUS
  <2>2. PICK n \in Bad : \A m \in Bad : m <= n
    <3> HIDE DEF Bad
    <3> QED
      BY <2>1, Greatest
  <2>3. n \in q + 1..e + 1 /\ n \in Nat /\ ~\E f : Is(f, n)
    OBVIOUS
  <2>4. \E f : \A i \in n + 1..e + 1 : f[i] = Counted(f, i, e)
    <3>1. CASE n = e + 1
      <4>1. n + 1..e + 1 = {}
        BY <3>1
      <4> QED
        BY <4>1
    <3>2. CASE n # e + 1
      <4>1. n + 1 \in q + 1..e + 1 /\ ~(n + 1 <= n)
        BY <3>2, <2>3
      <4>2. n + 1 \notin Bad
        <5> HIDE DEF Bad
        <5> QED
          BY <4>1, <2>2
      <4>3. PICK f : Is(f, n + 1)
        BY <4>1, <4>2
      <4>4. \A i \in n + 1..e + 1 : f[i] = Counted(f, i, e)
        BY <4>3
      <4> QED
        BY <4>4
    <3> QED
      BY <3>1, <3>2
  <2>5. PICK f : \A i \in n + 1..e + 1 : f[i] = Counted(f, i, e)
    BY <2>4
  <2> DEFINE g == [i \in n..e + 1 |-> IF i = n THEN Counted(f, n, e) ELSE f[i]]
  <2>6. \A i \in n + 1..e + 1 : g[i] = f[i]
    BY <2>3
  <2>7. ASSUME NEW i \in n..e + 1 PROVE g[i] = Counted(g, i, e)
    <3>1. i \in Nat /\ \A j \in i + 1..e + 1 : j \in n + 1..e + 1
      BY <2>3
    <3>2. Counted(g, i, e) = Counted(f, i, e)
      <4> HIDE DEF g
      <4>1. \A j \in i + 1..e + 1 : g[j] = f[j]
        BY <3>1, <2>6
      <4> QED
        BY <4>1, <3>1, CountedLater
    <3>3. g[i] = Counted(f, i, e)
      <4>1. i = n \/ i \in n + 1..e + 1
        BY <2>3
      <4> QED
        BY <4>1, <2>5
    <3> QED
      BY <3>2, <3>3
  <2>8. Is(g, n)
    <3>1. g = [i \in n..e + 1 |-> g[i]]
      OBVIOUS
    <3> HIDE DEF g
    <3> QED
      BY <3>1, <2>7
  <2> HIDE DEF g, Is
  <2> QED
    BY <2>3, <2>8
<1>3. Is(escapes, q + 1)
  <2>1. q + 1 \in q + 1..e + 1
    OBVIOUS
  <2>2. \E f : Is(f, q + 1)
    <3> HIDE DEF Is
    <3> QED
      BY <1>2, <2>1
  <2> HIDE DEF Is
  <2> QED
    BY <2>2
<1> HIDE DEF escapes
<1> QED
  BY <1>1, <1>3

\* One offset further, or two, there is no more than one escape less.
LEMMA EscapesShrink ==
    ASSUME NEW q \in Nat, NEW e \in Nat, q < e, NEW g, \A i \in q + 1..e + 1 : g[i] = Counted(g, i, e)
    PROVE  \A i \in q + 1..e + 1 :
              /\ g[i] \in Nat /\ g[i] <= e + 1 - i
              /\ i <= e => g[i] <= 1 + g[i + 1]
              /\ i < e => g[i] <= 1 + g[i + 2]
<1> DEFINE Fine(i) == /\ g[i] \in Nat /\ g[i] <= e + 1 - i
                      /\ i <= e => g[i] <= 1 + g[i + 1]
                      /\ i < e => g[i] <= 1 + g[i + 2]
           Bad == {i \in q + 1..e + 1 : ~Fine(i)}
<1> SUFFICES ASSUME Bad # {} PROVE FALSE
  OBVIOUS
<1>1. Bad \subseteq 0..e + 1 /\ e + 1 \in Nat
  OBVIOUS
<1>2. PICK i \in Bad : \A m \in Bad : m <= i
  <2> HIDE DEF Bad
  <2> QED
    BY <1>1, Greatest
<1>3. i \in q + 1..e + 1 /\ i \in Nat /\ ~Fine(i) /\ g[i] = Counted(g, i, e)
  OBVIOUS
<1>4. \A j \in i + 1..e + 1 : Fine(j)
  <2> SUFFICES ASSUME NEW j \in i + 1..e + 1 PROVE Fine(j)
    OBVIOUS
  <2>1. j \in q + 1..e + 1 /\ ~(j <= i)
    BY <1>3
  <2>2. j \notin Bad
    <3> HIDE DEF Bad
    <3> QED
      BY <2>1, <1>2
  <2> QED
    BY <2>1, <2>2
<1> HIDE DEF Fine, Bad
<1>5. CASE i = e + 1
  <2>1. g[i] = 0
    BY <1>3, <1>5 DEF Counted
  <2> QED
    BY <2>1, <1>3, <1>5 DEF Fine
<1>6. CASE i = e
  <2>1. g[e] = 0 /\ e + 1 \in i + 1..e + 1
    BY <1>3, <1>6 DEF Counted
  <2>2. g[e + 1] \in Nat
    BY <2>1, <1>4 DEF Fine
  <2> QED
    BY <2>1, <2>2, <1>3, <1>6 DEF Fine
<1>7. CASE i < e
  <2>1. i + 1 \in i + 1..e + 1 /\ i + 2 \in i + 1..e + 1 /\ i + 1 <= e /\ (i + 1) + 1 = i + 2
    BY <1>3, <1>7
  <2>2. /\ g[i + 1] \in Nat /\ g[i + 2] \in Nat
        /\ g[i + 1] <= e + 1 - (i + 1) /\ g[i + 2] <= e + 1 - (i + 2)
        /\ g[i + 1] <= 1 + g[i + 2]
    BY <2>1, <1>4 DEF Fine
  <2>3. CASE At(i) = Backslash
    <3>1. g[i] = 1 + g[i + 2]
      BY <1>3, <1>7, <2>3 DEF Counted
    <3>2. i + 1 \in q + 1..e + 1 /\ i + 2 \in q + 1..e + 1
      BY <1>3, <1>7
    <3>3. g[i + 2] <= g[i + 1]
      <4>1. CASE i + 1 = e
        <5>1. g[i + 2] = 0
          BY <4>1, <3>2, <1>3 DEF Counted
        <5> QED
          BY <5>1, <2>2
      <4>2. CASE i + 1 # e
        <5>1. i + 2 <= e /\ ~(i + 1 >= e) /\ (i + 1) + 2 = (i + 2) + 1 /\ (i + 1) + 1 = i + 2
          BY <4>2, <1>3, <1>7
        <5>2. g[i + 2] <= 1 + g[(i + 2) + 1]
          BY <5>1, <2>1, <1>4 DEF Fine
        <5>3. g[i + 1] = IF At(i + 1) = Backslash THEN 1 + g[(i + 2) + 1] ELSE g[i + 2]
          BY <5>1, <3>2 DEF Counted
        <5> QED
          BY <5>2, <5>3, <2>2
      <4> QED
        BY <4>1, <4>2
    <3> QED
      BY <3>1, <3>3, <2>2, <1>3, <1>7 DEF Fine
  <2>4. CASE At(i) # Backslash
    <3>1. g[i] = g[i + 1]
      BY <1>3, <1>7, <2>4 DEF Counted
    <3> QED
      BY <3>1, <2>2, <1>3, <1>7 DEF Fine
  <2> QED
    BY <2>3, <2>4
<1> QED
  BY <1>3, <1>5, <1>6, <1>7 DEF Fine

-----------------------------------------------------------------------------
(* The bytes *)

\* Text is made of bytes, and a code point of at most four of them.
LEMMA ByteAt ==
    ASSUME ContentInv, NEW o \in Nat, o < Length
    PROVE  At(o) \in 0..255
<1>1. o + 1 \in 1..Length /\ content \in Seq(0..255)
  BY DEF ContentInv
<1> QED
  BY <1>1, ElementOfSeq DEF At, Length

LEMMA FourDigits ==
    ASSUME NEW a \in Int, NEW b \in Int, NEW c \in Int, NEW d \in Int,
           0 <= a, a <= 15, 0 <= b, b <= 15, 0 <= c, c <= 15, 0 <= d, d <= 15
    PROVE  4096 * a + 256 * b + 16 * c + d < 65536
  OBVIOUS

LEMMA HexFour ==
    ASSUME ContentInv, NEW o \in Nat, o + 3 < Length
    PROVE  parse_hex4(o) < 65536
<1>1. At(o) \in 0..255 /\ At(o + 1) \in 0..255 /\ At(o + 2) \in 0..255 /\ At(o + 3) \in 0..255
  <2>1. Length \in Nat
    BY DEF ContentInv
  <2>2. /\ o + 1 \in Nat /\ o + 2 \in Nat /\ o + 3 \in Nat
        /\ o < Length /\ o + 1 < Length /\ o + 2 < Length
    BY <2>1
  <2> QED
    BY <2>2, ByteAt
<1>2. \A b \in 0..255 : Hex(b) \in 0..16
  BY DEF Hex, Digits
<1> DEFINE a == Hex(At(o))
           b == Hex(At(o + 1))
           c == Hex(At(o + 2))
           d == Hex(At(o + 3))
<1>3. a \in 0..16 /\ b \in 0..16 /\ c \in 0..16 /\ d \in 0..16
  BY <1>1, <1>2
<1>4. parse_hex4(o) = IF \A i \in o..o + 3 : Hex(At(i)) < 16 THEN 4096 * a + 256 * b + 16 * c + d ELSE 0
  BY DEF parse_hex4
<1>5. CASE \A i \in o..o + 3 : Hex(At(i)) < 16
  <2>1. o \in o..o + 3 /\ o + 1 \in o..o + 3 /\ o + 2 \in o..o + 3 /\ o + 3 \in o..o + 3
    OBVIOUS
  <2>2. a < 16 /\ b < 16 /\ c < 16 /\ d < 16
    BY <1>5, <2>1
  <2>3. parse_hex4(o) = 4096 * a + 256 * b + 16 * c + d
    BY <1>4, <1>5
  <2> HIDE DEF a, b, c, d
  <2>4. /\ a \in Int /\ 0 <= a /\ a <= 15 /\ b \in Int /\ 0 <= b /\ b <= 15
        /\ c \in Int /\ 0 <= c /\ c <= 15 /\ d \in Int /\ 0 <= d /\ d <= 15
    BY <1>3, <2>2
  <2>5. 4096 * a + 256 * b + 16 * c + d < 65536
    BY <2>4, FourDigits
  <2> QED
    BY <2>3, <2>5
<1>6. CASE ~\A i \in o..o + 3 : Hex(At(i)) < 16
  <2>1. parse_hex4(o) = 0
    BY <1>4, <1>6, SMT
  <2> QED
    BY <2>1
<1> QED
  BY <1>5, <1>6

\* Words are sequences of anything.
IsWord(b) == \E S : b \in Seq(S)

LEMMA Joined ==
    ASSUME NEW b, IsWord(b), NEW c, IsWord(c)
    PROVE  IsWord(b \o c) /\ Len(b \o c) = Len(b) + Len(c) /\ Len(b) \in Nat /\ Len(c) \in Nat
<1>1. PICK S : b \in Seq(S)
  BY DEF IsWord
<1>2. PICK T : c \in Seq(T)
  BY DEF IsWord
<1>3. b \in Seq(S \cup T) /\ c \in Seq(S \cup T)
  <2>1. S \subseteq S \cup T /\ T \subseteq S \cup T
    OBVIOUS
  <2> QED
    BY <1>1, <1>2
<1>4. b \o c \in Seq(S \cup T) /\ Len(b \o c) = Len(b) + Len(c)
  BY <1>3, ConcatProperties
<1> QED
  BY <1>3, <1>4 DEF IsWord

LEMMA ShortWords ==
    ASSUME NEW w, NEW x, NEW y, NEW z
    PROVE  /\ IsWord(<<>>) /\ Len(<<>>) = 0 /\ IsWord(<<w>>) /\ Len(<<w>>) = 1
           /\ IsWord(<<w, x>>) /\ Len(<<w, x>>) = 2
           /\ IsWord(<<w, x, y>>) /\ Len(<<w, x, y>>) = 3
           /\ IsWord(<<w, x, y, z>>) /\ Len(<<w, x, y, z>>) = 4
<1> DEFINE S == {w, x, y, z}
<1>1. <<>> \in Seq(S) /\ <<w>> \in Seq(S) /\ <<w, x>> \in Seq(S) /\ <<w, x, y>> \in Seq(S) /\ <<w, x, y, z>> \in Seq(S)
  OBVIOUS
<1>2. Len(<<>>) = 0 /\ Len(<<w>>) = 1 /\ Len(<<w, x>>) = 2 /\ Len(<<w, x, y>>) = 3 /\ Len(<<w, x, y, z>>) = 4
  OBVIOUS
<1> QED
  BY <1>1, <1>2 DEF IsWord

LEMMA Utf8Bytes ==
    ASSUME NEW c
    PROVE  IsWord(Utf8(c)) /\ Len(Utf8(c)) \in 1..4 /\ (c < 65536 => Len(Utf8(c)) \in 1..3)
<1> DEFINE u == 192 + c \div 64
           v == 128 + ((c \div 64 ^ 0) % 64)
           w == 224 + c \div 4096
           x == 128 + ((c \div 64 ^ 1) % 64)
           y == 240 + c \div 262144
           z == 128 + ((c \div 64 ^ 2) % 64)
           below == c < 65536
<1>1. Utf8(c) = IF c < 128 THEN <<c>> ELSE IF c < 2048 THEN <<u, v>> ELSE IF below THEN <<w, x, v>> ELSE <<y, z, x, v>>
  BY DEF Utf8
<1> HIDE DEF u, v, w, x, y, z, below
<1>2. IsWord(<<c>>) /\ Len(<<c>>) = 1 /\ IsWord(<<u, v>>) /\ Len(<<u, v>>) = 2
  BY ShortWords
<1>3. IsWord(<<w, x, v>>) /\ Len(<<w, x, v>>) = 3 /\ IsWord(<<y, z, x, v>>) /\ Len(<<y, z, x, v>>) = 4
  BY ShortWords
<1>4. 1 \in 1..3 /\ 2 \in 1..3 /\ 3 \in 1..3 /\ 4 \in 1..4 /\ 1..3 \subseteq 1..4
  OBVIOUS
<1>5. CASE below
  <2>1. Utf8(c) = <<c>> \/ Utf8(c) = <<u, v>> \/ Utf8(c) = <<w, x, v>>
    BY <1>1, <1>5
  <2>2. IsWord(Utf8(c)) /\ Len(Utf8(c)) \in 1..3
    BY <1>2, <1>3, <1>4, <2>1
  <2> QED
    BY <2>2, <1>4
<1>6. CASE ~below
  <2>1. Utf8(c) = <<c>> \/ Utf8(c) = <<u, v>> \/ Utf8(c) = <<y, z, x, v>>
    BY <1>1, <1>6
  <2>2. IsWord(Utf8(c)) /\ Len(Utf8(c)) \in 1..4
    BY <1>2, <1>3, <1>4, <2>1
  <2>3. ~(c < 65536)
    BY <1>6 DEF below
  <2> QED
    BY <2>2, <2>3
<1> QED
  BY <1>5, <1>6

\* The bytes of a sequence are at most half as many as it has.
LEMMA SequenceBytes ==
    ASSUME ContentInv, NEW e \in Nat, e < Length, NEW i \in Nat, SequenceLength(i, e) > 0
    PROVE  LET l == SequenceLength(i, e)
               b == Utf8(CodePoint(i, e))
           IN  /\ IsWord(b) /\ Len(b) \in Nat
               /\ (l = 6 /\ i + 6 <= e /\ Len(b) <= 3) \/ (l = 12 /\ i + 12 <= e /\ Len(b) <= 4)
<1> DEFINE l == SequenceLength(i, e)
           b == Utf8(CodePoint(i, e))
<1>1. (l = 6 /\ e - i >= 6) \/ (l = 12 /\ e - i >= 12)
  BY SequenceInside
<1>2. Length \in Nat /\ e - i >= 6
  <2> HIDE DEF l
  <2> QED
    BY <1>1 DEF ContentInv
<1>3. parse_hex4(i + 2) < 65536
  <2>1. i + 2 \in Nat /\ (i + 2) + 3 < Length
    BY <1>2
  <2> QED
    BY <2>1, HexFour
<1>4. IsWord(b) /\ Len(b) \in 1..4
  BY Utf8Bytes
<1>5. CodePoint(i, e) < 65536 => Len(b) \in 1..3
  BY Utf8Bytes
<1>6. l = 6 => Len(b) \in 1..3
  <2> SUFFICES ASSUME l = 6 PROVE Len(b) \in 1..3
    OBVIOUS
  <2>1. CodePoint(i, e) = parse_hex4(i + 2)
    BY DEF CodePoint
  <2> HIDE DEF b, l
  <2> QED
    BY <2>1, <1>3, <1>5
<1> HIDE DEF b, l
<1>7. Len(b) \in Nat /\ (l = 6 => i + 6 <= e /\ Len(b) <= 3) /\ (l = 12 => i + 12 <= e /\ Len(b) <= 4)
  <2> DEFINE n == Len(b)
  <2>1. n \in 1..4 /\ (l = 6 => n \in 1..3)
    BY <1>4, <1>6
  <2> HIDE DEF n
  <2>2. n \in Nat /\ n <= 4 /\ (l = 6 => n <= 3)
    BY <2>1
  <2>3. Len(b) \in Nat /\ Len(b) <= 4 /\ (l = 6 => Len(b) <= 3)
    BY <2>2 DEF n
  <2>4. (l = 6 => i + 6 <= e) /\ (l = 12 => i + 12 <= e)
    BY <1>1
  <2> QED
    BY <2>3, <2>4
<1>8. /\ IsWord(b) /\ Len(b) \in Nat
      /\ (l = 6 /\ i + 6 <= e /\ Len(b) <= 3) \/ (l = 12 /\ i + 12 <= e /\ Len(b) <= 4)
  BY <1>1, <1>4, <1>7
<1> QED
  BY <1>8 DEF b, l

-----------------------------------------------------------------------------
(* The string *)

LEMMA PrefixedWord ==
    ASSUME NEW b, NEW w, NEW s
    PROVE  Prefixed(b, [bytes |-> w, stop |-> s]) = [bytes |-> b \o w, stop |-> s]
<1> DEFINE r == [bytes |-> w, stop |-> s]
           x == b \o w
<1>1. r.bytes = w
  OBVIOUS
<1>2. Prefixed(b, r) = [r EXCEPT !.bytes = x]
  BY <1>1, Zenon DEF Prefixed
<1>3. [r EXCEPT !.bytes = x] = [bytes |-> x, stop |-> s]
  <2> HIDE DEF x
  <2> QED
    OBVIOUS
<1> HIDE DEF r, x
<1> QED
  BY <1>2, <1>3 DEF r, x

\* What f says of an offset i fits, with the escapes g counts.
Shrinks(f, g, i, e) ==
    \E w, s : /\ f[i] = [bytes |-> w, stop |-> s] /\ IsWord(w)
              /\ Len(w) + g[i] <= e + 1 - i /\ s \in i..e + 1

LEMMA FitsFurther ==
    ASSUME NEW e \in Nat, NEW i \in Nat, NEW j \in Nat, i < j, NEW f, NEW g, g[i] \in Nat, g[j] \in Nat,
           Shrinks(f, g, j, e), NEW b, IsWord(b), f[i] = Prefixed(b, f[j]),
           Len(b) + g[i] + i <= g[j] + j
    PROVE  Shrinks(f, g, i, e)
<1>1. PICK w, s : /\ f[j] = [bytes |-> w, stop |-> s] /\ IsWord(w)
                  /\ Len(w) + g[j] <= e + 1 - j /\ s \in j..e + 1
  BY DEF Shrinks
<1>2. f[i] = [bytes |-> b \o w, stop |-> s]
  <2>1. f[i] = Prefixed(b, [bytes |-> w, stop |-> s])
    BY <1>1, Zenon
  <2>2. Prefixed(b, [bytes |-> w, stop |-> s]) = [bytes |-> b \o w, stop |-> s]
    BY PrefixedWord
  <2> QED
    BY <2>1, <2>2, Zenon
<1>3. IsWord(b \o w) /\ Len(b \o w) = Len(b) + Len(w) /\ Len(b) \in Nat /\ Len(w) \in Nat
  BY <1>1, Joined
<1>4. Len(b \o w) + g[i] <= e + 1 - i
  <2> DEFINE m == Len(b)
             n == Len(w)
             x == g[i]
             y == g[j]
  <2>1. m \in Nat /\ n \in Nat /\ x \in Nat /\ y \in Nat /\ m + x + i <= y + j /\ n + y <= e + 1 - j
    BY <1>1, <1>3
  <2> HIDE DEF m, n, x, y
  <2>2. (m + n) + x <= e + 1 - i
    BY <2>1
  <2> QED
    BY <2>2, <1>3 DEF m, n, x
<1>5. s \in i..e + 1
  BY <1>1
<1> QED
  BY <1>2, <1>3, <1>4, <1>5 DEF Shrinks

LEMMA FitsEverywhere ==
    ASSUME ContentInv, NEW q \in Nat, NEW e \in Nat, q < e, e < Length,
           NEW f, \A i \in q + 1..e + 1 : f[i] = Decoded(f, i, e),
           NEW g, \A i \in q + 1..e + 1 : g[i] = Counted(g, i, e)
    PROVE  \A i \in q + 1..e + 1 : Shrinks(f, g, i, e)
<1> DEFINE Bad == {i \in q + 1..e + 1 : ~Shrinks(f, g, i, e)}
<1> SUFFICES ASSUME Bad # {} PROVE FALSE
  OBVIOUS
<1>1. Bad \subseteq 0..e + 1 /\ e + 1 \in Nat
  OBVIOUS
<1>2. PICK i \in Bad : \A m \in Bad : m <= i
  <2> HIDE DEF Bad
  <2> QED
    BY <1>1, Greatest
<1>3. i \in q + 1..e + 1 /\ i \in Nat /\ ~Shrinks(f, g, i, e) /\ f[i] = Decoded(f, i, e) /\ g[i] = Counted(g, i, e)
  OBVIOUS
<1>4. \A j \in i + 1..e + 1 : Shrinks(f, g, j, e)
  <2> SUFFICES ASSUME NEW j \in i + 1..e + 1 PROVE Shrinks(f, g, j, e)
    OBVIOUS
  <2>1. j \in q + 1..e + 1 /\ ~(j <= i)
    BY <1>3
  <2>2. j \notin Bad
    <3> HIDE DEF Bad
    <3> QED
      BY <2>1, <1>2
  <2> QED
    BY <2>1, <2>2
<1> HIDE DEF Bad
<1>5. \A j \in q + 1..e + 1 :
          /\ g[j] \in Nat /\ g[j] <= e + 1 - j
          /\ j <= e => g[j] <= 1 + g[j + 1]
          /\ j < e => g[j] <= 1 + g[j + 2]
  BY EscapesShrink
\* The decoding stops at i.
<1>6. f[i] # [bytes |-> <<>>, stop |-> i]
  <2> SUFFICES ASSUME f[i] = [bytes |-> <<>>, stop |-> i] PROVE FALSE
    OBVIOUS
  <2>1. IsWord(<<>>) /\ Len(<<>>) = 0
    BY ShortWords
  <2>2. g[i] \in Nat /\ g[i] <= e + 1 - i /\ i \in i..e + 1
    BY <1>3, <1>5
  <2>3. 0 + g[i] <= e + 1 - i
    BY <2>2
  <2>4. Shrinks(f, g, i, e)
    BY <2>1, <2>2, <2>3 DEF Shrinks
  <2> QED
    BY <2>4, <1>3
\* It goes on at j, behind the bytes b.
<1>7. ASSUME NEW j \in Nat, i < j, j <= e + 1, NEW b, IsWord(b), f[i] = Prefixed(b, f[j]),
             Len(b) + g[i] + i <= g[j] + j
      PROVE  FALSE
  <2>1. j \in i + 1..e + 1 /\ j \in q + 1..e + 1
    BY <1>3, <1>7
  <2>2. Shrinks(f, g, j, e) /\ g[i] \in Nat /\ g[j] \in Nat
    BY <2>1, <1>3, <1>4, <1>5
  <2>3. Shrinks(f, g, i, e)
    BY <2>2, <1>3, <1>7, FitsFurther
  <2> QED
    BY <2>3, <1>3
<1>8. ~(i >= e)
  BY <1>3, <1>6 DEF Decoded
<1>9. i \in Nat /\ i < e /\ i + 1 \in q + 1..e + 1 /\ i + 2 \in q + 1..e + 1
  BY <1>3, <1>8
<1>10. At(i) = Backslash
  <2> SUFFICES ASSUME At(i) # Backslash PROVE FALSE
    OBVIOUS
  <2> DEFINE b == <<At(i)>>
  <2>1. IsWord(b) /\ Len(b) = 1
    BY ShortWords
  <2>2. f[i] = Prefixed(b, f[i + 1])
    BY <1>3, <1>8 DEF Decoded
  <2>3. g[i] = g[i + 1] /\ g[i] \in Nat
    BY <1>3, <1>5, <1>8 DEF Counted
  <2> HIDE DEF b
  <2>4. Len(b) + g[i] + i <= g[i + 1] + (i + 1) /\ i + 1 \in Nat /\ i < i + 1 /\ i + 1 <= e + 1
    BY <2>1, <2>3, <1>9
  <2> QED
    BY <2>1, <2>2, <2>4, <1>7
<1>11. g[i] = 1 + g[i + 2] /\ g[i + 2] \in Nat /\ g[i] \in Nat
  BY <1>3, <1>5, <1>8, <1>9, <1>10 DEF Counted
<1>12. ~\E n \in DOMAIN Escapes : Escapes[n] = At(i + 1)
  <2> SUFFICES ASSUME \E n \in DOMAIN Escapes : Escapes[n] = At(i + 1) PROVE FALSE
    OBVIOUS
  <2> DEFINE b == <<Escaped[CHOOSE n \in DOMAIN Escapes : Escapes[n] = At(i + 1)]>>
  <2>1. IsWord(b) /\ Len(b) = 1
    BY ShortWords
  <2>2. f[i] = Prefixed(b, f[i + 2])
    BY <1>3, <1>8, <1>10 DEF Decoded
  <2> HIDE DEF b
  <2>3. Len(b) + g[i] + i <= g[i + 2] + (i + 2) /\ i + 2 \in Nat /\ i < i + 2 /\ i + 2 <= e + 1
    BY <2>1, <1>9, <1>11
  <2> QED
    BY <2>1, <2>2, <2>3, <1>7
<1>13. SequenceLength(i, e) > 0 /\ f[i] = Prefixed(Utf8(CodePoint(i, e)), f[i + SequenceLength(i, e)])
  BY <1>3, <1>6, <1>8, <1>10, <1>12 DEF Decoded
<1> DEFINE l == SequenceLength(i, e)
           b == Utf8(CodePoint(i, e))
<1>14. /\ IsWord(b) /\ Len(b) \in Nat /\ f[i] = Prefixed(b, f[i + l])
       /\ (l = 6 /\ i + 6 <= e /\ Len(b) <= 3) \/ (l = 12 /\ i + 12 <= e /\ Len(b) <= 4)
  BY <1>9, <1>13, SequenceBytes
<1> HIDE DEF l, b
<1>15. ASSUME NEW k \in Nat, i <= k, k + 6 <= e PROVE g[k] <= 3 + g[k + 6] /\ g[k] \in Nat /\ g[k + 6] \in Nat
  <2>1. /\ k \in q + 1..e + 1 /\ k + 2 \in q + 1..e + 1 /\ k + 4 \in q + 1..e + 1 /\ k + 6 \in q + 1..e + 1
        /\ k < e /\ k + 2 < e /\ k + 4 < e /\ (k + 2) + 2 = k + 4 /\ (k + 4) + 2 = k + 6
    BY <1>3, <1>15
  <2>2. g[k] \in Nat /\ g[k] <= 1 + g[k + 2]
    BY <2>1, <1>5
  <2>3. g[k + 2] \in Nat /\ g[k + 2] <= 1 + g[k + 4]
    BY <2>1, <1>5
  <2>4. g[k + 4] \in Nat /\ g[k + 4] <= 1 + g[k + 6] /\ g[k + 6] \in Nat
    BY <2>1, <1>5
  <2> QED
    BY <2>2, <2>3, <2>4
<1>16. CASE l = 6 /\ i + 6 <= e /\ Len(b) <= 3
  <2>1. g[i] <= 3 + g[i + 6] /\ g[i] \in Nat /\ g[i + 6] \in Nat
    BY <1>9, <1>15, <1>16
  <2>2. Len(b) + g[i] + i <= g[i + 6] + (i + 6) /\ i + 6 \in Nat /\ i < i + 6 /\ i + 6 <= e + 1
    <3> DEFINE n == Len(b)
    <3>1. n \in Nat /\ n <= 3
      BY <1>14, <1>16
    <3> HIDE DEF n
    <3>2. n + g[i] + i <= g[i + 6] + (i + 6) /\ i + 6 \in Nat /\ i < i + 6 /\ i + 6 <= e + 1
      BY <3>1, <2>1, <1>9, <1>16
    <3> QED
      BY <3>2 DEF n
  <2>3. f[i] = Prefixed(b, f[i + 6])
    BY <1>14, <1>16
  <2> QED
    BY <2>2, <2>3, <1>14, <1>7
<1>17. CASE l = 12 /\ i + 12 <= e /\ Len(b) <= 4
  <2>1. i + 6 \in Nat /\ i <= i + 6 /\ i + 6 <= e /\ (i + 6) + 6 = i + 12 /\ (i + 6) + 6 <= e
    BY <1>9, <1>17
  <2>2. g[i] <= 3 + g[i + 6] /\ g[i] \in Nat /\ g[i + 6] \in Nat
    BY <1>9, <1>15, <2>1
  <2>3. g[i + 6] <= 3 + g[i + 12] /\ g[i + 12] \in Nat
    BY <1>15, <2>1
  <2>4. Len(b) + g[i] + i <= g[i + 12] + (i + 12) /\ i + 12 \in Nat /\ i < i + 12 /\ i + 12 <= e + 1
    <3> DEFINE n == Len(b)
    <3>1. n \in Nat /\ n <= 4
      BY <1>14, <1>17
    <3> HIDE DEF n
    <3>2. n + g[i] + i <= g[i + 12] + (i + 12) /\ i + 12 \in Nat /\ i < i + 12 /\ i + 12 <= e + 1
      <4> DEFINE x == g[i]
                 y == g[i + 6]
                 z == g[i + 12]
      <4>1. x \in Nat /\ y \in Nat /\ z \in Nat /\ x <= 3 + y /\ y <= 3 + z
        BY <2>2, <2>3
      <4> HIDE DEF x, y, z
      <4>2. x <= 6 + z
        BY <4>1
      <4>3. n + x + i <= z + (i + 12)
        BY <4>1, <4>2, <3>1, <1>9
      <4>4. i + 12 \in Nat /\ i < i + 12 /\ i + 12 <= e + 1
        BY <1>9, <1>17
      <4> QED
        BY <4>3, <4>4 DEF x, z
    <3> QED
      BY <3>2 DEF n
  <2>5. f[i] = Prefixed(b, f[i + 12])
    BY <1>14, <1>17
  <2> QED
    BY <2>4, <2>5, <1>14, <1>7
<1> QED
  BY <1>14, <1>16, <1>17

LEMMA StringFits ==
    ASSUME ContentInv, NEW q \in Nat, q < Length, StringEnd(q) < Length
    PROVE  /\ Len(StringAt(q).bytes) + 1 <= Allocated(q)
           /\ StringAt(q).stop \in q + 1..StringEnd(q) + 1
           /\ StringEnd(q) + 1 < Length
<1> DEFINE e == StringEnd(q)
<1>1. e \in Nat /\ q < e /\ e + 1 < Length /\ e < Length /\ q + 1 \in Nat /\ q + 1 <= e /\ q + 1 \in q + 1..e + 1
  <2>1. e \in q + 1..Length - 1 /\ e + 1 < Length /\ e \in Nat
    BY StringEndStays
  <2>2. Length \in Nat
    BY DEF ContentInv
  <2> HIDE DEF e
  <2>3. q < e /\ e < Length
    BY <2>1, <2>2
  <2> QED
    BY <2>1, <2>3
<1>2. StringAt(q) = Decode(q + 1, e)
  BY DEF StringAt
<1>3. PICK g : Allocated(q) = e - q - g[q + 1] + 1 /\ \A i \in q + 1..e + 1 : g[i] = Counted(g, i, e)
  <2>1. e = StringEnd(q)
    OBVIOUS
  <2> HIDE DEF e
  <2> QED
    BY <1>1, <2>1, AllocatedUnfolds
<1> HIDE DEF e
<1>4. PICK f : Decode(q + 1, e) = f[q + 1] /\ \A i \in q + 1..e + 1 : f[i] = Decoded(f, i, e)
  BY <1>1, DecodeUnfolds
<1>5. Shrinks(f, g, q + 1, e)
  BY <1>1, <1>3, <1>4, FitsEverywhere
<1>6. PICK w, s : /\ f[q + 1] = [bytes |-> w, stop |-> s] /\ IsWord(w)
                  /\ Len(w) + g[q + 1] <= e + 1 - (q + 1) /\ s \in q + 1..e + 1
  BY <1>5 DEF Shrinks
<1>7. StringAt(q).bytes = w /\ StringAt(q).stop = s
  BY <1>2, <1>4, <1>6
<1>8. Len(w) \in Nat /\ g[q + 1] \in Nat
  <2>1. Len(w) \in Nat
    BY <1>6, Joined
  <2>2. g[q + 1] \in Nat
    BY <1>1, <1>3, EscapesShrink
  <2> QED
    BY <2>1, <2>2
<1>9. Len(w) + 1 <= Allocated(q)
  <2> DEFINE n == Len(w)
             x == g[q + 1]
             a == Allocated(q)
  <2>1. n \in Nat /\ x \in Nat /\ n + x <= e + 1 - (q + 1) /\ a = e - q - x + 1
    BY <1>3, <1>6, <1>8
  <2> HIDE DEF n, x, a
  <2>2. n + 1 <= a
    BY <2>1, <1>1
  <2> QED
    BY <2>2 DEF n, a
<1> QED
  BY <1>1, <1>6, <1>7, <1>9 DEF e

\* Whatever stands between the quotes of a string, parse_string writes no
\* more bytes, the NUL among them, than it has allocated before it looked at
\* the escapes, and though it may take the quote at the end for an escaped
\* one it reads no further than the byte behind it (cJSON.c:708-834).
THEOREM StringsAlwaysFit == ParseSpec => []StringsFit
<1>1. ParseInit => ParseInv
  BY ParseInitInv
<1>2. ParseInv /\ [ParseNext]_parseVars => ParseInv'
  BY ParseNextInv
<1>3. ParseInv => StringsFit
  <2> SUFFICES ASSUME ParseInv, stand \in {"value", "name"}, StringEnd(offset) < Length
               PROVE  /\ Len(StringAt(offset).bytes) + 1 <= Allocated(offset)
                      /\ StringAt(offset).stop \in offset + 1..StringEnd(offset) + 1
                      /\ StringEnd(offset) + 1 < Length
    BY DEF StringsFit
  <2>1. Parsing
    BY DEF Parsing
  <2>2. ContentInv /\ offset \in Nat /\ offset < Length
    BY <2>1, Standing
  <2> QED
    BY <2>2, StringFits
<1> QED
  BY <1>1, <1>2, <1>3, PTL DEF ParseSpec

=============================================================================
