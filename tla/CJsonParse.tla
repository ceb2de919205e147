----------------------------- MODULE CJsonParse -----------------------------
(***************************************************************************)
(* The parser of src/utils/json/cJSON.c: cJSON_ParseWithOpts and the       *)
(* functions it calls, on any text the device receives, with memory that   *)
(* may run out at any allocation.                                          *)
(*                                                                         *)
(* Offsets count from 0 as in the code; the text and the NUL behind it are *)
(* a sequence of bytes.  parse_array and parse_object call parse_value for *)
(* their elements and are called by it: here the calls that have not       *)
(* returned are a stack, and the parser stands                             *)
(*   at "element", with the offset before a further element,               *)
(*   at "value", in parse_value for the item made last,                    *)
(*   at "after", behind a value,                                           *)
(*   at "fail", where a call returns false to the one below it.            *)
(* An item is named by the offset behind the place it was made at, the     *)
(* root by 0, and a string by the offset of its opening quote.             *)
(***************************************************************************)
EXTENDS Integers, Sequences

CONSTANTS
    Texts,          \* what is to be parsed, without the NUL
    NestingLimit,   \* CJSON_NESTING_LIMIT
    NumberBuffer    \* the characters number_c_string has room for

ASSUME TextsAssumption == \A t \in Texts : t \in Seq(1..255)
ASSUME LimitsAssumption == NestingLimit \in Nat /\ NumberBuffer \in Nat \ {0}

Quote == 34
Comma == 44
Colon == 58
Backslash == 92
Opening == [array |-> 91, object |-> 123]
Closing == [array |-> 93, object |-> 125]
Literals == [null |-> <<110, 117, 108, 108>>, false |-> <<102, 97, 108, 115, 101>>, true |-> <<116, 114, 117, 101>>]

VARIABLES
    content,    \* the text and its NUL
    offset, depth,
    stack,      \* the arrays and objects being parsed, the innermost last
    nodes,      \* the items allocated: type, elements, name and value
    strings,    \* the strings allocated
    stand,      \* where the parser stands
    whole,      \* require_null_terminated
    starved     \* history: an allocation has failed

parseVars == <<content, offset, depth, stack, nodes, strings, stand, whole, starved>>

Length == Len(content)

\* The byte at an offset.
At(o) == content[o + 1]

\* The bytes w stand at offset o.
Reads(o, w) == o + Len(w) <= Length /\ \A i \in 1..Len(w) : At(o + i - 1) = w[i]

-----------------------------------------------------------------------------
(* Numbers *)

Digits == 48..57
Signs == {43, 45}
Exponents == {69, 101}

\* Where the text that is copied for strtod ends.
NumberEnd(o) ==
    CHOOSE e \in o..Length :
        /\ \A i \in o..e - 1 : At(i) \in Digits \cup Signs \cup Exponents \cup {46}
        /\ e = Length \/ e = o + NumberBuffer \/ At(e) \notin Digits \cup Signs \cup Exponents \cup {46}
        /\ e <= o + NumberBuffer

\* The text from o to e is a decimal number as strtod knows it: a sign, digits
\* with a point anywhere among them, an exponent.
IsDecimal(o, e) ==
    \E d \in o..o + 1, p, x \in o..e :
        /\ d <= p /\ p <= x
        /\ d = o + 1 => At(o) \in Signs
        /\ \A i \in d..p - 1 : At(i) \in Digits
        /\ p < x => At(p) = 46 /\ \A i \in p + 1..x - 1 : At(i) \in Digits
        /\ \E i \in d..x - 1 : At(i) \in Digits
        /\ x < e =>
            /\ At(x) \in Exponents
            /\ \E n \in x + 1..x + 2 :
                /\ n < e /\ (n = x + 2 => At(x + 1) \in Signs)
                /\ \A i \in n..e - 1 : At(i) \in Digits

\* Where strtod stops: at the end of the longest number, or at once.
Decimals(o) == {e \in o + 1..NumberEnd(o) : IsDecimal(o, e)}
AfterNumber(o) == IF Decimals(o) = {} THEN o ELSE CHOOSE e \in Decimals(o) : \A f \in Decimals(o) : f <= e

-----------------------------------------------------------------------------
(* Strings *)

\* The quote the string at q ends at, which is behind no backslash of its own;
\* the length of the text when it does not end.
StringEnd(q) ==
    LET escaped[i \in q + 1..Length] == i > q + 1 /\ At(i - 1) = Backslash /\ ~escaped[i - 1]
        ends == {i \in q + 1..Length - 1 : At(i) = Quote /\ ~escaped[i]}
    IN IF ends = {} THEN Length ELSE CHOOSE i \in ends : \A j \in ends : i <= j

\* The value of a hexadecimal digit.
Hex(b) ==
    IF b \in Digits THEN b - 48 ELSE IF b \in 65..70 THEN b - 55 ELSE IF b \in 97..102 THEN b - 87 ELSE 16

\* parse_hex4: four digits, or 0.
parse_hex4(o) ==
    IF \A i \in o..o + 3 : Hex(At(i)) < 16
    THEN 4096 * Hex(At(o)) + 256 * Hex(At(o + 1)) + 16 * Hex(At(o + 2)) + Hex(At(o + 3))
    ELSE 0

High(c) == c \in 55296..56319   \* 0xD800..0xDBFF
Low(c) == c \in 56320..57343    \* 0xDC00..0xDFFF

\* The length of the \u sequence at i of a string that ends at e, or 0.
SequenceLength(i, e) ==
    IF e - i < 6 \/ Low(parse_hex4(i + 2)) THEN 0
    ELSE IF ~High(parse_hex4(i + 2)) THEN 6
    ELSE IF e - i >= 12 /\ Reads(i + 6, <<Backslash, 117>>) /\ Low(parse_hex4(i + 8)) THEN 12
    ELSE 0

\* Its code point.
CodePoint(i, e) ==
    IF SequenceLength(i, e) = 12
    THEN 65536 + 1024 * (parse_hex4(i + 2) % 1024) + (parse_hex4(i + 8) % 1024)
    ELSE parse_hex4(i + 2)

\* A code point in UTF-8.
Utf8(c) ==
    LET Continued(n) == 128 + ((c \div 64 ^ n) % 64) IN
    IF c < 128 THEN <<c>>
    ELSE IF c < 2048 THEN <<192 + c \div 64, Continued(0)>>
    ELSE IF c < 65536 THEN <<224 + c \div 4096, Continued(1), Continued(0)>>
    ELSE <<240 + c \div 262144, Continued(2), Continued(1), Continued(0)>>

\* The escapes of one letter, and what they stand for.
Escapes == <<98, 102, 110, 114, 116, 34, 92, 47>>
Escaped == <<8, 12, 10, 13, 9, 34, 92, 47>>

\* The bytes b in front of what the rest of a string is.
Prefixed(b, rest) == [rest EXCEPT !.bytes = b \o @]

\* From i0 to the end e of a string: the bytes, and where the loop stops, which
\* is at a wrong escape or at the end.  A \u takes any four characters for its
\* digits, a backslash among them too, so that the quote at the end may be
\* taken for an escaped one and the loop stops behind it.
Decode(i0, e) ==
    LET from[i \in i0..e + 1] ==
        IF i >= e THEN [bytes |-> <<>>, stop |-> i]
        ELSE IF At(i) # Backslash
        THEN Prefixed(<<At(i)>>, from[i + 1])
        ELSE IF \E n \in DOMAIN Escapes : Escapes[n] = At(i + 1)
        THEN Prefixed(<<Escaped[CHOOSE n \in DOMAIN Escapes : Escapes[n] = At(i + 1)]>>, from[i + 2])
        ELSE IF At(i + 1) = 117 /\ SequenceLength(i, e) > 0
        THEN Prefixed(Utf8(CodePoint(i, e)), from[i + SequenceLength(i, e)])
        ELSE [bytes |-> <<>>, stop |-> i]
    IN from[i0]

StringAt(q) == Decode(q + 1, StringEnd(q))

\* parse_string succeeds on the string at q, memory permitting.
IsString(q) == At(q) = Quote /\ StringEnd(q) < Length /\ StringAt(q).stop >= StringEnd(q)

\* Mutant of Allocated: both bytes of an escape are skipped.
MutAllocated(q) ==
    LET escapes[i \in q + 1..StringEnd(q) + 1] ==
            IF i >= StringEnd(q) THEN 0 ELSE IF At(i) = Backslash THEN 2 + escapes[i + 2] ELSE escapes[i + 1]
    IN StringEnd(q) - q - escapes[q + 1] + 1

\* How many bytes it allocates: those of the literal but for one of each
\* escape, and the NUL.
Allocated(q) ==
    LET escapes[i \in q + 1..StringEnd(q) + 1] ==
            IF i >= StringEnd(q) THEN 0 ELSE IF At(i) = Backslash THEN 1 + escapes[i + 2] ELSE escapes[i + 1]
    IN StringEnd(q) - q - escapes[q + 1] + 1

-----------------------------------------------------------------------------
(* Moving in the text *)

\* Mutant of Skip: it does not step back.
MutSkip(o) ==
    LET seen == {i \in o..Length - 1 : At(i) > 32}
    IN IF seen = {} THEN Length ELSE CHOOSE i \in seen : \A j \in seen : i <= j

\* buffer_skip_whitespace from o on; at the end it steps back to the NUL.
Skip(o) ==
    LET seen == {i \in o..Length - 1 : At(i) > 32}
    IN IF seen = {} THEN Length - 1 ELSE CHOOSE i \in seen : \A j \in seen : i <= j

\* skip_utf8_bom.
Bom == IF Length > 4 /\ Reads(0, <<239, 187, 191>>) THEN 3 ELSE 0

\* The item that is being parsed.
Top == stack[Len(stack)]
Item == IF stack = <<>> THEN 0 ELSE Top.elements[Len(Top.elements)]

None == -1
Fresh == [type |-> "invalid", kids |-> <<>>, name |-> None, value |-> None]

\* The items of the lists and trees of S, which cJSON_Delete frees.
Below(S) ==
    LET tree[i \in DOMAIN nodes] == {i} \cup UNION {tree[nodes[i].kids[k]] : k \in DOMAIN nodes[i].kids}
    IN UNION {tree[i] : i \in S}

Elements(frame) == {frame.elements[i] : i \in DOMAIN frame.elements}

\* The strings that belong to the items D.
StringsOf(D) ==
    ({nodes[i].name : i \in D} \cup {nodes[i].value : i \in {j \in D : nodes[j].type = "string"}}) \ {None}

Delete(D) ==
    /\ nodes' = [i \in DOMAIN nodes \ D |-> nodes[i]]
    /\ strings' = strings \ StringsOf(D)

-----------------------------------------------------------------------------
ParseInit ==
    /\ \E t \in Texts : content = Append(t, 0)
    /\ offset = 0 /\ depth = 0 /\ stack = <<>>
    /\ nodes = <<>> /\ strings = {}
    /\ stand = "start" /\ whole \in BOOLEAN /\ starved = FALSE

\* A call returns false at offset o; memory may be the reason.
Fails(o) == stand' = "fail" /\ offset' = o /\ UNCHANGED <<content, depth, stack, whole>>
Starves == starved' = TRUE /\ UNCHANGED <<nodes, strings>>

\* cJSON_ParseWithOpts up to parse_value.
ParseStarts ==
    /\ stand = "start"
    /\ \/ /\ nodes' = [i \in {0} |-> Fresh]
          /\ offset' = Skip(Bom) /\ stand' = "value"
          /\ UNCHANGED <<content, depth, stack, strings, whole, starved>>
       \/ Fails(offset) /\ Starves

\* The item has its value, which ends before o.
Returns(type, value, o) ==
    /\ nodes' = [nodes EXCEPT ![Item].type = type, ![Item].value = value]
    /\ offset' = o /\ stand' = "after"
    /\ UNCHANGED <<content, depth, stack, whole, starved>>

ParseLiteral ==
    /\ stand = "value"
    /\ \E type \in DOMAIN Literals :
          Reads(offset, Literals[type]) /\ Returns(type, None, offset + Len(Literals[type]))
    /\ UNCHANGED strings

ParseNumber ==
    /\ stand = "value" /\ At(offset) \in Digits \cup {45}
    /\ IF AfterNumber(offset) > offset
       THEN Returns("number", offset, AfterNumber(offset)) /\ UNCHANGED strings
       ELSE Fails(offset) /\ UNCHANGED <<nodes, strings, starved>>

\* parse_string fails on what it finds, or for want of memory.
StringFails(q) ==
    \/ /\ ~IsString(q)
       /\ Fails(IF At(q) = Quote /\ StringEnd(q) < Length THEN StringAt(q).stop ELSE q + 1)
       /\ UNCHANGED <<nodes, strings, starved>>
    \/ /\ At(q) = Quote /\ StringEnd(q) < Length
       /\ Fails(q + 1) /\ Starves

ParseString ==
    /\ stand = "value" /\ At(offset) = Quote
    /\ \/ IsString(offset) /\ Returns("string", offset, StringEnd(offset) + 1) /\ strings' = strings \cup {offset}
       \/ StringFails(offset)

\* parse_array and parse_object up to the first element.
ParseOpens(kind) ==
    LET o == Skip(offset + 1) IN
    /\ stand = "value" /\ At(offset) = Opening[kind]
    /\ \/ /\ depth >= NestingLimit
          /\ Fails(offset) /\ UNCHANGED <<nodes, strings, starved>>
       \/ /\ depth < NestingLimit /\ At(o) = Closing[kind]
          /\ Returns(kind, None, o + 1) /\ UNCHANGED strings
       \/ /\ depth < NestingLimit /\ At(o) # Closing[kind]
          /\ depth' = depth + 1 /\ offset' = o - 1 /\ stand' = "element"
          /\ stack' = Append(stack, [kind |-> kind, item |-> Item, elements |-> <<>>])
          /\ UNCHANGED <<content, nodes, strings, whole, starved>>

\* parse_value knows no such value.
ParseValueFails ==
    /\ stand = "value"
    /\ At(offset) \notin Digits \cup {45, Quote, Opening.array, Opening.object}
    /\ \A type \in DOMAIN Literals : ~Reads(offset, Literals[type])
    /\ Fails(offset) /\ UNCHANGED <<nodes, strings, starved>>

\* A further element: its item, and where its value or name starts.
ParseElement ==
    /\ stand = "element"
    /\ \/ /\ nodes' = [i \in DOMAIN nodes \cup {offset + 1} |-> IF i = offset + 1 THEN Fresh ELSE nodes[i]]
          /\ stack' = [stack EXCEPT ![Len(stack)].elements = Append(@, offset + 1)]
          /\ offset' = Skip(offset + 1)
          /\ stand' = IF Top.kind = "object" THEN "name" ELSE "value"
          /\ UNCHANGED <<content, depth, strings, whole, starved>>
       \/ Fails(offset) /\ Starves

\* The name of a member and the colon.
ParseName ==
    LET o == Skip(StringEnd(offset) + 1) IN
    /\ stand = "name"
    /\ \/ /\ IsString(offset)
          /\ strings' = strings \cup {offset}
          /\ nodes' = [nodes EXCEPT ![Item].name = offset]
          /\ IF At(o) = Colon
             THEN offset' = Skip(o + 1) /\ stand' = "value" /\ UNCHANGED <<content, depth, stack, whole>>
             ELSE Fails(o)
          /\ UNCHANGED starved
       \/ StringFails(offset)

\* Behind an element: another one, or the end of the array or object.
ParseAfter ==
    LET o == Skip(offset) IN
    /\ stand = "after" /\ stack # <<>>
    /\ \/ /\ At(o) = Comma
          /\ offset' = o /\ stand' = "element"
          /\ UNCHANGED <<content, depth, stack, nodes, strings, whole, starved>>
       \/ /\ At(o) = Closing[Top.kind]
          /\ nodes' = [nodes EXCEPT ![Top.item].type = Top.kind, ![Top.item].kids = Top.elements]
          /\ stack' = SubSeq(stack, 1, Len(stack) - 1)
          /\ offset' = o + 1 /\ depth' = depth - 1
          /\ UNCHANGED <<content, strings, stand, whole, starved>>
       \/ /\ At(o) \notin {Comma, Closing[Top.kind]}
          /\ Fails(o) /\ UNCHANGED <<nodes, strings, starved>>

\* Mutant of ParseEnds: the blanks behind the root are not skipped.
MutParseEnds ==
    /\ stand = "after" /\ stack = <<>>
    /\ IF whole /\ At(offset) # 0
       THEN Fails(offset)
       ELSE stand' = "parsed" /\ UNCHANGED <<content, offset, depth, stack, whole>>
    /\ UNCHANGED <<nodes, strings, starved>>

\* Behind the root: with require_null_terminated only blanks may follow.
ParseEnds ==
    LET o == IF whole THEN Skip(offset) ELSE offset IN
    /\ stand = "after" /\ stack = <<>>
    /\ IF whole /\ At(o) # 0
       THEN Fails(o)
       ELSE stand' = "parsed" /\ offset' = o /\ UNCHANGED <<content, depth, stack, whole>>
    /\ UNCHANGED <<nodes, strings, starved>>

\* Mutant of ParseUnwinds: the elements of the array are not deleted.
MutParseUnwinds ==
    /\ stand = "fail" /\ stack # <<>>
    /\ stack' = SubSeq(stack, 1, Len(stack) - 1)
    /\ UNCHANGED <<content, offset, depth, nodes, strings, stand, whole, starved>>

\* parse_array or parse_object deletes its elements and returns false.
ParseUnwinds ==
    /\ stand = "fail" /\ stack # <<>>
    /\ Delete(Below(Elements(Top)))
    /\ stack' = SubSeq(stack, 1, Len(stack) - 1)
    /\ UNCHANGED <<content, offset, depth, stand, whole, starved>>

\* cJSON_ParseWithOpts deletes the root, if there is one, and returns NULL.
ParseFails ==
    /\ stand = "fail" /\ stack = <<>>
    /\ Delete(Below(DOMAIN nodes \cap {0}))
    /\ stand' = "failed"
    /\ UNCHANGED <<content, offset, depth, stack, whole, starved>>

ParseNext ==
    \/ ParseStarts \/ ParseLiteral \/ ParseNumber \/ ParseString
    \/ \E kind \in {"array", "object"} : ParseOpens(kind)
    \/ ParseValueFails \/ ParseElement \/ ParseName \/ ParseAfter \/ ParseEnds
    \/ ParseUnwinds \/ ParseFails

ParseSpec == ParseInit /\ [][ParseNext]_parseVars

-----------------------------------------------------------------------------
(* Properties *)

\* The parser stays inside the text and its NUL, whatever the text is, until
\* a call fails.  depth is the number of calls that have not returned.
StaysInside ==
    /\ stand \notin {"fail", "failed"} => offset < Length /\ depth = Len(stack) /\ depth <= NestingLimit
    /\ stand = "element" => offset + 1 < Length

\* When parsing ends, what is allocated is the tree that is returned; after
\* a failure, wherever it happened, nothing is.
ParseKeepsNothing ==
    /\ stand = "failed" => DOMAIN nodes = {} /\ strings = {}
    /\ stand = "parsed" => DOMAIN nodes = Below({0}) /\ strings = StringsOf(DOMAIN nodes)

\* The bytes of a string, as far as they are converted, fit into the memory
\* that parse_string allocates for them before it knows them, and the
\* conversion, which may jump two, six or twelve bytes, goes no further than
\* one byte behind the string, which is in the text.
StringsFit ==
    stand \in {"value", "name"} /\ At(offset) = Quote /\ StringEnd(offset) < Length
    => /\ Len(StringAt(offset).bytes) + 1 <= Allocated(offset)
       /\ StringAt(offset).stop \in offset + 1..StringEnd(offset) + 1
       /\ StringEnd(offset) + 1 < Length

=============================================================================
