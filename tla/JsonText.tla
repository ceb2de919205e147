------------------------------ MODULE JsonText ------------------------------
(***************************************************************************)
(* From an item to its text and back: print_value and the functions it     *)
(* calls (src/utils/json/cJSON.c) turn a value into the operations of      *)
(* CJsonPrint, and what comes out is parsed by CJsonParse, as the device   *)
(* prints each payload that the cloud parses and the cloud each one that   *)
(* the device parses.  The parser is also given texts nobody printed.      *)
(***************************************************************************)
EXTENDS CJsonPrint, CJsonParse

CONSTANTS
    Values,     \* the values to print
    Nothing,    \* no value: the text is not printed here
    CodePoints  \* the characters whose escapes are parsed

VARIABLE value

vars == <<printVars, parseVars, value>>

-----------------------------------------------------------------------------
(* The operations of a value.  A number is given in tenths. *)

Write(need, put, ends, moves) ==
    <<[act |-> "write", need |-> need, put |-> put, ends |-> ends, moves |-> moves]>>
Rest(act) == <<[act |-> act, need |-> 0, put |-> <<>>, ends |-> 0, moves |-> 0]>>
Repeated(n, byte) == [i \in 1..n |-> byte]

\* The decimal digits of a natural number.
RECURSIVE Decimal(_)
Decimal(n) == IF n < 10 THEN <<48 + n>> ELSE Append(Decimal(n \div 10), 48 + (n % 10))

\* sprintf with %1.15g.
Digital(n) ==
    LET size == IF n < 0 THEN -n ELSE n IN
    (IF n < 0 THEN <<45>> ELSE <<>>) \o Decimal(size \div 10)
        \o (IF size % 10 = 0 THEN <<>> ELSE <<46, 48 + (size % 10)>>)

print_number(n) == Write(Len(Digital(n)) + 1, Digital(n), 1, 1)

\* The bytes print_string_ptr adds to make room for an escaped character.
Extra(c) == IF c \in {34, 92, 8, 12, 10, 13, 9} THEN 1 ELSE IF c < 32 THEN 5 ELSE 0

\* Mutant of Quoted: the character itself follows the backslash, not its letter.
MutQuoted(c) ==
    IF c > 31 /\ c # 34 /\ c # 92 THEN <<c>>
    ELSE IF c \in {8, 12, 10, 13, 9, 34, 92} THEN <<92, c>>
    ELSE <<92, 117, 48, 48, 48 + c \div 16, IF c % 16 < 10 THEN 48 + (c % 16) ELSE 87 + (c % 16)>>

\* A character as it is written.
Quoted(c) ==
    IF c > 31 /\ c # 34 /\ c # 92 THEN <<c>>
    ELSE IF \E n \in DOMAIN Escaped : Escaped[n] = c /\ Escapes[n] # 47
    THEN <<92, Escapes[CHOOSE n \in DOMAIN Escaped : Escaped[n] = c]>>
    ELSE <<92, 117, 48, 48, 48 + c \div 16, IF c % 16 < 10 THEN 48 + (c % 16) ELSE 87 + (c % 16)>>

\* print_string_ptr: the room is counted first, then the text is written.
print_string_ptr(s) ==
    LET extra[i \in 0..Len(s)] == IF i = 0 THEN 0 ELSE extra[i - 1] + Extra(s[i])
        quoted[i \in 0..Len(s)] == IF i = 0 THEN <<>> ELSE quoted[i - 1] \o Quoted(s[i])
    IN Write(Len(s) + extra[Len(s)] + 3, <<Quote>> \o quoted[Len(s)] \o <<Quote>>, 1, 0)

\* print_array and print_object, print_value being the operations of an
\* element: format is 1 for formatted text, level its depth.
RECURSIVE print_value(_, _, _), print_elements(_, _, _, _), print_members(_, _, _, _)

print_elements(v, format, level, i) ==
    IF i > Len(v.kids) THEN Write(2, <<Closing.array>>, 1, 0)
    ELSE print_value(v.kids[i], format, level + 1) \o Rest("scan")
         \o (IF i = Len(v.kids) THEN <<>>
             ELSE Write(format + 2, <<Comma>> \o Repeated(format, 32), 1, 1))
         \o print_elements(v, format, level, i + 1)

print_members(v, format, level, i) ==
    LET last == IF i = Len(v.kids) THEN 1 ELSE 0 IN
    IF i > Len(v.kids)
    THEN Write(IF format = 1 THEN level + 2 ELSE 2, Repeated(format * level, 9) \o <<Closing.object>>, 1, 0)
    ELSE (IF format = 1 THEN Write(level + 1, Repeated(level + 1, 9), 0, 1) ELSE <<>>)
         \o print_string_ptr(v.names[i]) \o Rest("scan")
         \o Write(format + 1, <<Colon>> \o Repeated(format, 9), 0, 1)
         \o print_value(v.kids[i], format, level + 1) \o Rest("scan")
         \o Write(format + 2 - last, Repeated(1 - last, Comma) \o Repeated(format, 10), 1, 1)
         \o print_members(v, format, level, i + 1)

print_value(v, format, level) ==
    CASE v.type \in DOMAIN Literals -> Write(Len(Literals[v.type]) + 1, Literals[v.type], 1, 0)
      [] v.type = "number" -> print_number(v.number)
      [] v.type = "raw" -> Write(Len(v.text) + 1, v.text, 1, 0)
      [] v.type = "string" -> print_string_ptr(v.text)
      [] v.type = "array" -> Write(1, <<Opening.array>>, 0, 1) \o print_elements(v, format, level, 1)
      [] v.type = "object" ->
            Write(format + 2, <<Opening.object>> \o Repeated(format, 10), 0, 1) \o print_members(v, format, level, 1)
      [] OTHER -> Rest("refuse")

\* What print_value does before it returns false.
Program(v, format) ==
    LET ops == print_value(v, format, 0)
        refusals == Refusals(ops)
    IN IF refusals = {} THEN ops ELSE SubSeq(ops, 1, CHOOSE i \in refusals : \A j \in refusals : i <= j)

-----------------------------------------------------------------------------
(* Printing and parsing *)

\* Something is printed, or a text is received.
Init ==
    \/ /\ value \in Values
       /\ PrintInit /\ \E format \in 0..1 : program = Program(value, format)
       /\ content = <<0>> /\ offset = 0 /\ depth = 0 /\ stack = <<>> /\ nodes = <<>> /\ strings = {}
       /\ stand = "idle" /\ whole = TRUE /\ starved = FALSE
    \/ /\ value = Nothing
       /\ ParseInit
       /\ program = <<>> /\ step = 1 /\ caller = "Print" /\ realloc = 0 /\ block = <<>>
       /\ length = 0 /\ at = 0 /\ blocks = 0 /\ phase = "idle"

\* The text that has been printed is parsed.
Send ==
    /\ phase = "printed" /\ stand = "idle"
    /\ content' = Append(Result, 0) /\ stand' = "start"
    /\ UNCHANGED <<printVars, offset, depth, stack, nodes, strings, whole, starved, value>>

Next ==
    \/ PrintNext /\ UNCHANGED <<parseVars, value>>
    \/ Send
    \/ ParseNext /\ UNCHANGED <<printVars, value>>

Spec == Init /\ [][Next]_vars

-----------------------------------------------------------------------------
(* The value of what has been parsed *)

\* strtod on a number without an exponent and with one digit behind the point.
NumberAt(o) ==
    LET start == IF At(o) = 45 THEN o + 1 ELSE o
        size[i \in start..AfterNumber(o)] ==
            IF i = start \/ At(i - 1) = 46 THEN (IF i = start THEN 0 ELSE size[i - 1]) ELSE 10 * size[i - 1] + At(i - 1) - 48
        tenths == IF \E i \in start..AfterNumber(o) - 1 : At(i) = 46 THEN size[AfterNumber(o)] ELSE 10 * size[AfterNumber(o)]
    IN IF At(o) = 45 THEN -tenths ELSE tenths

RECURSIVE ValueOf(_)
ValueOf(i) ==
    LET node == nodes[i] IN
    [type |-> node.type,
     number |-> IF node.type = "number" THEN NumberAt(node.value) ELSE 0,
     text |-> IF node.type = "string" THEN StringAt(node.value).bytes ELSE <<>>,
     kids |-> [k \in DOMAIN node.kids |-> ValueOf(node.kids[k])],
     names |-> IF node.type = "object" THEN [k \in DOMAIN node.kids |-> StringAt(nodes[node.kids[k]].name).bytes] ELSE <<>>]

\* A text that parsing gives back: no raw text.
RECURSIVE Plain(_)
Plain(v) == v.type # "raw" /\ \A k \in DOMAIN v.kids : Plain(v.kids[k])

-----------------------------------------------------------------------------
(* Comparing values and taking the blanks out of a text *)

\* get_object_item: the first member of that name, as cJSON_Compare calls it.
SameName(k, l, sensitive) ==
    LET Lower(b) == IF b \in 65..90 THEN b + 32 ELSE b
    IN IF sensitive THEN k = l ELSE [i \in DOMAIN k |-> Lower(k[i])] = [i \in DOMAIN l |-> Lower(l[i])]
IsMember(v, k, i, sensitive) ==
    /\ i \in DOMAIN v.kids /\ SameName(v.names[i], k, sensitive)
    /\ \A j \in 1..i - 1 : ~SameName(v.names[j], k, sensitive)

RECURSIVE Compare(_, _, _)
Compare(a, b, sensitive) ==
    LET Has(v, w) == \A i \in DOMAIN v.kids :
            \E j \in DOMAIN w.kids : IsMember(w, v.names[i], j, sensitive) /\ Compare(v.kids[i], w.kids[j], sensitive)
    IN /\ a.type = b.type /\ a.type # "invalid"
       /\ a.type = "number" => a.number = b.number
       /\ a.type \in {"string", "raw"} => a.text = b.text
       /\ a.type = "array" =>
            /\ Len(a.kids) = Len(b.kids)
            /\ \A i \in DOMAIN a.kids : Compare(a.kids[i], b.kids[i], sensitive)
       /\ a.type = "object" => Has(a, b) /\ Has(b, a)

\* A value whose members have no order.
RECURSIVE Unordered(_)
Unordered(v) ==
    IF v.type = "object" THEN <<"object", {<<v.names[i], Unordered(v.kids[i])>> : i \in DOMAIN v.kids}>>
    ELSE <<v.type, v.number, v.text, [i \in DOMAIN v.kids |-> Unordered(v.kids[i])]>>

\* Where the comment at i of s ends.
CommentEnd(s, i) ==
    LET ends == IF s[i + 1] = 47 THEN {j + 1 : j \in {k \in i + 2..Len(s) : s[k] = 10}}
                ELSE {j + 2 : j \in {k \in i + 2..Len(s) - 1 : s[k] = 42 /\ s[k + 1] = 47}}
    IN IF ends = {} THEN Len(s) + 1 ELSE CHOOSE e \in ends : \A f \in ends : e <= f

\* Mutant of Minify: an escaped quote ends a string.
MutMinify(s) ==
    LET from[i \in 1..Len(s) + 1, string \in BOOLEAN] ==
            IF i > Len(s) THEN <<>>
            ELSE IF string THEN <<s[i]>> \o from[i + 1, s[i] # Quote]
            ELSE IF s[i] \in {32, 9, 13, 10} THEN from[i + 1, FALSE]
            ELSE IF s[i] = 47
            THEN from[IF i < Len(s) /\ s[i + 1] \in {42, 47} THEN CommentEnd(s, i) ELSE i + 1, FALSE]
            ELSE <<s[i]>> \o from[i + 1, s[i] = Quote]
    IN from[1, FALSE]

\* cJSON_Minify; string holds inside a string, which it copies.
Minify(s) ==
    LET from[i \in 1..Len(s) + 1, string \in BOOLEAN] ==
            IF i > Len(s) THEN <<>>
            ELSE IF string /\ s[i] = Backslash /\ i < Len(s) /\ s[i + 1] = Quote
            THEN SubSeq(s, i, i + 1) \o from[i + 2, TRUE]
            ELSE IF string THEN <<s[i]>> \o from[i + 1, s[i] # Quote]
            ELSE IF s[i] \in {32, 9, 13, 10} THEN from[i + 1, FALSE]
            ELSE IF s[i] = 47
            THEN from[IF i < Len(s) /\ s[i + 1] \in {42, 47} THEN CommentEnd(s, i) ELSE i + 1, FALSE]
            ELSE <<s[i]>> \o from[i + 1, s[i] = Quote]
    IN from[1, FALSE]

\* No string ends with a backslash.  Minify takes the second of two
\* backslashes before the closing quote for one that escapes it.
RECURSIVE Minifiable(_)
Minifiable(v) ==
    /\ v.type # "raw" /\ (v.text # <<>> => v.text[Len(v.text)] # Backslash)
    /\ \A k \in DOMAIN v.names : v.names[k] # <<>> => v.names[k][Len(v.names[k])] # Backslash
    /\ \A k \in DOMAIN v.kids : Minifiable(v.kids[k])

\* Minify makes the unformatted text of the formatted one: what blanks, commas
\* and slashes stand in strings stays there and nothing else does, and comments
\* before it go.
MinifyUnformats ==
    phase = "printed" /\ Minifiable(value) =>
        LET unformatted == Text(Program(value, 0)) IN
        /\ Minify(Text(Program(value, 1))) = unformatted
        /\ Minify(<<47, 42, 34, 42, 47, 32, 47, 47, 34, 10>> \o unformatted) = unformatted

-----------------------------------------------------------------------------
(* The documents *)

\* The first offset behind the blanks at o.
Behind(o) == CHOOSE e \in o..Length :
    (\A i \in o..e - 1 : At(i) \in 1..32) /\ (e = Length \/ At(e) \notin 1..32)

IsHex(o) == o < Length /\ At(o) \in (48..57) \cup (65..70) \cup (97..102)
CodeUnit(o) == IF Reads(o, <<Backslash, 117>>) /\ \A i \in 2..5 : IsHex(o + i) THEN parse_hex4(o + 2) ELSE -1

\* Where the rest of a string ends: characters, escapes, pairs of surrogates.
RECURSIVE StringRest(_)
StringRest(o) ==
    IF o >= Length \/ At(o) = 0 THEN {}
    ELSE IF At(o) = Quote THEN {o + 1}
    ELSE IF At(o) # Backslash THEN StringRest(o + 1)
    ELSE IF At(o + 1) \in {34, 92, 47, 98, 102, 110, 114, 116} THEN StringRest(o + 2)
    ELSE IF CodeUnit(o) = -1 \/ Low(CodeUnit(o)) THEN {}
    ELSE IF ~High(CodeUnit(o)) THEN StringRest(o + 6)
    ELSE IF Low(CodeUnit(o + 6)) THEN StringRest(o + 12)
    ELSE {}

StringEnds(o) == IF At(o) = Quote THEN StringRest(o + 1) ELSE {}

\* Where a value that starts at o, with d levels left, and the rest of the
\* elements or members that start at o, may end.
RECURSIVE ValueEnds(_, _), ListEnds(_, _, _)
ValueEnds(o, d) ==
    {o + Len(Literals[t]) : t \in {u \in DOMAIN Literals : Reads(o, Literals[u])}}
    \cup {e \in o + 1..Length - 1 : e <= o + NumberBuffer /\ At(o) # 43 /\ At(o) # 46 /\ IsDecimal(o, e)}
    \cup StringEnds(o)
    \cup UNION {IF d = 0 \/ At(o) # Opening[kind] THEN {}
                ELSE IF At(Behind(o + 1)) = Closing[kind] THEN {Behind(o + 1) + 1}
                ELSE ListEnds(kind, Behind(o + 1), d - 1) : kind \in {"array", "object"}}

ListEnds(kind, o, d) ==
    LET starts == IF kind = "array" THEN {o}
                  ELSE {Behind(Behind(e) + 1) : e \in {f \in StringEnds(o) : At(Behind(f)) = Colon}}
        ends == UNION {{Behind(e) : e \in ValueEnds(s, d)} : s \in starts}
    IN {e + 1 : e \in {f \in ends : At(f) = Closing[kind]}}
       \cup UNION {ListEnds(kind, Behind(e + 1), d) : e \in {f \in ends : At(f) = Comma}}

IsDocument ==
    \E e \in ValueEnds(Behind(Bom), NestingLimit) : whole => At(Behind(e)) = 0

\* Every \u that is not cut short has its four hexadecimal digits.  parse_hex4
\* takes any other four characters for the code 0, and parse_string takes them.
HexGiven ==
    \A o \in 0..Length - 1 : Reads(o, <<Backslash, 117>>) =>
        \E n \in 2..6 : (\A i \in 2..n - 1 : IsHex(o + i)) /\ (n = 6 \/ At(o + n) \in {0, Quote})

\* The parser takes the documents of JSON and no other text.  It is more
\* liberal than RFC 8259 in what blanks, strings and numbers may contain, which
\* Behind, StringRest and IsDecimal allow too.
AcceptsDocuments ==
    ~starved /\ stand \in {"parsed", "failed"} /\ HexGiven => (stand = "parsed" <=> IsDocument)

-----------------------------------------------------------------------------
(* Code points *)

\* The code points that bytes in UTF-8 stand for.
RECURSIVE Reading(_)
Reading(b) ==
    LET size == IF b[1] < 128 THEN 1 ELSE IF b[1] \in 194..223 THEN 2 ELSE IF b[1] \in 224..239 THEN 3 ELSE 4
        point[i \in 1..size] == IF i = 1 THEN b[1] % (IF size = 1 THEN 128 ELSE 2 ^ (7 - size)) ELSE 64 * point[i - 1] + (b[i] % 64)
    IN IF b = <<>> THEN <<>> ELSE <<point[size]>> \o Reading(SubSeq(b, size + 1, Len(b)))

HexDigit(n) == IF n < 10 THEN 48 + n ELSE 87 + n
Unit(u) == <<Backslash, 117, HexDigit(u \div 4096), HexDigit((u \div 256) % 16), HexDigit((u \div 16) % 16), HexDigit(u % 16)>>

\* A string of the one character c, as \u sequences.
Spelling(c) ==
    <<Quote>> \o (IF c < 65536 THEN Unit(c)
                  ELSE Unit(55296 + (c - 65536) \div 1024) \o Unit(56320 + ((c - 65536) % 1024)))
    \o <<Quote>>

\* What is printed, in whatever way, is parsed as the value it was: no
\* character, number or nesting is lost or changed, and it is one document.
\* cJSON_Compare finds it equal to that value and to no other.
\* What is spelled in \u sequences is parsed as the UTF-8 of that character.
RoundTrip ==
    /\ value # Nothing /\ Plain(value) /\ ~starved =>
        /\ stand \notin {"fail", "failed"}
        /\ stand = "parsed" =>
            /\ ValueOf(0) = value
            /\ Compare(ValueOf(0), value, FALSE)
            /\ \A v \in Values : Compare(ValueOf(0), v, TRUE) <=> Unordered(v) = Unordered(value)
    /\ \A c \in CodePoints : content = Append(Spelling(c), 0) /\ ~starved =>
        /\ stand \notin {"fail", "failed"}
        /\ stand = "parsed" => Reading(StringAt(0).bytes) = <<c>>

=============================================================================
