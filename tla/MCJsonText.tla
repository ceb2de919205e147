----------------------------- MODULE MCJsonText -----------------------------
EXTENDS JsonText

Leaf(type) == [type |-> type, number |-> 0, text |-> <<>>, kids |-> <<>>, names |-> <<>>]
Number(n) == [Leaf("number") EXCEPT !.number = n]
String(s) == [Leaf("string") EXCEPT !.text = s]
Array(kids) == [Leaf("array") EXCEPT !.kids = kids]
Object(names, kids) == [Leaf("object") EXCEPT !.names = names, !.kids = kids]

\* Every class of character print_string_ptr and parse_string tell apart.
Awkward == <<97, 34, 32, 92, 10, 1, 31, 47, 195, 169>>

MCValues == {
    Leaf("null"), Leaf("false"), Number(-1005), Number(98765), String(<<>>), String(<<92>>), String(Awkward),
    [Leaf("raw") EXCEPT !.text = <<123>>], Leaf("invalid"),
    Array(<<>>), Object(<<>>, <<>>),
    Array(<<Leaf("true"), Number(5), Leaf("false")>>),
    Array(<<Array(<<>>), String(<<34>>), Object(<<<<97>>>>, <<Number(10)>>)>>),
    Array(<<Leaf("null"), Leaf("invalid"), Leaf("null")>>),
    Object(<<<<97>>, <<>>>>, <<Object(<<<<34>>>>, <<Leaf("false")>>), Array(<<Number(0)>>)>>),
    Object(<<<<>>, <<97>>>>, <<Array(<<Number(0)>>), Object(<<<<34>>>>, <<Leaf("false")>>)>>)}

MCPrograms == {Program(v, format) : v \in MCValues, format \in 0..1}

MCCodePoints == {1, 127, 128, 2047, 2048, 55295, 57344, 65535, 65536, 1114111}

\* The pieces of the texts that are received.
Tokens == {<<91>>, <<93>>, <<123>>, <<125>>, <<44>>, <<58>>, <<34, 97, 34>>, <<49>>}

Starts == {<<123, 34, 97, 34, 58>>, <<91, 91>>}

\* The pieces of the strings and numbers that are received.
Pieces == {<<34>>, <<92>>, <<92, 110>>, <<92, 117>>, <<48, 48>>, <<68, 56, 48, 49>>, <<68, 67, 48, 49>>}
NumberPieces == {<<45>>, <<48, 49>>, <<46>>, <<101>>, <<43>>}

Joined(s) == LET upto[i \in 0..Len(s)] == IF i = 0 THEN <<>> ELSE upto[i - 1] \o s[i] IN upto[Len(s)]
Strings(S, n) == UNION {{Joined(s) : s \in [1..m -> S]} : m \in 0..n}

MCTexts ==
    Strings(Tokens, 4)
    \cup {start \o s : start \in Starts, s \in Strings(Tokens, 4)}
    \cup Strings({<<32>>, <<91>>, <<93>>, <<125>>, <<44>>, <<49>>}, 4)
    \cup {<<34>> \o s : s \in Strings(Pieces, 4)}
    \cup {<<34, 92, 117>> \o s : s \in Strings({<<34>>, <<92>>, <<48>>}, 6)}
    \cup Strings(NumberPieces, 4)
    \cup {Spelling(c) : c \in MCCodePoints}
    \cup {<<239, 187, 191>> \o t : t \in {<<>>, <<49>>, <<32, 93>>}}
    \cup {<<91>> \o Literals[t] \o <<44, 91, 91, 91>> : t \in DOMAIN Literals}
=============================================================================
