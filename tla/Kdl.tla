--------------------------------- MODULE Kdl ---------------------------------
(***************************************************************************)
(* The text of a message (agent_protocol.py): a small subset of KDL.       *)
(*                                                                         *)
(* A text is a sequence of characters, of which Letters stands for the     *)
(* letters and the underscore.  A value is <<"true">>, <<"false">>,        *)
(* <<"null">>, <<"int", digits>> (in canonical decimal form) or            *)
(* <<"text", text>>.  A message is the sequence of its nodes in the order  *)
(* of their lines, those of a block behind the node that has it; a node is *)
(* [depth, name, args], in which depth is how many blocks it is inside of. *)
(***************************************************************************)
EXTENDS Integers, SequencesExt

CONSTANTS Letters, MaxIntDigits, MaxDepth

Decimals == <<"0", "1", "2", "3", "4", "5", "6", "7", "8", "9">>
Digits == ToSet(Decimals)
Marks == {".", ":", "+", "-"}
Delims == {" ", "\t", "\n", "\r", "{", "}", ";", "\""}

ASSUME KdlAssumption ==
    /\ {"a", "e", "f", "l", "n", "p", "r", "s", "t", "u"} \subseteq Letters
    /\ Letters \cap (Digits \cup Marks \cup Delims \cup {"\\"}) = {}
    /\ MaxIntDigits \in Nat \ {0}
    /\ MaxDepth \in Nat \ {0}

Keywords == [true |-> <<"t", "r", "u", "e">>, false |-> <<"f", "a", "l", "s", "e">>,
             null |-> <<"n", "u", "l", "l">>]

From(t, i) == SubSeq(t, i, Len(t))

\* The first position of t, from i on, that holds one of cs; Len(t) + 1 if none does.
FirstOf(t, i, cs) ==
    CHOOSE p \in i .. Len(t) + 1 :
        /\ p <= Len(t) => t[p] \in cs
        /\ \A q \in i .. p - 1 : t[q] \notin cs

Digital(t) == t # <<>> /\ ToSet(t) \subseteq Digits

-----------------------------------------------------------------------------
(* Writing *)

\* A text that may be written without quotes.
IsBare(t) ==
    /\ t # <<>>
    /\ Head(t) \in Letters
    /\ ToSet(t) \subseteq Letters \cup Digits \cup Marks
    /\ \A k \in DOMAIN Keywords : t # Keywords[k]

\* Mutant: a backslash is written as it is.
EscapeQuotesOnly(c) == IF c = "\"" THEN <<"\\", "\"">> ELSE <<c>>

Escape(c) ==
    CASE c = "\\" -> <<"\\", "\\">>
      [] c = "\"" -> <<"\\", "\"">>
      [] c = "\n" -> <<"\\", "n">>
      [] c = "\t" -> <<"\\", "t">>
      [] c = "\r" -> <<"\\", "r">>
      [] OTHER -> <<c>>

FormatValue(v) ==
    IF v[1] \in DOMAIN Keywords THEN Keywords[v[1]]
    ELSE IF v[1] = "int" \/ IsBare(v[2]) THEN v[2]
    ELSE <<"\"">> \o FlattenSeq([i \in DOMAIN v[2] |-> Escape(v[2][i])]) \o <<"\"">>

Spaces(n) == [i \in 1 .. n |-> " "]

\* The depth of the node behind node k, or of the end of the text.
NextDepth(nodes, k) == IF k = Len(nodes) THEN 0 ELSE nodes[k + 1].depth

\* The line of node k, which ends in a brace when the node has children.
Line(nodes, k) ==
    LET n == nodes[k]
    IN  Spaces(2 * n.depth) \o n.name
          \o FlattenSeq([i \in DOMAIN n.args |-> <<" ">> \o FormatValue(n.args[i])])
          \o IF NextDepth(nodes, k) > n.depth THEN <<" ", "{">> ELSE <<>>

\* The lines behind it that close blocks.
Closing(nodes, k) ==
    LET depth == nodes[k].depth
        closed == IF NextDepth(nodes, k) > depth THEN 0 ELSE depth - NextDepth(nodes, k)
    IN  FlattenSeq([j \in 1 .. closed |-> <<"\n">> \o Spaces(2 * (depth - j)) \o <<"}">>])

Serialize(nodes) ==
    FlattenSeq([k \in DOMAIN nodes |->
        (IF k = 1 THEN <<>> ELSE <<"\n">>) \o Line(nodes, k) \o Closing(nodes, k)])

-----------------------------------------------------------------------------
(* Reading.  A token is <<"NL">>, <<"LB">>, <<"RB">>, <<"VAL", value>>, or    *)
(* <<"ERR">>, at which reading ends.                                        *)

Stripped(ds) == From(ds, CHOOSE i \in DOMAIN ds : /\ ds[i] # "0" \/ i = Len(ds)
                                                  /\ \A j \in 1 .. i - 1 : ds[j] = "0")

\* int(word), written in its shortest form.
Integer(word) ==
    LET ds == Stripped(IF Head(word) \in {"+", "-"} THEN Tail(word) ELSE word)
    IN  IF Head(word) = "-" /\ ds # <<"0">> THEN <<"-">> \o ds ELSE ds

\* Of a bare word: a keyword, an integer in range, or a text.
ParseBare(word) ==
    LET keyword == {k \in DOMAIN Keywords : word = Keywords[k]}
        number == Digital(IF Head(word) \in {"+", "-"} THEN Tail(word) ELSE word)
    IN  IF keyword # {} THEN <<"VAL", <<CHOOSE k \in keyword : TRUE>>>>
        ELSE IF ~number THEN <<"VAL", <<"text", word>>>>
        ELSE IF Len(Integer(word)) > MaxIntDigits THEN <<"ERR">>
        ELSE <<"VAL", <<"int", Integer(word)>>>>

Escapes == {"n", "t", "r", "\"", "\\", "/"}

Unescape(c) ==
    CASE c = "n" -> "\n"
      [] c = "t" -> "\t"
      [] c = "r" -> "\r"
      [] OTHER -> c

Unterminated == [next |-> 0, text |-> <<>>]

\* From each position of t the text up to the closing quote: [next, text], in which
\* next = 0 when the string has no end or a bad escape.  (An escape \u{...} is
\* read too, but never written; it is left out.)
Quoted(t) ==
    LET read[i \in 1 .. Len(t) + 1] ==
            IF i > Len(t) THEN Unterminated
            ELSE IF t[i] = "\"" THEN [next |-> i + 1, text |-> <<>>]
            ELSE IF t[i] # "\\"
                 THEN [next |-> read[i + 1].next, text |-> <<t[i]>> \o read[i + 1].text]
            ELSE IF i = Len(t) \/ t[i + 1] \notin Escapes THEN Unterminated
            ELSE [next |-> read[i + 2].next, text |-> <<Unescape(t[i + 1])>> \o read[i + 2].text]
    IN  read

\* What is read at position i: the tokens, and where reading goes on.
ReadToken(t, i) ==
    CASE t[i] \in {" ", "\t"} -> [tokens |-> <<>>, next |-> i + 1]
      [] t[i] \in {"\n", "\r", ";"} -> [tokens |-> <<<<"NL">>>>, next |-> i + 1]
      [] t[i] = "{" -> [tokens |-> <<<<"LB">>>>, next |-> i + 1]
      [] t[i] = "}" -> [tokens |-> <<<<"RB">>>>, next |-> i + 1]
      [] t[i] = "\"" ->
            LET q == Quoted(t)[i + 1]
            IN  IF q.next = 0 THEN [tokens |-> <<<<"ERR">>>>, next |-> Len(t) + 1]
                ELSE [tokens |-> <<<<"VAL", <<"text", q.text>>>>>>, next |-> q.next]
      [] OTHER ->
            LET end == FirstOf(t, i, Delims)
            IN  [tokens |-> <<ParseBare(SubSeq(t, i, end - 1))>>, next |-> end]

\* The tokens from each position of t on.
Tokenize(t) ==
    LET read[i \in 1 .. Len(t) + 1] ==
            IF i > Len(t) THEN <<>>
            ELSE LET r == ReadToken(t, i) IN r.tokens \o read[r.next]
    IN  read

Failed == [ok |-> FALSE, nodes |-> <<>>]

\* Where the values end that begin at pos.
ValuesEnd(toks, pos) ==
    CHOOSE p \in pos .. Len(toks) + 1 :
        /\ p <= Len(toks) => toks[p][1] # "VAL"
        /\ \A q \in pos .. p - 1 : toks[q][1] = "VAL"

\* The nodes from each token on, inside of so many blocks.
ParseNodes(toks) ==
    LET parse[pos \in 1 .. Len(toks) + 1] == [depth \in 0 .. MaxDepth |->
            IF pos > Len(toks) THEN [ok |-> depth = 0, nodes |-> <<>>]
            ELSE CASE toks[pos][1] = "NL" -> parse[pos + 1][depth]
                   [] toks[pos][1] = "RB" -> IF depth = 0 THEN Failed ELSE parse[pos + 1][depth - 1]
                   [] toks[pos][1] \in {"LB", "ERR"} -> Failed
                   [] OTHER ->
                        LET end == ValuesEnd(toks, pos)
                            args == [i \in 1 .. end - pos - 1 |-> toks[pos + i][2]]
                            block == end <= Len(toks) /\ toks[end][1] = "LB"
                            node == [depth |-> depth, name |-> toks[pos][2][2], args |-> args]
                            rest == IF block THEN parse[end + 1][depth + 1] ELSE parse[end][depth]
                        IN  IF toks[pos][2][1] # "text" \/ (block /\ depth >= MaxDepth) \/ ~rest.ok
                            THEN Failed
                            ELSE [ok |-> TRUE, nodes |-> <<node>> \o rest.nodes]]
    IN  parse

\* [ok, nodes]: the nodes of a text, or not ok.
Parse(t) == ParseNodes(Tokenize(t)[1])[1][0]

-----------------------------------------------------------------------------
(* Signing: what is signed is the text of the nodes without the auth block  *)

Auth == <<"a", "u", "t">>     \* the name of the auth block, shortened

\* The nodes without the first auth block.
WithoutAuth(nodes) ==
    LET auths == {k \in DOMAIN nodes : nodes[k].depth = 0 /\ nodes[k].name = Auth}
        auth == CHOOSE k \in auths : \A j \in auths : k <= j
        end == CHOOSE k \in auth + 1 .. Len(nodes) + 1 :
                   /\ k <= Len(nodes) => nodes[k].depth = 0
                   /\ \A j \in auth + 1 .. k - 1 : nodes[j].depth > 0
    IN  IF auths = {} THEN nodes ELSE SubSeq(nodes, 1, auth - 1) \o From(nodes, end)

AuthNode ==
    <<[depth |-> 0, name |-> Auth, args |-> <<>>],
      [depth |-> 1, name |-> <<"s">>, args |-> <<<<"text", <<"e", "1", "-">>>>>>]>>

\* What goes out, and what its receiver takes for the signed text (nothing when
\* it cannot read it).
SignedBody(nodes) == Serialize(nodes \o AuthNode)

Canonical(body) ==
    IF Parse(body).ok THEN {Serialize(WithoutAuth(Parse(body).nodes))} ELSE {}

-----------------------------------------------------------------------------
(* Numbers, as they begin a frame *)

Number(ds) ==
    LET read[k \in 0 .. Len(ds)] ==
            IF k = 0 THEN 0
            ELSE 10 * read[k - 1] + (CHOOSE d \in 0 .. 9 : Decimals[d + 1] = ds[k])
    IN  read[Len(ds)]

Decimal(n) ==
    LET written[m \in 0 .. n] ==
            IF m < 10 THEN <<Decimals[m + 1]>>
            ELSE Append(written[m \div 10], Decimals[(m % 10) + 1])
    IN  written[n]
=============================================================================
