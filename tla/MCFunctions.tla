----------------------------- MODULE MCFunctions -----------------------------
(***************************************************************************)
(* Checks the pure functions over bounded inputs: those on values (see      *)
(* MCValues), and those that go through a text or a stream of bytes, which  *)
(* recur: messages and their frames (Kdl), and the log (AgentLog).         *)
(***************************************************************************)
EXTENDS MCValues, AgentLog, Frames

CONSTANTS Texts,        \* lengths of the texts tried
          LogLength     \* longest log tried

NoSample == [of |-> "nothing"]
Stream == [of |-> "stream"]      \* the variables of Frames hold one

-----------------------------------------------------------------------------
(* Samples of messages *)

\* Characters: those that mean something, and all others.
AnyCharacter == Letters \cup Digits \cup Marks \cup Delims \cup {"\\"} \cup STRING

AnyString == Seq(AnyCharacter)

IntegerTexts ==
    {ds \in AnyString : /\ ds # <<>> /\ Len(ds) <= MaxIntDigits
                       /\ Digital(IF Head(ds) = "-" THEN Tail(ds) ELSE ds) /\ Integer(ds) = ds}

AnyValue ==
    {<<k>> : k \in DOMAIN Keywords} \cup ({"int"} \X IntegerTexts) \cup ({"text"} \X AnyString)

\* The name of a node is one that may be written without quotes.
BareNode == [depth : 0 .. MaxDepth, name : {n \in AnyString : IsBare(n)}, args : Seq(AnyValue)]

\* A node is at most one block further inside than the one before it.
Nested(nodes) ==
    \A k \in DOMAIN nodes : nodes[k].depth <= IF k = 1 THEN 0 ELSE nodes[k - 1].depth + 1

\* There is no auth block yet.
Unsigned(nodes) == \A k \in DOMAIN nodes : ~(nodes[k].depth = 0 /\ nodes[k].name = Auth)

AnyMessage ==
    [of : {"message"}, nodes : {nodes \in Seq(BareNode) : Nested(nodes) /\ Unsigned(nodes)}]

Characters == {"a", "1", "-", " ", "\n", "\"", "\\", "{"}

Values ==
    {<<"true">>, <<"null">>, <<"int", <<"0">>>>, <<"int", <<"-", "1">>>>}
        \cup {<<"text", Keywords[k]>> : k \in DOMAIN Keywords}
        \cup {<<"text", t>> : t \in UNION {[1 .. n -> Characters] : n \in Texts}}

Node(depth, name, args) == [depth |-> depth, name |-> <<name>>, args |-> args]

\* A request with the value, and a block in a block, with the value in a list.
MessageSamples ==
    UNION {{[of |-> "message",
             nodes |-> <<Node(0, "t", <<<<"int", <<"1">>>>>>), Node(0, "s", <<v>>)>>],
            [of |-> "message",
             nodes |-> <<Node(0, "l", <<>>), Node(1, "n", <<<<"true">>, v, <<"null">>>>),
                         Node(2, "p", <<>>), Node(0, "s", <<v>>)>>]} : v \in Values}

StreamBytes == Digits \cup {"a", "\n"}

\* A frame and what comes behind it on the connection, or the beginning of a frame.
\* The longest body allowed is among them.
StreamSamples ==
    LET bodies == UNION {[1 .. n -> {"a", "1", "\n"}] : n \in 0 .. 2}
                    \cup {[k \in 1 .. n |-> "a"] : n \in MaxFrameBytes - 1 .. MaxFrameBytes + 1}
        behind == {<<>>, <<"1">>, <<"\n", "a">>}
    IN  UNION {{[meant |-> b, sent |-> EncodeFrame(b) \o r] : r \in behind}
                 \cup {[meant |-> b, sent |-> SubSeq(EncodeFrame(b), 1, n)] :
                          n \in 0 .. Len(b) + 1} : b \in bodies}

-----------------------------------------------------------------------------
(* Samples of a log that is asked for *)

AnyLog == [of : {"log"}, file : AnyString, tail : Nat \ {0}, budget : Nat]

LogSamples ==
    {[of |-> "log", file |-> t, tail |-> n, budget |-> b] :
        t \in UNION {[1 .. n -> {"a", " ", "\n"}] : n \in 0 .. LogLength},
        n \in 1 .. 3, b \in {0, 24, 25, 28, 100}}

\* The lines of a file, without the empty ones at its end.
LinesOf(file) ==
    LET parts == Split(file)
        last == Max({k \in DOMAIN parts : parts[k] # <<>>} \cup {0})
    IN  SubSeq(parts, 1, last)

ASSUME TextsAssumption == MessageSamples \subseteq AnyMessage /\ LogSamples \subseteq AnyLog

-----------------------------------------------------------------------------

\* Only a stream goes on, and the clock of the lock decision.
FInit ==
    /\ received = 0 /\ result = Reading
    /\ \/ Init /\ sample = NoSample
       \/ /\ in = CHOOSE i \in Inputs : TRUE
          /\ sample \in MemorySamples \/ sample \in OriginSamples \/ sample \in FileSamples
             \/ sample \in MessageSamples \/ sample = Stream
             \/ sample \in ControlSamples \/ sample \in LogSamples \/ sample \in SecretSamples
             \/ sample \in PasswordSamples
    /\ \E s \in IF sample = Stream THEN StreamSamples ELSE {[meant |-> <<>>, sent |-> <<>>]} :
          meant = s.meant /\ sent = s.sent

FNext ==
    \/ sample = NoSample /\ Next /\ UNCHANGED <<sample, frames>>
    \/ sample = Stream /\ FrameNext /\ UNCHANGED <<in, sample>>

FSpec == FInit /\ [][FNext]_<<in, sample, frames>>

-----------------------------------------------------------------------------
(* Properties *)

\* What the receiver recomputes the signature over is the text that was signed,
\* whatever the values are: keywords, numbers in quotes, quotes, backslashes,
\* line ends, blocks.
SignedTextIsReadBack ==
    sample.of = "message" =>
        /\ Canonical(SignedBody(sample.nodes)) = {Serialize(sample.nodes)}
        /\ WithoutAuth(Parse(SignedBody(sample.nodes)).nodes) = sample.nodes

\* However the blocks fall, the answer has the last lines of the log, in order and
\* whole: as many as were asked for and fit, with empty ones only between
\* others, and it says truncated when there are more.
LogTailIsTheEnd ==
    sample.of = "log" =>
        LET all == LinesOf(sample.file)
            asked == Min({sample.tail, Len(all)})
            last(n) == SubSeq(all, Len(all) - n + 1, Len(all))
            block(n) == LogsBlock(<<"p">>, last(n), n < Len(all))
            fits(n) == Len(Serialize(block(n))) <= sample.budget
            most == Max({n \in 0 .. asked : fits(n)} \cup {0})
        IN  DoGetLogs(<<"p">>, sample.file, sample.tail, sample.budget) = block(most)
=============================================================================
