-------------------------------- MODULE Frames --------------------------------
(***************************************************************************)
(* A frame on a connection (agent_protocol.py): the length of the body in  *)
(* decimal, a line end, the body.  The network delivers what was sent in   *)
(* pieces that may end anywhere; one step of read_frame is what it does    *)
(* between two calls of recv.  One character is one byte.                  *)
(***************************************************************************)
EXTENDS Integers, SequencesExt

CONSTANTS
    Bytes, Numerals,
    Prefix(_), PrefixValue(_),  \* str and int of a length
    MaxFrameBytes, ChunkBytes   \* MAX_FRAME_BYTES and the 4096 of recv

\* A length is written in numerals and read back; what recv returns at once and the
\* prefix of a frame are within the limit.
ASSUME FramesAssumption ==
    /\ "\n" \in Bytes \ Numerals /\ Numerals \subseteq Bytes
    /\ MaxFrameBytes \in Nat /\ ChunkBytes \in Nat \ {0}
    /\ \A n \in 0 .. MaxFrameBytes :
          /\ Prefix(n) \in Seq(Numerals) /\ Prefix(n) # <<>>
          /\ PrefixValue(Prefix(n)) = n
          /\ Len(Prefix(n)) + ChunkBytes <= MaxFrameBytes

VARIABLES
    meant,      \* the body of the frame the peer means to send
    sent,       \* all it sends, before it closes the connection
    received,   \* how much of that has been received
    result      \* what read_frame has returned or raised

frames == <<meant, sent, received, result>>

EncodeFrame(body) == Prefix(Len(body)) \o <<"\n">> \o body

-----------------------------------------------------------------------------

IsDigit(b) == b # <<>> /\ \A i \in DOMAIN b : b[i] \in Numerals

HasLine(b) == \E i \in DOMAIN b : b[i] = "\n"

LineEnd(b) == CHOOSE i \in DOMAIN b : b[i] = "\n" /\ \A j \in 1 .. i - 1 : b[j] # "\n"

\* Mutant: waits for one byte more than the frame has.
InspectFrameOneMore(buffer) ==
    LET head == SubSeq(buffer, 1, LineEnd(buffer) - 1)
        body == SubSeq(buffer, LineEnd(buffer) + 1, Len(buffer))
    IN  IF ~HasLine(buffer) THEN IF IsDigit(buffer) THEN <<"incomplete">> ELSE <<"not_frame">>
        ELSE IF ~IsDigit(head) THEN <<"not_frame">>
        ELSE IF Len(body) <= PrefixValue(head) THEN <<"incomplete">>
        ELSE <<"complete", SubSeq(body, 1, PrefixValue(head))>>

\* What the head of the bytes received is.  (read_frame asks only when they have a
\* line end.)
InspectFrame(buffer) ==
    LET head == SubSeq(buffer, 1, LineEnd(buffer) - 1)
        body == SubSeq(buffer, LineEnd(buffer) + 1, Len(buffer))
    IN  IF ~HasLine(buffer) THEN IF IsDigit(buffer) THEN <<"incomplete">> ELSE <<"not_frame">>
        ELSE IF ~IsDigit(head) THEN <<"not_frame">>
        ELSE IF PrefixValue(head) > MaxFrameBytes THEN <<"error">>
        ELSE IF Len(body) < PrefixValue(head) THEN <<"incomplete">>
        ELSE <<"complete", SubSeq(body, 1, PrefixValue(head))>>

-----------------------------------------------------------------------------
(* read_frame *)

Reading == <<"reading">>

Buffer(n) == SubSeq(sent, 1, n)

\* Where the loops are when there are n bytes in the buffer: waiting for a line end, or
\* for the rest of the body.
Judged(n) ==
    IF ~HasLine(Buffer(n)) \/ InspectFrame(Buffer(n)) = <<"incomplete">> THEN Reading
    ELSE InspectFrame(Buffer(n))

\* A chunk of n bytes.
Receive(n) ==
    /\ result = Reading
    /\ received + n <= Len(sent)
    /\ received' = received + n
    /\ result' = IF ~HasLine(Buffer(received)) /\ received + n > MaxFrameBytes
                 THEN <<"error">> ELSE Judged(received + n)
    /\ UNCHANGED <<meant, sent>>

\* recv returns nothing.
PeerClosed ==
    /\ result = Reading
    /\ received = Len(sent)
    /\ result' = IF HasLine(Buffer(received)) THEN <<"error">> ELSE <<"closed">>
    /\ UNCHANGED <<meant, sent, received>>

FrameInit ==
    /\ meant \in Seq(Bytes)
    /\ sent \in Seq(Bytes)
    /\ received = 0
    /\ result = Reading

FrameNext == PeerClosed \/ \E n \in 1 .. ChunkBytes : Receive(n)

FrameSpec == FrameInit /\ [][FrameNext]_frames

-----------------------------------------------------------------------------

\* However the network cuts the stream, the receiver gets the body that was meant,
\* with its last byte and not before, whatever follows it; and nothing when a
\* part of it is missing.
FramesSurviveChunking ==
    Len(meant) <= MaxFrameBytes =>
        LET frame == EncodeFrame(meant)
        IN  /\ IsPrefix(frame, sent) =>
                  result = IF received < Len(frame) THEN Reading ELSE <<"complete", meant>>
            /\ IsStrictPrefix(sent, frame) => result[1] # "complete"
=============================================================================
