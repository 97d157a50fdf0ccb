------------------------------- MODULE AgentLog -------------------------------
(***************************************************************************)
(* The end of the agent's log, for the panel: read backwards in blocks     *)
(* (read_log_tail of pc_time_control.py) and cut to what fits in one frame *)
(* (request_dispatcher.py).  A file is a sequence of characters, a line one *)
(* without a line end.  The log does not change while it is read: the file *)
(* only grows, and what is behind the end that was found is not read.      *)
(***************************************************************************)
EXTENDS Kdl

CONSTANT Block      \* bytes read at once

ASSUME BlockAssumption == Block \in Nat \ {0}

\* split(b"\n"): a line end begins the next part, another character goes to the last.
Split(t) ==
    LET parts[k \in 0 .. Len(t)] ==
            IF k = 0 THEN <<<<>>>>
            ELSE LET before == parts[k - 1]
                 IN  IF t[k] = "\n" THEN Append(before, <<>>)
                     ELSE Append(Front(before), Append(Last(before), t[k]))
    IN  parts[Len(t)]

\* The parts of a block, the last one first, behind the lines found so far: empty
\* ones at the end of the file do not count, and one line beyond tail is enough.
AddLines(found, parts, tail) ==
    LET back == Reverse(parts)
        first == CHOOSE k \in 1 .. Len(back) + 1 :
                     /\ k <= Len(back) => found # <<>> \/ back[k] # <<>>
                     /\ \A j \in 1 .. k - 1 : found = <<>> /\ back[j] = <<>>
        lines == found \o From(back, first)
    IN  SubSeq(lines, 1, Min({Len(lines), tail + 1}))

\* Mutant: a line that continues in the block before it is taken for two.
ReadBlockSplittingLines(file, s, tail) ==
    LET start == IF s.remaining > Block THEN s.remaining - Block ELSE 0
        parts == Split(SubSeq(file, start + 1, s.remaining))
    IN  [remaining |-> start, fragment |-> <<>>, found |-> AddLines(s.found, parts, tail)]

\* What is in front of the first line end of a block is only complete with the
\* block before it.
ReadBlock(file, s, tail) ==
    LET start == IF s.remaining > Block THEN s.remaining - Block ELSE 0
        parts == Split(SubSeq(file, start + 1, s.remaining) \o s.fragment)
    IN  IF start > 0
        THEN [remaining |-> start, fragment |-> Head(parts),
              found |-> AddLines(s.found, Tail(parts), tail)]
        ELSE [remaining |-> 0, fragment |-> <<>>, found |-> AddLines(s.found, parts, tail)]

\* The loop, after at most so many blocks.
ReadBack(file, tail) ==
    LET read[k \in 0 .. Len(file)] ==
            IF k = 0 THEN [remaining |-> Len(file), fragment |-> <<>>, found |-> <<>>]
            ELSE LET s == read[k - 1]
                 IN  IF s.remaining = 0 \/ Len(s.found) > tail THEN s
                     ELSE ReadBlock(file, s, tail)
    IN  read

ReadLogTail(file, tail) ==
    LET read == ReadBack(file, tail)[Len(file)]
        more == Len(read.found) > tail
        kept == IF more THEN SubSeq(read.found, 1, tail) ELSE read.found
    IN  [lines |-> Reverse(kept), truncated |-> read.remaining > 0 \/ more]

-----------------------------------------------------------------------------

Text(t) == <<"text", t>>

\* The block that carries the lines.
LogsBlock(path, lines, truncated) ==
    LET leaf(name, args) == [depth |-> 1, name |-> name, args |-> args]
    IN  <<[depth |-> 0, name |-> <<"l">>, args |-> <<>>],
          leaf(<<"p">>, <<Text(path)>>),
          leaf(<<"t">>, <<<<IF truncated THEN "true" ELSE "false">>>>),
          leaf(<<"s">>, [k \in DOMAIN lines |-> Text(lines[k])])>>

\* The rest of the message is always the same.
LogsBlockByteSize(path, lines, truncated) ==
    Len(Serialize(LogsBlock(path, lines, truncated)))

\* The oldest lines are dropped, one by one, until the block fits; the size is kept
\* up to date by what each line costs.
FitLogLinesToFrame(path, log, budget) ==
    LET n == Len(log.lines)
        cost(k) == 1 + Len(FormatValue(Text(log.lines[k])))
        costs[k \in 0 .. n] == IF k = 0 THEN 0 ELSE costs[k - 1] + cost(k)
        cut[drop \in 0 .. n] ==     \* the size after that many lines are dropped
            IF drop = 0 THEN LogsBlockByteSize(path, <<>>, log.truncated) + costs[n]
            ELSE cut[drop - 1] - cost(drop)
                   + IF drop = 1 /\ ~log.truncated
                     THEN LogsBlockByteSize(path, <<>>, TRUE)
                            - LogsBlockByteSize(path, <<>>, FALSE)
                     ELSE 0
        drop == CHOOSE d \in 0 .. n : /\ d = n \/ cut[d] <= budget
                                      /\ \A e \in 0 .. d - 1 : cut[e] > budget
    IN  [lines |-> SubSeq(log.lines, drop + 1, n), truncated |-> log.truncated \/ drop > 0]

\* The answer to get_logs.
DoGetLogs(path, file, tail, budget) ==
    LET log == FitLogLinesToFrame(path, ReadLogTail(file, tail), budget)
    IN  LogsBlock(path, log.lines, log.truncated)
=============================================================================
