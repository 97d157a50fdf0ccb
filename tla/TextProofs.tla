------------------------------ MODULE TextProofs ------------------------------
(***************************************************************************)
(* What is read is what was written, for every message and every text, and *)
(* the answer to get_logs is the end of the log, for every file.           *)
(*                                                                         *)
(* Both go through functions that recur along a text.  That such a         *)
(* function exists, and what holds of all of its values, is proved by      *)
(* induction over a set of numbers, which has a least element.  On the way *)
(* out a message is joined from parts; a part "reads" as its tokens when   *)
(* the tokenizer finds them wherever the part stands, so that parts may be *)
(* joined, and the parser gives back the nodes, from the last one to the   *)
(* first.  The log is read from its end: each block adds the lines before  *)
(* those already found.                                                    *)
(***************************************************************************)
EXTENDS MCFunctions, SequenceTheorems, WellFoundedInduction, TLAPS

-----------------------------------------------------------------------------
(* Induction.  The induction theorems of the library take a predicate, which *)
(* no prover here can instantiate; the least number of a set is enough.      *)

Below == {p \in Nat \X Nat : p[1] < p[2]}

\* There is no endless descent in the natural numbers.
LEMMA NoEndlessDescent == IsWellFoundedOn(Below, Nat)
  <1> SUFFICES ASSUME NEW f \in [Nat -> Nat], \A n \in Nat : <<f[n + 1], f[n]>> \in Below
               PROVE  FALSE
    BY DEF IsWellFoundedOn
  <1> QED BY NatLessThanWellFounded DEF IsWellFoundedOn, OpToRel, Below

\* So every set of them has a least one.
LEMMA LeastNumber ==
    ASSUME NEW T, T \subseteq Nat, T # {}
    PROVE  \E n \in T : \A m \in T : n <= m
  <1>1. PICK n \in T : \A m \in T : ~(<<m, n>> \in Below)
    BY NoEndlessDescent, WFMin
  <1>2. \A m \in T : ~(m < n)
    BY <1>1 DEF Below
  <1> QED BY <1>2

\* What holds of 0 and is handed on holds up to n.
HandedUp(T, n) == 0 \in T /\ \A i \in 1 .. n : i - 1 \in T => i \in T

\* Induction over a set, upwards.
LEMMA Upwards ==
    ASSUME NEW n \in Nat, NEW T, HandedUp(T, n)
    PROVE  \A i \in 0 .. n : i \in T
  <1> SUFFICES ASSUME NEW j \in 0 .. n, j \notin T PROVE FALSE
    OBVIOUS
  <1> DEFINE missing == {i \in 0 .. n : i \notin T}
  <1>1. missing \subseteq Nat /\ missing # {}
    OBVIOUS
  <1>2. PICK m \in missing : \A k \in missing : m <= k
    <2> HIDE DEF missing
    <2> QED BY <1>1, LeastNumber
  <1>3. m # 0 /\ m - 1 \in T
    BY <1>2 DEF HandedUp
  <1> QED BY <1>2, <1>3 DEF HandedUp

\* What holds of n + 1, and of a number when it holds of all behind it, holds from 1 on.
HandedDown(T, n) == \A i \in 1 .. n + 1 : (\A j \in i + 1 .. n + 1 : j \in T) => i \in T

\* Induction over a set, downwards: from what is behind a number to it.
LEMMA Downwards ==
    ASSUME NEW n \in Nat, NEW T, HandedDown(T, n)
    PROVE  \A i \in 1 .. n + 1 : i \in T
  <1> DEFINE U == {k \in 0 .. n + 1 : \A j \in n + 2 - k .. n + 1 : j \in T}
  <1>1. 0 \in U
    OBVIOUS
  <1>2. ASSUME NEW k \in 1 .. n + 1, k - 1 \in U PROVE k \in U
    <2>1. n + 2 - k \in T
      <3>1. \A j \in (n + 2 - k) + 1 .. n + 1 : j \in T
        BY <1>2
      <3> QED BY <3>1 DEF HandedDown
    <2> QED BY <1>2, <2>1
  <1>3. n + 1 \in U
    <2> HIDE DEF U
    <2>1. HandedUp(U, n + 1)
      BY <1>1, <1>2 DEF HandedUp
    <2> QED BY <2>1, Upwards
  <1> QED BY <1>3

\* A function may be defined by recursion from 0 on.
RecursUp(f, n, V, base, g) ==
    f \in [0 .. n -> V] /\ f[0] = base /\ \A i \in 1 .. n : f[i] = g[i][f[i - 1]]

\* There is a function that is defined by recursion from 0 up ...
LEMMA RecursionUp ==
    ASSUME NEW n \in Nat, NEW V, NEW base \in V, NEW g \in [1 .. n -> [V -> V]]
    PROVE  \E f : RecursUp(f, n, V, base, g)
  <1> DEFINE Is(f, m) == f[0] = base /\ \A i \in 1 .. m : f[i] = g[i][f[i - 1]]
             T == {m \in 0 .. n : \E f \in [0 .. m -> V] : Is(f, m)}
  <1>1. 0 \in T
    <2> DEFINE h == [i \in 0 .. 0 |-> base]
    <2>1. h \in [0 .. 0 -> V] /\ Is(h, 0)
      OBVIOUS
    <2> HIDE DEF h, Is
    <2> QED BY <2>1
  <1>2. ASSUME NEW m \in 1 .. n, m - 1 \in T PROVE m \in T
    <2>1. PICK f \in [0 .. m - 1 -> V] : Is(f, m - 1)
      BY <1>2
    <2> DEFINE h == [i \in 0 .. m |-> IF i = m THEN g[m][f[m - 1]] ELSE f[i]]
    <2>2. f[m - 1] \in V
      BY <2>1
    <2>3. g[m][f[m - 1]] \in V
      BY <2>2
    <2>4. h \in [0 .. m -> V]
      BY <2>1, <2>3
    <2>5. h[0] = base
      BY <2>1
    <2>6. ASSUME NEW i \in 1 .. m PROVE h[i] = g[i][h[i - 1]]
      <3>1. h[i - 1] = f[i - 1] /\ h[m] = g[m][f[m - 1]]
        OBVIOUS
      <3>2. CASE i = m
        <4> HIDE DEF h
        <4> QED BY <3>1, <3>2
      <3>3. CASE i # m
        BY <2>1, <3>1, <3>3
      <3> QED BY <3>2, <3>3
    <2>7. Is(h, m)
      BY <2>5, <2>6
    <2> HIDE DEF h, Is
    <2> QED BY <2>4, <2>7
  <1>3. n \in T
    <2> HIDE DEF T
    <2>1. HandedUp(T, n)
      BY <1>1, <1>2 DEF HandedUp
    <2> QED BY <2>1, Upwards
  <1> QED BY <1>3 DEF RecursUp

\* Or from n + 1 backwards, by the value at any number behind.
RecursDown(f, n, V, base, g, next) ==
    /\ f \in [1 .. n + 1 -> V] /\ f[n + 1] = base
    /\ \A i \in 1 .. n : f[i] = g[i][f[next[i]]]

\* ... and one that is defined from the end down, each value from that of a later place.
LEMMA RecursionDown ==
    ASSUME NEW n \in Nat, NEW V, NEW base \in V, NEW g \in [1 .. n -> [V -> V]],
           NEW next \in [1 .. n -> 1 .. n + 1], \A i \in 1 .. n : next[i] > i
    PROVE  \E f : RecursDown(f, n, V, base, g, next)
  <1> DEFINE Is(f, m) == f[n + 1] = base /\ \A i \in n + 1 - m .. n : f[i] = g[i][f[next[i]]]
             T == {m \in 0 .. n : \E f \in [n + 1 - m .. n + 1 -> V] : Is(f, m)}
  <1>1. 0 \in T
    <2> DEFINE h == [i \in n + 1 .. n + 1 |-> base]
    <2>1. h \in [n + 1 - 0 .. n + 1 -> V] /\ Is(h, 0)
      OBVIOUS
    <2> HIDE DEF h, Is
    <2> QED BY <2>1
  <1>2. ASSUME NEW m \in 1 .. n, m - 1 \in T PROVE m \in T
    <2> DEFINE k == n + 1 - m
    <2>1. PICK f \in [k + 1 .. n + 1 -> V] : Is(f, m - 1)
      BY <1>2
    <2>2. k \in 1 .. n /\ next[k] \in k + 1 .. n + 1
      OBVIOUS
    <2> HIDE DEF k
    <2> DEFINE h == [i \in k .. n + 1 |-> IF i = k THEN g[k][f[next[k]]] ELSE f[i]]
    <2>3. f[next[k]] \in V
      BY <2>1, <2>2
    <2>4. g[k][f[next[k]]] \in V
      BY <2>2, <2>3
    <2>5. h \in [k .. n + 1 -> V]
      BY <2>1, <2>2, <2>4
    <2>6. h[n + 1] = base
      BY <2>1, <2>2
    <2>7. ASSUME NEW i \in k .. n PROVE h[i] = g[i][h[next[i]]]
      <3>1. i \in 1 .. n /\ next[i] \in i + 1 .. n + 1
        BY <2>2
      <3>2. h[next[i]] = f[next[i]]
        BY <3>1, <2>2
      <3>3. CASE i = k
        <4>1. h[k] = g[k][f[next[k]]]
          BY <2>2
        <4> HIDE DEF h
        <4> QED BY <3>2, <3>3, <4>1
      <3>4. CASE i # k
        <4>1. f[i] = g[i][f[next[i]]]
          BY <2>1, <2>2, <3>4 DEF k
        <4>2. h[i] = f[i]
          BY <3>4
        <4> HIDE DEF h
        <4> QED BY <3>2, <4>1, <4>2
      <3> QED BY <3>3, <3>4
    <2>8. Is(h, m)
      BY <2>6, <2>7 DEF k
    <2> HIDE DEF h, Is
    <2> QED BY <2>5, <2>8 DEF k
  <1>3. n \in T
    <2> HIDE DEF T
    <2>1. HandedUp(T, n)
      BY <1>1, <1>2 DEF HandedUp
    <2> QED BY <2>1, Upwards
  <1> QED BY <1>3 DEF RecursDown

-----------------------------------------------------------------------------
(* FlattenSeq *)

\* What the definition of FlattenSeq chooses exists.
Flattens(f, s, S) ==
    /\ f \in [0 .. Len(s) -> Seq(S)] /\ f[0] = <<>>
    /\ \A i \in 1 .. Len(s) : f[i] = f[i - 1] \o s[i]
    /\ FlattenSeq(s) = f[Len(s)]

\* What FlattenSeq chooses exists: it has such a function.
LEMMA FlattenDef ==
    ASSUME NEW S, NEW s \in Seq(Seq(S)), s # <<>>
    PROVE  \E f : Flattens(f, s, S)
  <1> DEFINE n == Len(s)
             Is(flat) == flat = [i \in 1 .. n |-> IF i = 1 THEN s[i] ELSE flat[i - 1] \o s[i]]
             flatten == CHOOSE flat : Is(flat)
             g == [i \in 1 .. n |-> [x \in Seq(S) |-> x \o s[i]]]
  <1>1. n \in Nat \ {0} /\ \A i \in 1 .. n : s[i] \in Seq(S)
    OBVIOUS
  <1>2. FlattenSeq(s) = flatten[n]
    BY <1>1 DEF FlattenSeq
  <1> HIDE DEF n
  <1>3. g \in [1 .. n -> [Seq(S) -> Seq(S)]]
    BY <1>1
  <1>4. \A i \in 1 .. n : \A x \in Seq(S) : g[i][x] = x \o s[i]
    OBVIOUS
  <1>5. <<>> \in Seq(S)
    OBVIOUS
  <1> HIDE DEF g
  <1>6. \E f : RecursUp(f, n, Seq(S), <<>>, g)
    BY <1>1, <1>3, <1>5, RecursionUp
  <1>7. PICK f : RecursUp(f, n, Seq(S), <<>>, g)
    BY <1>6
  <1>8. /\ f \in [0 .. n -> Seq(S)] /\ f[0] = <<>>
        /\ \A i \in 1 .. n : f[i - 1] \in Seq(S) /\ f[i] = f[i - 1] \o s[i]
    <2>1. f \in [0 .. n -> Seq(S)] /\ f[0] = <<>> /\ \A i \in 1 .. n : f[i] = g[i][f[i - 1]]
      BY <1>7 DEF RecursUp
    <2>2. ASSUME NEW i \in 1 .. n PROVE f[i - 1] \in Seq(S)
      BY <1>1, <2>1
    <2> QED BY <2>1, <2>2, <1>4
  <1>9. f[1] = s[1]
    <2>1. 1 \in 1 .. n /\ 1 - 1 = 0 /\ s[1] \in Seq(S)
      BY <1>1
    <2>2. f[1] = <<>> \o s[1]
      BY <2>1, <1>8
    <2> QED BY <2>1, <2>2
  <1> DEFINE h == [i \in 1 .. n |-> f[i]]
  <1>10. Is(h)
    <2>1. ASSUME NEW i \in 1 .. n
          PROVE  f[i] = IF i = 1 THEN s[i] ELSE h[i - 1] \o s[i]
      <3>1. CASE i = 1
        BY <1>9, <3>1
      <3>2. CASE i # 1
        <4>1. h[i - 1] = f[i - 1]
          BY <1>1, <3>2
        <4> HIDE DEF h
        <4> QED BY <4>1, <3>2, <1>8
      <3> QED BY <3>1, <3>2
    <2>2. [i \in 1 .. n |-> f[i]] = [i \in 1 .. n |-> IF i = 1 THEN s[i] ELSE h[i - 1] \o s[i]]
      <3> HIDE DEF h
      <3> QED BY <2>1
    <2> QED BY <2>2
  <1>11. Is(flatten)
    <2> HIDE DEF h, Is
    <2> QED BY <1>10
  <1> HIDE DEF flatten
  <1>12. \A i \in 1 .. n : flatten[i] = IF i = 1 THEN s[i] ELSE flatten[i - 1] \o s[i]
    BY <1>11
  <1> HIDE DEF Is
  <1>13. flatten[n] = f[n]
    <2> DEFINE T == {j \in 0 .. n : j = 0 \/ flatten[j] = f[j]}
    <2>1. 0 \in T
      BY <1>1
    <2>2. ASSUME NEW j \in 1 .. n, j - 1 \in T PROVE j \in T
      <3>1. CASE j = 1
        BY <1>1, <1>9, <1>12, <3>1
      <3>2. CASE j # 1
        <4>1. flatten[j - 1] = f[j - 1]
          BY <2>2, <3>2
        <4>2. flatten[j] = f[j]
          BY <1>8, <1>12, <3>2, <4>1
        <4> QED BY <4>2
      <3> QED BY <3>1, <3>2
    <2>3. n \in T
      <3> HIDE DEF T
      <3>1. HandedUp(T, n)
        BY <2>1, <2>2 DEF HandedUp
      <3> QED BY <1>1, <3>1, Upwards
    <2> QED BY <1>1, <2>3
  <1> QED BY <1>2, <1>8, <1>13 DEF n, Flattens

\* Of no sequences there is nothing.
LEMMA FlattenNothing == FlattenSeq(<<>>) = <<>>
  BY DEF FlattenSeq

\* The elements are those of the sequences.
LEMMA FlattenType ==
    ASSUME NEW S, NEW s \in Seq(Seq(S))
    PROVE  FlattenSeq(s) \in Seq(S)
  <1>1. CASE s = <<>>
    <2>1. <<>> \in Seq(S)
      OBVIOUS
    <2> QED BY <1>1, <2>1, FlattenNothing
  <1>2. CASE s # <<>>
    <2>1. PICK f : Flattens(f, s, S)
      BY <1>2, FlattenDef
    <2>2. Len(s) \in 0 .. Len(s)
      OBVIOUS
    <2> QED BY <2>1, <2>2 DEF Flattens
  <1> QED BY <1>1, <1>2

\* The beginnings of a sequence of sequences, flattened one by one.
LEMMA FlattenSteps ==
    ASSUME NEW S, NEW s \in Seq(Seq(S)),
           NEW f, f \in [0 .. Len(s) -> Seq(S)], f[0] = <<>>,
           \A i \in 1 .. Len(s) : f[i] = f[i - 1] \o s[i]
    PROVE  FlattenSeq(s) = f[Len(s)]
  <1>1. CASE s = <<>>
    BY <1>1, FlattenNothing
  <1>2. CASE s # <<>>
    <2>1. PICK h : Flattens(h, s, S)
      BY <1>2, FlattenDef
    <2> DEFINE T == {i \in 0 .. Len(s) : f[i] = h[i]}
    <2>2. 0 \in T
      BY <2>1 DEF Flattens
    <2>3. ASSUME NEW i \in 1 .. Len(s), i - 1 \in T PROVE i \in T
      <3>1. h[i] = h[i - 1] \o s[i] /\ f[i - 1] = h[i - 1]
        BY <2>1, <2>3 DEF Flattens
      <3>2. f[i] = h[i]
        BY <3>1
      <3> QED BY <3>2
    <2>4. Len(s) \in T
      <3> HIDE DEF T
      <3>1. HandedUp(T, Len(s))
        BY <2>2, <2>3 DEF HandedUp
      <3> QED BY <3>1, Upwards
    <2> QED BY <2>1, <2>4 DEF Flattens
  <1> QED BY <1>1, <1>2

\* One more sequence at the end.
LEMMA FlattenAppend ==
    ASSUME NEW S, NEW s \in Seq(Seq(S)), NEW x \in Seq(S)
    PROVE  FlattenSeq(Append(s, x)) = FlattenSeq(s) \o x
  <1> DEFINE t == Append(s, x)
             n == Len(s)
  <1>1. /\ t \in Seq(Seq(S)) /\ t # <<>> /\ Len(t) = n + 1 /\ n \in Nat
        /\ t[n + 1] = x /\ \A i \in 1 .. n : t[i] = s[i]
    BY AppendProperties
  <1> HIDE DEF t
  <1> PICK f : Flattens(f, t, S)
    BY <1>1, FlattenDef
  <1>2. /\ f \in [0 .. n + 1 -> Seq(S)] /\ f[0] = <<>>
        /\ \A i \in 1 .. n + 1 : f[i] = f[i - 1] \o t[i]
        /\ FlattenSeq(t) = f[n + 1]
    BY <1>1 DEF Flattens
  <1>3. FlattenSeq(t) = f[n] \o x
    <2>1. n + 1 \in 1 .. n + 1 /\ (n + 1) - 1 = n
      BY <1>1
    <2>2. f[n + 1] = f[(n + 1) - 1] \o t[n + 1]
      BY <1>2, <2>1
    <2> QED BY <1>1, <1>2, <2>1, <2>2
  <1>4. FlattenSeq(s) = f[n]
    <2> DEFINE h == [i \in 0 .. n |-> f[i]]
    <2>1. h \in [0 .. n -> Seq(S)] /\ h[0] = <<>> /\ h[n] = f[n]
      BY <1>1, <1>2
    <2>2. ASSUME NEW i \in 1 .. n PROVE h[i] = h[i - 1] \o s[i]
      <3>1. h[i] = f[i] /\ h[i - 1] = f[i - 1]
        OBVIOUS
      <3>2. f[i] = f[i - 1] \o t[i] /\ t[i] = s[i]
        <4>1. i \in 1 .. n + 1
          BY <1>1
        <4> QED BY <1>1, <1>2, <4>1
      <3> QED BY <3>1, <3>2
    <2> HIDE DEF h
    <2> QED BY <2>1, <2>2, FlattenSteps
  <1> QED BY <1>3, <1>4 DEF t

\* One more sequence in front.
LEMMA FlattenCons ==
    ASSUME NEW S, NEW s \in Seq(Seq(S)), NEW x \in Seq(S)
    PROVE  FlattenSeq(<<x>> \o s) = x \o FlattenSeq(s)
  <1> DEFINE t == <<x>> \o s
             n == Len(s)
  <1>1. /\ t \in Seq(Seq(S)) /\ t # <<>> /\ Len(t) = n + 1 /\ n \in Nat
        /\ t[1] = x /\ \A i \in 1 .. n : t[i + 1] = s[i] /\ s[i] \in Seq(S)
    <2>1. /\ <<x>> \in Seq(Seq(S)) /\ Len(<<x>>) = 1 /\ <<x>>[1] = x
          /\ n \in Nat /\ \A i \in 1 .. n : s[i] \in Seq(S)
      OBVIOUS
    <2>2. /\ t \in Seq(Seq(S)) /\ Len(t) = 1 + n
          /\ \A i \in 1 .. 1 + n : t[i] = IF i <= 1 THEN <<x>>[i] ELSE s[i - 1]
      BY <2>1, ConcatProperties
    <2> HIDE DEF t
    <2>3. ASSUME NEW i \in 1 .. n PROVE t[i + 1] = s[i]
      <3>1. i + 1 \in 1 .. 1 + n /\ ~(i + 1 <= 1) /\ (i + 1) - 1 = i
        BY <2>1
      <3> QED BY <2>2, <3>1
    <2>4. t # <<>> /\ t[1] = x
      BY <2>1, <2>2
    <2> QED BY <2>1, <2>2, <2>3, <2>4
  <1> HIDE DEF t
  <1>2. CASE s = <<>>
    <2>1. /\ [i \in 0 .. 1 |-> IF i = 0 THEN <<>> ELSE x] \in [0 .. 1 -> Seq(S)]
          /\ x = <<>> \o x
      OBVIOUS
    <2>2. Len(t) = 1
      BY <1>1, <1>2
    <2>3. FlattenSeq(t) = x
      <3> DEFINE f == [i \in 0 .. 1 |-> IF i = 0 THEN <<>> ELSE x]
      <3>1. /\ f \in [0 .. Len(t) -> Seq(S)] /\ f[0] = <<>> /\ f[1] = x
            /\ \A i \in 1 .. Len(t) : f[i] = f[i - 1] \o t[i]
        <4>1. f \in [0 .. Len(t) -> Seq(S)] /\ f[0] = <<>> /\ f[1] = x
          BY <2>1, <2>2
        <4>2. ASSUME NEW i \in 1 .. Len(t) PROVE f[i] = f[i - 1] \o t[i]
          <5>1. i = 1 /\ i - 1 = 0
            BY <2>2
          <5> HIDE DEF f
          <5> QED BY <1>1, <2>1, <4>1, <5>1
        <4> QED BY <4>1, <4>2
      <3> HIDE DEF f
      <3>2. FlattenSeq(t) = f[Len(t)]
        BY <1>1, <3>1, FlattenSteps
      <3> QED BY <2>2, <3>1, <3>2
    <2>4. x = x \o <<>>
      OBVIOUS
    <2> QED BY <1>2, <2>3, <2>4, FlattenNothing DEF t
  <1>3. CASE s # <<>>
    <2> PICK h : Flattens(h, s, S)
      BY <1>3, FlattenDef
    <2>1. /\ h \in [0 .. n -> Seq(S)] /\ h[0] = <<>>
          /\ \A i \in 1 .. n : h[i] = h[i - 1] \o s[i]
          /\ FlattenSeq(s) = h[n]
      BY DEF Flattens
    <2> DEFINE f == [i \in 0 .. n + 1 |-> IF i = 0 THEN <<>> ELSE x \o h[i - 1]]
    <2>2. \A i \in 0 .. n : h[i] \in Seq(S) /\ x \o h[i] \in Seq(S)
      BY <1>1, <2>1
    <2>3. f \in [0 .. n + 1 -> Seq(S)] /\ f[0] = <<>> /\ f[n + 1] = x \o h[n]
      <3>1. \A i \in 0 .. n + 1 : (IF i = 0 THEN <<>> ELSE x \o h[i - 1]) \in Seq(S)
        BY <1>1, <2>2
      <3> QED BY <1>1, <3>1
    <2>4. ASSUME NEW i \in 1 .. n + 1 PROVE f[i] = f[i - 1] \o t[i]
      <3>1. CASE i = 1
        <4>1. f[1] = x \o <<>> /\ f[0] = <<>>
          BY <1>1, <2>1
        <4>2. x \o <<>> = <<>> \o x
          BY ConcatEmptySeq
        <4> HIDE DEF f
        <4> QED BY <4>1, <4>2, <3>1, <1>1, SMTT(20)
      <3>2. CASE i # 1
        <4>1. /\ i - 1 \in 1 .. n /\ i - 2 \in 0 .. n
              /\ (i - 1) - 1 = i - 2 /\ (i - 1) + 1 = i
          <5> HIDE DEF n, f
          <5> QED BY <1>1, <3>2
        <4>2. f[i] = x \o h[i - 1] /\ f[i - 1] = x \o h[i - 2]
          <5>1. /\ i \in 0 .. n + 1 /\ i # 0
                /\ i - 1 \in 0 .. n + 1 /\ i - 1 # 0
            BY <1>1, <4>1
          <5>2. f[i] = x \o h[i - 1] /\ f[i - 1] = x \o h[(i - 1) - 1]
            BY <5>1
          <5> HIDE DEF f
          <5> QED BY <4>1, <5>2
        <4>3. h[i - 1] = h[i - 2] \o s[i - 1]
          BY <2>1, <4>1
        <4>4. t[i] = s[i - 1] /\ s[i - 1] \in Seq(S)
          <5> HIDE DEF n, f
          <5> QED BY <1>1, <4>1
        <4>5. (x \o h[i - 2]) \o s[i - 1] = x \o (h[i - 2] \o s[i - 1])
          <5>1. h[i - 2] \in Seq(S)
            BY <2>2, <4>1
          <5>2. \A a, b \in Seq(S) : (x \o a) \o b = x \o (a \o b)
            BY ConcatAssociative, SMTT(20)
          <5> HIDE DEF f, n
          <5> QED BY <4>4, <5>1, <5>2
        <4> HIDE DEF f
        <4> QED BY <4>2, <4>3, <4>4, <4>5, SMTT(20)
      <3> QED BY <3>1, <3>2
    <2> HIDE DEF f
    <2>5. FlattenSeq(t) = f[Len(t)]
      BY <1>1, <2>3, <2>4, FlattenSteps
    <2> QED BY <1>1, <2>1, <2>3, <2>5 DEF t
  <1> QED BY <1>2, <1>3

-----------------------------------------------------------------------------
(* Split *)

\* A text is any sequence of characters.
LEMMA TextsAre == AnyString = Seq(AnyCharacter)
  BY DEF AnyString

Parts == Seq(AnyString) \ {<<>>}

\* What one more character does to the parts.
Grown(parts, c) ==
    IF c = "\n" THEN Append(parts, <<>>)
    ELSE Append(Front(parts), Append(Last(parts), c))

\* What is appended to the second of two sequences is appended to both.
LEMMA AppendConcat ==
    ASSUME NEW S, NEW a \in Seq(S), NEW b \in Seq(S), NEW c \in S
    PROVE  a \o Append(b, c) = Append(a \o b, c)
  OBVIOUS

\* The same of texts, which stay texts.
LEMMA TextAppend ==
    ASSUME NEW a \in AnyString, NEW b \in AnyString, NEW c \in AnyCharacter
    PROVE  /\ Append(b, c) \in AnyString /\ a \o b \in AnyString
           /\ a \o Append(b, c) = Append(a \o b, c)
  <1>1. a \in Seq(AnyCharacter) /\ b \in Seq(AnyCharacter)
    BY TextsAre
  <1>2. Append(b, c) \in Seq(AnyCharacter) /\ a \o b \in Seq(AnyCharacter)
    BY <1>1, AppendProperties, ConcatProperties
  <1>3. a \o Append(b, c) = Append(a \o b, c)
    BY <1>1, AppendConcat
  <1> QED BY <1>2, <1>3, TextsAre

\* The first element and the others.
LEMMA HeadAndTail ==
    ASSUME NEW S, NEW s \in Seq(S), NEW x
    PROVE  Head(<<x>> \o s) = x /\ Tail(<<x>> \o s) = s
  <1> DEFINE T == S \cup {x}
  <1>1. /\ <<x>> \in Seq(T) /\ s \in Seq(T)
        /\ Len(<<x>>) = 1 /\ <<x>>[1] = x
    OBVIOUS
  <1> QED BY <1>1

\* The last element and the others.
LEMMA FrontAndLast ==
    ASSUME NEW S, NEW s \in Seq(S), s # <<>>
    PROVE  /\ Front(s) \in Seq(S) /\ Len(Front(s)) = Len(s) - 1
           /\ Last(s) = s[Len(s)] /\ Last(s) \in S
           /\ \A i \in 1 .. Len(s) - 1 : Front(s)[i] = s[i]
  <1>1. Len(s) \in Nat \ {0} /\ \A i \in 1 .. Len(s) : s[i] \in S
    OBVIOUS
  <1>2. /\ Front(s) \in Seq(S) /\ Len(Front(s)) = Len(s) - 1
        /\ \A i \in 1 .. Len(s) - 1 : Front(s)[i] = s[i]
    <2> DEFINE m == Len(s) - 1
    <2>1. 1 \in Int /\ m \in Int /\ m >= 0 /\ \A i \in 1 .. m : s[i] \in S
      BY <1>1
    <2> HIDE DEF m
    <2>2. /\ SubSeq(s, 1, m) \in Seq(S)
          /\ Len(SubSeq(s, 1, m)) = IF 1 <= m THEN m - 1 + 1 ELSE 0
          /\ \A i \in 1 .. m - 1 + 1 : SubSeq(s, 1, m)[i] = s[1 + i - 1]
      BY <2>1, SubSeqProperties
    <2>3. /\ Len(SubSeq(s, 1, m)) = m
          /\ \A i \in 1 .. m : SubSeq(s, 1, m)[i] = s[i]
      BY <2>1, <2>2
    <2> QED BY <2>2, <2>3 DEF Front, m
  <1> QED BY <1>1, <1>2 DEF Last

\* One character more leaves at least one part.
LEMMA GrownType ==
    ASSUME NEW parts \in Parts, NEW c \in AnyCharacter
    PROVE  Grown(parts, c) \in Parts
  <1>1. CASE c = "\n"
    <2>1. <<>> \in AnyString
      BY TextsAre
    <2> QED BY <1>1, <2>1, AppendProperties DEF Grown, Parts
  <1>2. CASE c # "\n"
    <2>1. Front(parts) \in Seq(AnyString) /\ Last(parts) \in AnyString
      BY FrontAndLast DEF Parts
    <2>2. Append(Last(parts), c) \in AnyString
      BY <2>1, AppendProperties, TextsAre
    <2> QED BY <1>2, <2>1, <2>2, AppendProperties DEF Grown, Parts
  <1> QED BY <1>1, <1>2

\* What the definition of Split chooses.
Splits(f, t) ==
    /\ f \in [0 .. Len(t) -> Parts] /\ f[0] = <<<<>>>>
    /\ \A k \in 1 .. Len(t) : f[k] = Grown(f[k - 1], t[k])

\* What Split chooses exists.
LEMMA SplitDef ==
    ASSUME NEW t \in AnyString
    PROVE  \E f : Splits(f, t) /\ Split(t) = f[Len(t)]
  <1> DEFINE n == Len(t)
             Is(f) == f = [k \in 0 .. n |->
                              IF k = 0 THEN <<<<>>>>
                              ELSE IF t[k] = "\n" THEN Append(f[k - 1], <<>>)
                                   ELSE Append(Front(f[k - 1]), Append(Last(f[k - 1]), t[k]))]
             split == CHOOSE f : Is(f)
             g == [k \in 1 .. n |-> [P \in Parts |-> Grown(P, t[k])]]
  <1>1. n \in Nat /\ \A k \in 1 .. n : t[k] \in AnyCharacter
    BY TextsAre
  <1>2. Split(t) = split[n]
    BY DEF Split
  <1> HIDE DEF n
  <1>3. g \in [1 .. n -> [Parts -> Parts]]
    BY <1>1, GrownType
  <1>4. \A k \in 1 .. n : \A P \in Parts : g[k][P] = Grown(P, t[k])
    OBVIOUS
  <1>5. <<<<>>>> \in Parts
    BY TextsAre DEF Parts
  <1> HIDE DEF g
  <1>6. \E f : RecursUp(f, n, Parts, <<<<>>>>, g)
    BY <1>1, <1>3, <1>5, RecursionUp
  <1>7. PICK f : RecursUp(f, n, Parts, <<<<>>>>, g)
    BY <1>6
  <1>8. f \in [0 .. n -> Parts] /\ f[0] = <<<<>>>>
    BY <1>7 DEF RecursUp
  <1>9. ASSUME NEW k \in 1 .. n PROVE f[k - 1] \in Parts /\ f[k] = Grown(f[k - 1], t[k])
    <2>1. f[k] = g[k][f[k - 1]]
      BY <1>7 DEF RecursUp
    <2>2. k - 1 \in 0 .. n
      BY <1>1
    <2> QED BY <1>4, <1>8, <2>1, <2>2
  <1>10. Is(f)
    <2>1. ASSUME NEW k \in 0 .. n
          PROVE  f[k] = IF k = 0 THEN <<<<>>>>
                        ELSE IF t[k] = "\n" THEN Append(f[k - 1], <<>>)
                             ELSE Append(Front(f[k - 1]), Append(Last(f[k - 1]), t[k]))
      <3>1. CASE k = 0
        BY <1>8, <3>1
      <3>2. CASE k # 0
        <4>1. k \in 1 .. n
          BY <1>1, <3>2
        <4> QED BY <1>9, <3>2, <4>1 DEF Grown
      <3> QED BY <3>1, <3>2
    <2>2. f = [k \in 0 .. n |-> f[k]]
      BY <1>8
    <2> QED BY <2>1, <2>2
  <1>11. Is(split)
    <2> HIDE DEF Is
    <2> QED BY <1>10
  <1> HIDE DEF split
  <1>12. split[0] = <<<<>>>> /\ \A k \in 1 .. n : split[k] = Grown(split[k - 1], t[k])
    <2>1. 0 \in 0 .. n /\ \A k \in 1 .. n : k \in 0 .. n /\ k # 0
      BY <1>1
    <2> QED BY <1>11, <2>1 DEF Grown
  <1> HIDE DEF Is
  <1>13. split[n] = f[n]
    <2> DEFINE T == {k \in 0 .. n : split[k] = f[k]}
    <2>1. 0 \in T
      <3>1. split[0] = f[0]
        BY <1>8, <1>12
      <3> QED BY <1>1, <3>1
    <2>2. ASSUME NEW k \in 1 .. n, k - 1 \in T PROVE k \in T
      <3>1. split[k - 1] = f[k - 1]
        BY <2>2
      <3>2. split[k] = f[k]
        BY <1>9, <1>12, <3>1
      <3> QED BY <3>2
    <2>3. n \in T
      <3> HIDE DEF T
      <3>1. HandedUp(T, n)
        BY <2>1, <2>2 DEF HandedUp
      <3> QED BY <1>1, <3>1, Upwards
    <2> QED BY <2>3
  <1>14. Splits(f, t)
    BY <1>8, <1>9 DEF Splits, n
  <1> QED BY <1>2, <1>13, <1>14 DEF n

\* There is always a part, and the parts are texts.
LEMMA SplitType ==
    ASSUME NEW t \in AnyString
    PROVE  Split(t) \in Parts
  <1>1. PICK f : Splits(f, t) /\ Split(t) = f[Len(t)]
    BY SplitDef
  <1>2. Len(t) \in 0 .. Len(t)
    BY TextsAre
  <1> QED BY <1>1, <1>2 DEF Splits

\* An empty text has one part, which is empty.
LEMMA SplitNothing == Split(<<>>) = <<<<>>>>
  <1>1. <<>> \in AnyString /\ Len(<<>>) = 0
    BY TextsAre
  <1> QED BY <1>1, SplitDef DEF Splits

\* Split takes its text character by character.
LEMMA SplitAppend ==
    ASSUME NEW t \in AnyString, NEW c \in AnyCharacter
    PROVE  Split(Append(t, c)) = Grown(Split(t), c)
  <1> DEFINE u == Append(t, c)
             n == Len(t)
  <1>1. /\ u \in AnyString /\ Len(u) = n + 1 /\ n \in Nat
        /\ u[n + 1] = c /\ \A i \in 1 .. n : u[i] = t[i]
    <2>1. n \in Nat /\ t \in Seq(AnyCharacter)
      BY TextsAre
    <2>2. /\ u \in Seq(AnyCharacter) /\ Len(u) = n + 1
          /\ \A i \in 1 .. n : u[i] = t[i]
          /\ u[n + 1] = c
      BY <2>1, AppendProperties
    <2> QED BY <2>1, <2>2, TextsAre
  <1> HIDE DEF u
  <1>2. PICK f : Splits(f, u) /\ Split(u) = f[n + 1]
    BY <1>1, SplitDef
  <1>3. PICK h : Splits(h, t) /\ Split(t) = h[n]
    BY SplitDef
  <1> DEFINE T == {k \in 0 .. n : f[k] = h[k]}
  <1>4. 0 \in T
    <2>1. f[0] = <<<<>>>> /\ h[0] = <<<<>>>>
      BY <1>2, <1>3 DEF Splits
    <2> QED BY <1>1, <2>1
  <1>5. ASSUME NEW k \in 1 .. n, k - 1 \in T PROVE k \in T
    <2>1. k \in 1 .. n + 1 /\ u[k] = t[k]
      BY <1>1
    <2>2. f[k] = Grown(f[k - 1], u[k]) /\ h[k] = Grown(h[k - 1], t[k])
      BY <1>1, <1>2, <1>3, <2>1 DEF Splits
    <2>3. f[k] = h[k]
      BY <1>5, <2>1, <2>2
    <2> QED BY <2>3
  <1>6. n \in T
    <2> HIDE DEF T
    <2>1. HandedUp(T, n)
      BY <1>4, <1>5 DEF HandedUp
    <2> QED BY <1>1, <2>1, Upwards
  <1>7. f[n + 1] = Grown(f[n], c)
    <2>1. n + 1 \in 1 .. n + 1 /\ (n + 1) - 1 = n
      BY <1>1
    <2>2. f[n + 1] = Grown(f[(n + 1) - 1], u[n + 1])
      BY <1>1, <1>2, <2>1 DEF Splits
    <2> QED BY <1>1, <2>1, <2>2
  <1> QED BY <1>2, <1>3, <1>6, <1>7 DEF u

\* What is put in front of a text only goes to the first of its parts.
LEMMA GrownBehind ==
    ASSUME NEW p \in Parts, NEW q \in Parts, NEW c \in AnyCharacter
    PROVE  Grown(p \o q, c) = p \o Grown(q, c)
  <1>0. p \in Seq(AnyString) /\ q \in Seq(AnyString) /\ q # <<>>
    BY DEF Parts
  <1>1. CASE c = "\n"
    <2>1. <<>> \in AnyString
      BY TextsAre
    <2>2. Append(p \o q, <<>>) = p \o Append(q, <<>>)
      BY <1>0, <2>1
    <2> QED BY <1>1, <2>2 DEF Grown
  <1>2. CASE c # "\n"
    <2>1. p \o q # <<>> /\ p \o q \in Seq(AnyString)
      BY <1>0
    <2>2. Last(p \o q) = Last(q) /\ Last(q) \in AnyString
      <3>1. Last(p \o q) = (p \o q)[Len(p \o q)] /\ Last(q) = q[Len(q)] /\ Last(q) \in AnyString
        BY <1>0, <2>1, FrontAndLast
      <3> QED BY <1>0, <3>1
    <2>3. Front(p \o q) = p \o Front(q) /\ Front(q) \in Seq(AnyString)
      <3>1. /\ Front(q) \in Seq(AnyString) /\ Len(Front(q)) = Len(q) - 1
            /\ \A i \in 1 .. Len(q) - 1 : Front(q)[i] = q[i]
        BY <1>0, FrontAndLast
      <3>2. /\ Front(p \o q) \in Seq(AnyString) /\ Len(Front(p \o q)) = Len(p \o q) - 1
            /\ \A i \in 1 .. Len(p \o q) - 1 : Front(p \o q)[i] = (p \o q)[i]
        BY <2>1, FrontAndLast
      <3>3. /\ Len(p) \in Nat /\ Len(q) \in Nat \ {0} /\ Len(p \o q) = Len(p) + Len(q)
            /\ \A i \in 1 .. Len(p) + Len(q) :
                  (p \o q)[i] = IF i <= Len(p) THEN p[i] ELSE q[i - Len(p)]
        BY <1>0, ConcatProperties
      <3>4. /\ p \o Front(q) \in Seq(AnyString) /\ Len(p \o Front(q)) = Len(p) + Len(Front(q))
            /\ \A i \in 1 .. Len(p) + Len(Front(q)) :
                  (p \o Front(q))[i] = IF i <= Len(p) THEN p[i] ELSE Front(q)[i - Len(p)]
        BY <1>0, <3>1, ConcatProperties
      <3>5. Len(Front(p \o q)) = Len(p \o Front(q))
        BY <3>1, <3>2, <3>3, <3>4
      <3>6. ASSUME NEW i \in 1 .. Len(Front(p \o q)) PROVE Front(p \o q)[i] = (p \o Front(q))[i]
        <4>1. /\ i \in 1 .. Len(p) + Len(q) - 1 /\ i \in 1 .. Len(p) + Len(Front(q))
              /\ i \in 1 .. Len(p) + Len(q)
          BY <3>1, <3>2, <3>3
        <4>2. CASE i <= Len(p)
          BY <3>2, <3>3, <3>4, <4>1, <4>2
        <4>3. CASE i > Len(p)
          <5>1. i - Len(p) \in 1 .. Len(q) - 1
            BY <3>3, <4>1, <4>3
          <5>2. Front(p \o q)[i] = q[i - Len(p)]
            BY <3>2, <3>3, <4>1, <4>3
          <5>3. (p \o Front(q))[i] = Front(q)[i - Len(p)]
            BY <3>1, <3>3, <3>4, <4>1, <4>3
          <5> QED BY <3>1, <5>1, <5>2, <5>3
        <4>4. i <= Len(p) \/ i > Len(p)
          BY <3>3, <4>1
        <4> QED BY <4>2, <4>3, <4>4
      <3>7. Front(p \o q) = p \o Front(q)
        BY <3>2, <3>4, <3>5, <3>6, SeqEqual
      <3> QED BY <3>1, <3>7
    <2>4. Append(Last(q), c) \in AnyString
      BY <2>2, AppendProperties, TextsAre
    <2>5. Append(p \o Front(q), Append(Last(q), c)) = p \o Append(Front(q), Append(Last(q), c))
      <3>1. \A a, b \in Seq(AnyString), x \in AnyString : Append(a \o b, x) = a \o Append(b, x)
        OBVIOUS
      <3> QED BY <1>0, <2>3, <2>4, <3>1
    <2> QED BY <1>2, <2>2, <2>3, <2>5 DEF Grown
  <1> QED BY <1>1, <1>2

\* What is put in front of a text only goes to the first of its parts.
OnlyTheFirst(pre, x) ==
    Split(pre \o x) = Split(pre \o Head(Split(x))) \o Tail(Split(x))

\* What comes before a text only changes its first part: a block's other parts are whole lines.
LEMMA SplitOfConcat ==
    ASSUME NEW pre \in AnyString, NEW x \in AnyString
    PROVE  /\ Split(x) \in Parts /\ Head(Split(x)) \in AnyString /\ Tail(Split(x)) \in Seq(AnyString)
           /\ Split(pre \o x) = Split(pre \o Head(Split(x))) \o Tail(Split(x))
  <1> DEFINE first(i) == SubSeq(x, 1, i)
             T == {i \in 0 .. Len(x) : OnlyTheFirst(pre, SubSeq(x, 1, i))}
             n == Len(x)
  <1>1. n \in Nat /\ \A i \in 1 .. n : x[i] \in AnyCharacter
    BY TextsAre
  <1>2. \A i \in 0 .. n : first(i) \in AnyString
    BY <1>1, TextsAre
  <1>3. 0 \in T
    <2>1. first(0) = <<>> /\ Split(<<>>) = <<<<>>>>
      BY SplitNothing
    <2>2. Head(<<<<>>>>) = <<>> /\ Tail(<<<<>>>>) = <<>>
      OBVIOUS
    <2>3. pre \o <<>> = pre
      BY TextsAre
    <2>4. Split(pre) \o <<>> = Split(pre)
      <3>1. Split(pre) \in Seq(AnyString)
        BY SplitType DEF Parts
      <3> QED BY <3>1, ConcatEmptySeq
    <2>5. OnlyTheFirst(pre, SubSeq(x, 1, 0))
      <3> HIDE DEF first
      <3> QED BY <2>1, <2>2, <2>3, <2>4 DEF OnlyTheFirst, first
    <2> QED BY <1>1, <2>5
  <1>4. ASSUME NEW i \in 1 .. n, i - 1 \in T PROVE i \in T
    <2> DEFINE y == first(i - 1)
               c == x[i]
               h == Head(Split(y))
               tl == Tail(Split(y))
    <2>1. y \in AnyString /\ c \in AnyCharacter /\ first(i) = Append(y, c)
      <3>1. y \in AnyString /\ c \in AnyCharacter
        BY <1>1, <1>2
      <3>2. first(i) = Append(y, c)
        BY <1>1, TextsAre
      <3> QED BY <3>1, <3>2
    <2>2. Split(pre \o y) = Split(pre \o h) \o tl
      BY <1>4 DEF OnlyTheFirst
    <2> HIDE DEF first, y, c
    <2>3. Split(y) \in Parts
      BY <2>1, SplitType
    <2>4. h \in AnyString /\ tl \in Seq(AnyString) /\ Split(y) = <<h>> \o tl
      BY <2>3 DEF Parts
    <2> HIDE DEF h, tl
    <2>5. pre \o y \in AnyString /\ pre \o h \in AnyString
      BY <2>1, <2>4, ConcatProperties, TextsAre
    <2>6. Split(pre \o first(i)) = Grown(Split(pre \o y), c)
      <3>1. pre \o Append(y, c) = Append(pre \o y, c)
        BY <2>1, TextAppend
      <3> QED BY <2>1, <2>5, <3>1, SplitAppend
    <2>7. Split(first(i)) = Grown(<<h>> \o tl, c)
      BY <2>1, <2>4, SplitAppend
    <2>8. Split(pre \o h) \in Parts /\ <<h>> \in Parts
      BY <2>4, <2>5, SplitType DEF Parts
    <2>9. Split(pre \o first(i))
             = Split(pre \o Head(Split(first(i)))) \o Tail(Split(first(i)))
      <3>1. CASE tl = <<>> /\ c = "\n"
        <4>1. <<h>> \o tl = <<h>> /\ Grown(<<h>>, c) = <<h>> \o <<<<>>>>
          <5>1. <<h>> \o tl = <<h>>
            BY <2>8, <3>1, ConcatEmptySeq DEF Parts
          <5>2. Append(<<h>>, <<>>) = <<h>> \o <<<<>>>>
            BY AppendIsConcat
          <5> QED BY <3>1, <5>1, <5>2 DEF Grown
        <4>2. Head(<<h>> \o <<<<>>>>) = h /\ Tail(<<h>> \o <<<<>>>>) = <<<<>>>>
          <5>1. <<<<>>>> \in Seq({<<>>})
            OBVIOUS
          <5> QED BY <5>1, HeadAndTail
        <4>3. Split(pre \o h) \o tl = Split(pre \o h)
          BY <2>8, <3>1, ConcatEmptySeq DEF Parts
        <4>4. Grown(Split(pre \o h), c) = Split(pre \o h) \o <<<<>>>>
          <5>1. <<>> \in AnyString
            BY TextsAre
          <5> QED BY <2>8, <3>1, <5>1, AppendIsConcat DEF Grown, Parts
        <4> QED BY <2>2, <2>6, <2>7, <4>1, <4>2, <4>3, <4>4
      <3>2. CASE tl = <<>> /\ c # "\n"
        <4>1. <<h>> \o tl = <<h>> /\ Grown(<<h>>, c) = <<Append(h, c)>>
          <5>1. <<h>> \o tl = <<h>>
            BY <2>8, <3>2, ConcatEmptySeq DEF Parts
          <5>2. Front(<<h>>) = <<>> /\ Last(<<h>>) = h
            BY DEF Front, Last
          <5>3. Append(<<>>, Append(h, c)) = <<Append(h, c)>>
            OBVIOUS
          <5> QED BY <3>2, <5>1, <5>2, <5>3 DEF Grown
        <4>2. Head(<<Append(h, c)>>) = Append(h, c) /\ Tail(<<Append(h, c)>>) = <<>>
          OBVIOUS
        <4>3. Split(pre \o h) \o tl = Split(pre \o h)
          BY <2>8, <3>2, ConcatEmptySeq DEF Parts
        <4>4. Grown(Split(pre \o h), c) = Split(pre \o Append(h, c))
          <5>1. pre \o Append(h, c) = Append(pre \o h, c)
            BY <2>1, <2>4, TextAppend
          <5> QED BY <2>1, <2>5, <5>1, SplitAppend
        <4>5. Split(pre \o Append(h, c)) \o <<>> = Split(pre \o Append(h, c))
          <5>1. Grown(Split(pre \o h), c) \in Seq(AnyString)
            BY <2>1, <2>8, GrownType DEF Parts
          <5> QED BY <4>4, <5>1, ConcatEmptySeq
        <4> QED BY <2>2, <2>6, <2>7, <4>1, <4>2, <4>3, <4>4, <4>5
      <3>3. CASE tl # <<>>
        <4>1. tl \in Parts
          BY <2>4, <3>3 DEF Parts
        <4>2. Grown(Split(pre \o h) \o tl, c) = Split(pre \o h) \o Grown(tl, c)
          BY <2>1, <2>8, <4>1, GrownBehind
        <4>3. Grown(<<h>> \o tl, c) = <<h>> \o Grown(tl, c)
          BY <2>1, <2>8, <4>1, GrownBehind
        <4>4. Grown(tl, c) \in Seq(AnyString)
          BY <2>1, <4>1, GrownType DEF Parts
        <4>5. Head(<<h>> \o Grown(tl, c)) = h /\ Tail(<<h>> \o Grown(tl, c)) = Grown(tl, c)
          BY <2>4, <4>4, HeadAndTail
        <4> QED BY <2>2, <2>6, <2>7, <4>2, <4>3, <4>5
      <3> QED BY <3>1, <3>2, <3>3
    <2>10. OnlyTheFirst(pre, SubSeq(x, 1, i))
      BY <2>9 DEF OnlyTheFirst, first
    <2> QED BY <1>1, <2>10
  <1>5. n \in T
    <2> HIDE DEF T
    <2>1. HandedUp(T, n)
      BY <1>3, <1>4 DEF HandedUp
    <2> QED BY <1>1, <2>1, Upwards
  <1>6. first(n) = x
    BY TextsAre
  <1>7. Split(x) \in Parts /\ Head(Split(x)) \in AnyString /\ Tail(Split(x)) \in Seq(AnyString)
    <2>1. Split(x) \in Parts
      BY SplitType
    <2> QED BY <2>1 DEF Parts
  <1> QED BY <1>5, <1>6, <1>7 DEF OnlyTheFirst

-----------------------------------------------------------------------------
(* The lines that were found: the last ones, backwards *)

\* Number last is the last part that is not empty; 0 if there is none.
IsLastLine(parts, last) ==
    /\ last \in 0 .. Len(parts)
    /\ last > 0 => parts[last] # <<>>
    /\ \A k \in last + 1 .. Len(parts) : parts[k] = <<>>

\* As many of those behind part m as the limit allows.
Count(last, m, limit) ==
    IF last <= m THEN 0 ELSE IF last - m <= limit THEN last - m ELSE limit

Backwards(parts, last, m, limit) ==
    [i \in 1 .. Count(last, m, limit) |-> parts[last + 1 - i]]

\* So many are found.
LEMMA CountType ==
    ASSUME NEW last \in Nat, NEW m \in Nat, NEW limit \in Nat
    PROVE  Count(last, m, limit) \in Nat /\ Count(last, m, limit) <= last
  BY DEF Count

\* The lines found are the last parts, the last one first ...
LEMMA BackwardsType ==
    ASSUME NEW S, NEW parts \in Seq(S), NEW last \in 0 .. Len(parts), NEW m \in Nat,
           NEW limit \in Nat
    PROVE  /\ Backwards(parts, last, m, limit) \in Seq(S)
           /\ \A i \in 1 .. Count(last, m, limit) :
                 Backwards(parts, last, m, limit)[i] = parts[last + 1 - i]
  <1> DEFINE n == Count(last, m, limit)
  <1>1. n \in Nat /\ n <= last
    BY DEF Count
  <1>2. \A i \in 1 .. n : parts[last + 1 - i] \in S
    <2> HIDE DEF n
    <2>1. \A i \in 1 .. n : last + 1 - i \in 1 .. Len(parts)
      BY <1>1
    <2> QED BY <2>1
  <1> HIDE DEF n
  <1>3. [i \in 1 .. n |-> parts[last + 1 - i]] \in Seq(S)
    BY <1>1, <1>2
  <1> QED BY <1>1, <1>3 DEF n, Backwards

\* ... as many as are counted.
LEMMA BackwardsLength ==
    ASSUME NEW S, NEW parts \in Seq(S), NEW last \in 0 .. Len(parts), NEW m \in Nat,
           NEW limit \in Nat
    PROVE  Len(Backwards(parts, last, m, limit)) = Count(last, m, limit)
  <1>1. last \in Nat
    OBVIOUS
  <1>2. Count(last, m, limit) \in Nat
    BY <1>1, CountType
  <1> QED BY <1>2 DEF Backwards

\* The same of texts.
LEMMA BackwardsIs ==
    ASSUME NEW parts \in Seq(AnyString), NEW last \in 0 .. Len(parts), NEW m \in Nat,
           NEW limit \in Nat
    PROVE  LET found == Backwards(parts, last, m, limit)
               n == Count(last, m, limit)
           IN  /\ found \in Seq(AnyString) /\ Len(found) = n
               /\ \A i \in 1 .. n : found[i] = parts[last + 1 - i]
  <1>1. Len(Backwards(parts, last, m, limit)) = Count(last, m, limit)
    BY BackwardsLength
  <1>2. /\ Backwards(parts, last, m, limit) \in Seq(AnyString)
        /\ \A i \in 1 .. Count(last, m, limit) :
              Backwards(parts, last, m, limit)[i] = parts[last + 1 - i]
    BY BackwardsType
  <1> QED BY <1>1, <1>2

\* The least of two numbers.
LEMMA MinOfTwo ==
    ASSUME NEW a \in Int, NEW b \in Int
    PROVE  Min({a, b}) = IF a <= b THEN a ELSE b
  <1>1. \E x \in {a, b} : \A y \in {a, b} : x <= y
    OBVIOUS
  <1> QED BY <1>1 DEF Min

\* A reversed sequence.
LEMMA ReverseType ==
    ASSUME NEW S, NEW s \in Seq(S)
    PROVE  /\ Reverse(s) \in Seq(S) /\ Len(Reverse(s)) = Len(s)
           /\ \A i \in 1 .. Len(s) : Reverse(s)[i] = s[Len(s) - i + 1]
  <1>1. \A i \in 1 .. Len(s) : s[Len(s) - i + 1] \in S
    OBVIOUS
  <1> QED BY <1>1 DEF Reverse

\* From one part on to the end, and up to a limit.
LEMMA SubSeqType ==
    ASSUME NEW S, NEW s \in Seq(S), NEW i \in 1 .. Len(s) + 1, NEW j \in i - 1 .. Len(s)
    PROVE  /\ SubSeq(s, i, j) \in Seq(S) /\ Len(SubSeq(s, i, j)) = j - i + 1
           /\ \A k \in 1 .. j - i + 1 : SubSeq(s, i, j)[k] = s[i + k - 1]
  <1>1. Len(s) \in Nat /\ \A k \in 1 .. Len(s) : s[k] \in S
    OBVIOUS
  <1>2. i \in Int /\ j \in Int /\ \A k \in i .. j : s[k] \in S
    BY <1>1
  <1>3. /\ SubSeq(s, i, j) \in Seq(S)
        /\ Len(SubSeq(s, i, j)) = IF i <= j THEN j - i + 1 ELSE 0
        /\ \A k \in 1 .. j - i + 1 : SubSeq(s, i, j)[k] = s[i + k - 1]
    BY <1>2, SubSeqProperties
  <1>4. j - i + 1 = IF i <= j THEN j - i + 1 ELSE 0
    BY <1>1
  <1> QED BY <1>3, <1>4

\* A block that has the parts behind m, up to those that were found, adds its lines.
LEMMA AddLinesAdds ==
    ASSUME NEW parts \in Seq(AnyString), NEW last, IsLastLine(parts, last), NEW tail \in Nat \ {0},
           NEW m \in 0 .. Len(parts), NEW q \in m .. Len(parts),
           Len(Backwards(parts, last, q, tail + 1)) <= tail
    PROVE  AddLines(Backwards(parts, last, q, tail + 1), SubSeq(parts, m + 1, q), tail)
              = Backwards(parts, last, m, tail + 1)
  <1> DEFINE found == Backwards(parts, last, q, tail + 1)
             block == SubSeq(parts, m + 1, q)
             back == Reverse(block)
             n == q - m
             Is(k) == /\ k \in 1 .. Len(back) + 1
                      /\ k <= Len(back) => found # <<>> \/ back[k] # <<>>
                      /\ \A j \in 1 .. k - 1 : found = <<>> /\ back[j] = <<>>
             first == CHOOSE k \in 1 .. Len(back) + 1 :
                         /\ k <= Len(back) => found # <<>> \/ back[k] # <<>>
                         /\ \A j \in 1 .. k - 1 : found = <<>> /\ back[j] = <<>>
             lines == found \o From(back, first)
  <1>1. /\ last \in 0 .. Len(parts) /\ Len(parts) \in Nat /\ n \in Nat /\ last \in Nat
        /\ m \in Nat /\ q \in Nat /\ q = m + n /\ q <= Len(parts)
    BY DEF IsLastLine
  <1>2. /\ found \in Seq(AnyString) /\ Len(found) = (IF last <= q THEN 0 ELSE last - q)
        /\ \A i \in 1 .. Len(found) : found[i] = parts[last + 1 - i]
    <2>1. /\ found \in Seq(AnyString) /\ Len(found) = Count(last, q, tail + 1)
          /\ \A i \in 1 .. Count(last, q, tail + 1) : found[i] = parts[last + 1 - i]
      <3>1. last \in 0 .. Len(parts) /\ q \in Nat /\ tail + 1 \in Nat
        BY <1>1
      <3> QED BY <3>1, BackwardsIs, Zenon
    <2>2. Count(last, q, tail + 1) <= tail
      BY <2>1
    <2>3. Count(last, q, tail + 1) = (IF last <= q THEN 0 ELSE last - q)
      BY <1>1, <2>2 DEF Count
    <2> HIDE DEF found
    <2> QED BY <2>1, <2>3
  <1>3. /\ block \in Seq(AnyString) /\ Len(block) = n
        /\ \A k \in 1 .. n : block[k] = parts[m + k]
    <2>1. m + 1 \in 1 .. Len(parts) + 1 /\ q \in (m + 1) - 1 .. Len(parts)
      BY <1>1
    <2>2. /\ block \in Seq(AnyString) /\ Len(block) = q - (m + 1) + 1
          /\ \A k \in 1 .. q - (m + 1) + 1 : block[k] = parts[(m + 1) + k - 1]
      BY <2>1, SubSeqType
    <2>3. q - (m + 1) + 1 = n /\ \A k \in 1 .. n : (m + 1) + k - 1 = m + k
      BY <1>1
    <2> HIDE DEF n, block
    <2> QED BY <2>2, <2>3
  <1> HIDE DEF found, block, n
  <1>4. /\ back \in Seq(AnyString) /\ Len(back) = n
        /\ \A k \in 1 .. n : back[k] = parts[q + 1 - k]
    <2>1. /\ back \in Seq(AnyString) /\ Len(back) = n
          /\ \A k \in 1 .. n : back[k] = block[n - k + 1]
      BY <1>3, ReverseType
    <2>2. \A k \in 1 .. n : n - k + 1 \in 1 .. n /\ m + (n - k + 1) = q + 1 - k
      BY <1>1
    <2> HIDE DEF back
    <2> QED BY <1>3, <2>1, <2>2
  <1> HIDE DEF back
  <1>5. found = <<>> <=> last <= q
    <2>1. found = <<>> <=> Len(found) = 0
      BY <1>2
    <2> QED BY <1>1, <1>2, <2>1
  <1>6. /\ last > q => first = 1
        /\ last <= q /\ last > m => first = q + 1 - last
        /\ last <= m => first = n + 1
    <2>1. CASE last > q
      <3>1. Is(1) /\ \A k : Is(k) => k = 1
        BY <1>1, <1>4, <1>5, <2>1
      <3>2. first = 1
        BY <3>1
      <3> HIDE DEF first
      <3> QED BY <1>1, <2>1, <3>2
    <2>2. CASE last <= q /\ last > m
      <3> DEFINE d == q + 1 - last
      <3>1. d \in 1 .. n /\ q + 1 - d = last
        BY <1>1, <2>2
      <3>2. found = <<>>
        BY <1>5, <2>2
      <3>3. back[d] # <<>>
        <4>1. back[d] = parts[last]
          BY <1>4, <3>1
        <4> QED BY <1>1, <2>2, <4>1 DEF IsLastLine
      <3>4. ASSUME NEW j \in 1 .. d - 1 PROVE back[j] = <<>>
        <4>1. j \in 1 .. n /\ q + 1 - j \in last + 1 .. Len(parts)
          BY <1>1, <3>1
        <4> QED BY <1>4, <4>1 DEF IsLastLine
      <3> HIDE DEF d
      <3>5. Is(d)
        BY <1>1, <1>4, <3>1, <3>2, <3>3, <3>4
      <3>6. ASSUME NEW k, Is(k) PROVE k = d
        <4>1. k \in 1 .. n + 1
          BY <1>4, <3>6
        <4>2. ~(k < d)
          <5>1. k < d => k \in 1 .. d - 1 /\ k <= n
            BY <1>1, <3>1, <4>1
          <5> QED BY <1>4, <3>2, <3>4, <3>6, <5>1
        <4>3. ~(k > d)
          <5>1. k > d => d \in 1 .. k - 1
            BY <1>1, <3>1, <4>1
          <5> QED BY <3>3, <3>6, <5>1
        <4> QED BY <1>1, <3>1, <4>1, <4>2, <4>3
      <3>7. first = d
        <4> HIDE DEF back, found
        <4> QED BY <3>5, <3>6
      <3> HIDE DEF first
      <3> QED BY <1>1, <2>2, <3>7 DEF d
    <2>3. CASE last <= m
      <3>1. found = <<>>
        BY <1>1, <1>5, <2>3
      <3>2. ASSUME NEW j \in 1 .. n PROVE back[j] = <<>>
        <4>1. q + 1 - j \in last + 1 .. Len(parts)
          BY <1>1, <2>3
        <4> QED BY <1>4, <4>1 DEF IsLastLine
      <3>3. Is(n + 1)
        BY <1>1, <1>4, <3>1, <3>2
      <3>4. ASSUME NEW k, Is(k) PROVE k = n + 1
        <4>1. k \in 1 .. n + 1
          BY <1>4, <3>4
        <4>2. ~(k <= n)
          <5>1. k <= n => k \in 1 .. n
            BY <1>1, <4>1
          <5> QED BY <1>4, <3>1, <3>2, <3>4, <5>1
        <4> QED BY <1>1, <4>1, <4>2
      <3>5. first = n + 1
        BY <3>3, <3>4
      <3> HIDE DEF first
      <3> QED BY <1>1, <2>3, <3>5
    <2>4. last > q \/ (last <= q /\ last > m) \/ last <= m
      BY <1>1
    <2> HIDE DEF first
    <2> QED BY <2>1, <2>2, <2>3, <2>4
  <1> HIDE DEF first
  <1> DEFINE rest == From(back, first)
  <1>7. first \in 1 .. n + 1
    BY <1>1, <1>6
  <1>8. /\ rest \in Seq(AnyString) /\ Len(rest) = n + 1 - first
        /\ \A k \in 1 .. n + 1 - first : rest[k] = parts[q + 2 - first - k]
    <2>1. first \in 1 .. Len(back) + 1 /\ Len(back) \in first - 1 .. Len(back)
      BY <1>1, <1>4, <1>7
    <2>2. /\ rest \in Seq(AnyString) /\ Len(rest) = Len(back) - first + 1
          /\ \A k \in 1 .. Len(back) - first + 1 : rest[k] = back[first + k - 1]
      <3>1. back \in Seq(AnyString)
        BY <1>4
      <3> HIDE DEF back
      <3>2. /\ SubSeq(back, first, Len(back)) \in Seq(AnyString)
            /\ Len(SubSeq(back, first, Len(back))) = Len(back) - first + 1
            /\ \A k \in 1 .. Len(back) - first + 1 :
                  SubSeq(back, first, Len(back))[k] = back[first + k - 1]
        BY <2>1, <3>1, SubSeqType
      <3> QED BY <3>2 DEF From
    <2>3. Len(back) - first + 1 = n + 1 - first
      BY <1>1, <1>4, <1>7
    <2>4. \A k \in 1 .. n + 1 - first :
             first + k - 1 \in 1 .. n /\ q + 1 - (first + k - 1) = q + 2 - first - k
      BY <1>1, <1>7
    <2> HIDE DEF rest
    <2> QED BY <1>4, <2>2, <2>3, <2>4
  <1> HIDE DEF rest
  <1> DEFINE all == IF last <= m THEN 0 ELSE last - m
  <1>9. /\ lines \in Seq(AnyString) /\ Len(lines) = all
        /\ \A i \in 1 .. all : lines[i] = parts[last + 1 - i]
    <2>1. /\ lines \in Seq(AnyString) /\ Len(lines) = Len(found) + Len(rest)
          /\ \A i \in 1 .. Len(found) + Len(rest) :
                lines[i] = IF i <= Len(found) THEN found[i] ELSE rest[i - Len(found)]
      BY <1>2, <1>8, ConcatProperties DEF rest
    <2> HIDE DEF lines
    <2>2. Len(found) + Len(rest) = all
      <3>1. CASE last > q
        BY <1>1, <1>2, <1>6, <1>8, <3>1
      <3>2. CASE last <= q /\ last > m
        BY <1>1, <1>2, <1>6, <1>8, <3>2
      <3>3. CASE last <= m
        BY <1>1, <1>2, <1>6, <1>8, <3>3
      <3> QED BY <1>1, <3>1, <3>2, <3>3
    <2>3. ASSUME NEW i \in 1 .. all PROVE lines[i] = parts[last + 1 - i]
      <3>1. CASE i <= Len(found)
        <4>1. i \in 1 .. Len(found)
          BY <1>1, <1>2, <3>1
        <4> QED BY <1>2, <2>1, <2>2, <3>1, <4>1
      <3>2. CASE ~(i <= Len(found))
        <4>1. /\ i - Len(found) \in 1 .. n + 1 - first
              /\ q + 2 - first - (i - Len(found)) = last + 1 - i
          <5>1. CASE last > q
            <6>1. Len(found) = last - q /\ first = 1 /\ all = last - m /\ i \in 1 .. last - m
              BY <1>1, <1>2, <1>6, <5>1
            <6> HIDE DEF all
            <6> QED BY <1>1, <3>2, <5>1, <6>1
          <5>2. CASE last <= q /\ last > m
            BY <1>1, <1>2, <1>6, <3>2, <5>2
          <5>3. CASE last <= m
            BY <1>1, <5>3
          <5> QED BY <1>1, <5>1, <5>2, <5>3
        <4>2. lines[i] = rest[i - Len(found)]
          BY <2>1, <2>2, <3>2
        <4> QED BY <1>8, <4>1, <4>2
      <3> QED BY <3>1, <3>2
    <2> QED BY <2>1, <2>2, <2>3
  <1> HIDE DEF lines
  <1>10. all \in Nat
    BY <1>1
  <1> DEFINE cut == IF all <= tail + 1 THEN all ELSE tail + 1
  <1>11. Min({Len(lines), tail + 1}) = cut /\ cut = Count(last, m, tail + 1) /\ cut \in 0 .. all
    <2>1. Min({all, tail + 1}) = cut
      BY <1>10, MinOfTwo
    <2> QED BY <1>1, <1>9, <2>1 DEF Count
  <1>12. SubSeq(lines, 1, cut) = Backwards(parts, last, m, tail + 1)
    <2> HIDE DEF all, cut
    <2>1. /\ SubSeq(lines, 1, cut) \in Seq(AnyString) /\ Len(SubSeq(lines, 1, cut)) = cut
          /\ \A k \in 1 .. cut : SubSeq(lines, 1, cut)[k] = lines[k]
      <3>1. 1 \in 1 .. Len(lines) + 1 /\ cut \in 1 - 1 .. Len(lines) /\ cut - 1 + 1 = cut
        BY <1>9, <1>10, <1>11
      <3>2. /\ SubSeq(lines, 1, cut) \in Seq(AnyString) /\ Len(SubSeq(lines, 1, cut)) = cut - 1 + 1
            /\ \A k \in 1 .. cut - 1 + 1 : SubSeq(lines, 1, cut)[k] = lines[1 + k - 1]
        BY <1>9, <3>1, SubSeqType
      <3>3. \A k \in 1 .. cut : 1 + k - 1 = k
        BY <1>10, <1>11
      <3> QED BY <3>1, <3>2, <3>3
    <2>2. /\ Backwards(parts, last, m, tail + 1) \in Seq(AnyString)
          /\ Len(Backwards(parts, last, m, tail + 1)) = cut
          /\ \A k \in 1 .. cut : Backwards(parts, last, m, tail + 1)[k] = parts[last + 1 - k]
      <3>1. last \in 0 .. Len(parts) /\ m \in Nat /\ tail + 1 \in Nat
        BY <1>1
      <3>2. /\ Backwards(parts, last, m, tail + 1) \in Seq(AnyString)
            /\ Len(Backwards(parts, last, m, tail + 1)) = Count(last, m, tail + 1)
            /\ \A i \in 1 .. Count(last, m, tail + 1) :
                  Backwards(parts, last, m, tail + 1)[i] = parts[last + 1 - i]
        BY <3>1, BackwardsIs, Zenon
      <3> QED BY <1>11, <3>2
    <2>3. \A k \in 1 .. cut : k \in 1 .. all
      BY <1>10, <1>11
    <2>4. \A k \in 1 .. cut : SubSeq(lines, 1, cut)[k] = Backwards(parts, last, m, tail + 1)[k]
      BY <1>9, <2>1, <2>2, <2>3
    <2> QED BY <2>1, <2>2, <2>4, SeqEqual
  <1> QED BY <1>11, <1>12 DEF AddLines, found, block, back, first, lines

\* A set of numbers that has a bound has a greatest one.
LEMMA GreatestNumber ==
    ASSUME NEW n \in Nat, NEW T, T \subseteq 0 .. n, T # {}
    PROVE  /\ Max(T) \in T
           /\ \A k \in T : Max(T) >= k
  <1> DEFINE U == {n - k : k \in T}
  <1>1. U \subseteq Nat /\ U # {}
    <2>1. PICK k \in T : TRUE
      OBVIOUS
    <2>2. n - k \in U
      OBVIOUS
    <2>3. U \subseteq Nat
      OBVIOUS
    <2> HIDE DEF U
    <2> QED BY <2>2, <2>3
  <1>2. PICK u \in U : \A v \in U : u <= v
    <2> HIDE DEF U
    <2> QED BY <1>1, LeastNumber
  <1>3. PICK m \in T : u = n - m
    BY <1>2
  <1>4. \A k \in T : m >= k
    <2> TAKE k \in T
    <2>1. n - k \in U
      OBVIOUS
    <2>2. u <= n - k
      BY <1>2, <2>1
    <2> QED BY <1>3, <2>2
  <1> HIDE DEF U
  <1> QED BY <1>4 DEF Max

\* There is a last line that is not empty, up to which the lines of the file go.
LEMMA LastLine ==
    ASSUME NEW file \in AnyString
    PROVE  \E last : /\ IsLastLine(Split(file), last)
                     /\ LinesOf(file) = SubSeq(Split(file), 1, last)
  <1> DEFINE parts == Split(file)
             T == {k \in DOMAIN parts : parts[k] # <<>>} \cup {0}
  <1>1. parts \in Seq(AnyString)
    BY SplitType DEF Parts
  <1>2. LinesOf(file) = SubSeq(parts, 1, Max(T))
    BY DEF LinesOf
  <1> HIDE DEF parts
  <1>3. Len(parts) \in Nat /\ T \subseteq 0 .. Len(parts) /\ T # {}
    BY <1>1
  <1>4. Max(T) \in T /\ \A k \in T : Max(T) >= k
    <2> HIDE DEF T
    <2> QED BY <1>3, GreatestNumber
  <1>5. IsLastLine(parts, Max(T))
    <2>1. Max(T) \in 0 .. Len(parts) /\ (Max(T) > 0 => parts[Max(T)] # <<>>)
      BY <1>3, <1>4
    <2>2. \A k \in Max(T) + 1 .. Len(parts) : k \in DOMAIN parts /\ ~(Max(T) >= k)
      <3> HIDE DEF T
      <3> QED BY <1>1, <1>3, <2>1
    <2>3. ASSUME NEW k \in Max(T) + 1 .. Len(parts) PROVE parts[k] = <<>>
      BY <1>4, <2>2
    <2> HIDE DEF T
    <2> QED BY <2>1, <2>3 DEF IsLastLine
  <1> QED BY <1>2, <1>5 DEF parts

-----------------------------------------------------------------------------
(* The loop *)

\* What has been read and is not yet a line is what the parts in front of m are of.
LoopInv(file, last, tail, s) ==
    \E m \in 0 .. Len(Split(file)) :
        /\ s.found = Backwards(Split(file), last, m, tail + 1)
        /\ IF s.remaining = 0 THEN m = 0
           ELSE Split(SubSeq(file, 1, s.remaining) \o s.fragment) = SubSeq(Split(file), 1, m)

LoopStates(file, last, tail) ==
    {s \in [remaining : 0 .. Len(file), fragment : AnyString, found : Seq(AnyString)] :
        LoopInv(file, last, tail, s)}

\* Texts are joined in any order of the joints.
LEMMA TextConcat ==
    ASSUME NEW a \in AnyString, NEW b \in AnyString
    PROVE  /\ a \o b \in AnyString /\ <<>> \o a = a /\ a \o <<>> = a
           /\ \A c \in AnyString : (a \o b) \o c = a \o (b \o c)
  <1>1. a \in Seq(AnyCharacter) /\ b \in Seq(AnyCharacter) /\ AnyString = Seq(AnyCharacter)
    BY TextsAre
  <1>2. a \o b \in Seq(AnyCharacter) /\ <<>> \o a = a /\ a \o <<>> = a
    BY <1>1, ConcatProperties, ConcatEmptySeq
  <1>3. \A c \in Seq(AnyCharacter) : (a \o b) \o c = a \o (b \o c)
    BY <1>1, ConcatAssociative
  <1> QED BY <1>1, <1>2, <1>3

\* The text up to i and from there to j.
LEMMA TextParts ==
    ASSUME NEW t \in AnyString, NEW j \in 0 .. Len(t), NEW i \in 0 .. j
    PROVE  /\ SubSeq(t, 1, i) \in AnyString /\ SubSeq(t, i + 1, j) \in AnyString
           /\ SubSeq(t, 1, i) \o SubSeq(t, i + 1, j) = SubSeq(t, 1, j)
           /\ Len(SubSeq(t, 1, i)) = i /\ Len(SubSeq(t, i + 1, j)) = j - i
  <1>1. t \in Seq(AnyCharacter) /\ Len(t) \in Nat /\ AnyString = Seq(AnyCharacter)
    BY TextsAre
  <1>2. /\ 1 \in 1 .. Len(t) + 1 /\ i \in 1 - 1 .. Len(t) /\ j \in i .. Len(t)
        /\ i + 1 \in 1 .. Len(t) + 1 /\ j \in (i + 1) - 1 .. Len(t)
        /\ i - 1 + 1 = i /\ j - (i + 1) + 1 = j - i
    BY <1>1
  <1>3. SubSeq(t, 1, i) \in Seq(AnyCharacter) /\ Len(SubSeq(t, 1, i)) = i
    BY <1>1, <1>2, SubSeqType
  <1>4. SubSeq(t, i + 1, j) \in Seq(AnyCharacter) /\ Len(SubSeq(t, i + 1, j)) = j - i
    BY <1>1, <1>2, SubSeqType
  <1>5. SubSeq(t, 1, i) \o SubSeq(t, i + 1, j) = SubSeq(t, 1, j)
    BY <1>1, <1>2, ConcatAdjacentSubSeq
  <1> QED BY <1>1, <1>3, <1>4, <1>5

\* Two sequences that together are the beginning of a third are its parts.
LEMMA PartsOfPrefix ==
    ASSUME NEW S, NEW s \in Seq(S), NEW q \in 0 .. Len(s), NEW a \in Seq(S), NEW b \in Seq(S),
           a \o b = SubSeq(s, 1, q)
    PROVE  /\ Len(a) \in 0 .. q
           /\ a = SubSeq(s, 1, Len(a)) /\ b = SubSeq(s, Len(a) + 1, q)
  <1> DEFINE m == Len(a)
  <1>1. /\ Len(s) \in Nat /\ 1 \in 1 .. Len(s) + 1 /\ q \in 1 - 1 .. Len(s) /\ q - 1 + 1 = q
        /\ \A k \in 1 .. q : 1 + k - 1 = k
    OBVIOUS
  <1>2. SubSeq(s, 1, q) \in Seq(S) /\ Len(SubSeq(s, 1, q)) = q
        /\ \A k \in 1 .. q : SubSeq(s, 1, q)[k] = s[k]
    <2>1. /\ SubSeq(s, 1, q) \in Seq(S) /\ Len(SubSeq(s, 1, q)) = q - 1 + 1
          /\ \A k \in 1 .. q - 1 + 1 : SubSeq(s, 1, q)[k] = s[1 + k - 1]
      BY <1>1, SubSeqType
    <2> QED BY <1>1, <2>1
  <1>3. /\ Len(a \o b) = m + Len(b) /\ m \in Nat /\ Len(b) \in Nat
        /\ \A i \in 1 .. m + Len(b) : (a \o b)[i] = IF i <= m THEN a[i] ELSE b[i - m]
    BY ConcatProperties
  <1>4. q = m + Len(b) /\ m \in 0 .. q
    BY <1>2, <1>3
  <1>5. \A i \in 1 .. q : s[i] = IF i <= m THEN a[i] ELSE b[i - m]
    BY <1>2, <1>3, <1>4
  <1> HIDE DEF m
  <1>6. a = SubSeq(s, 1, m)
    <2>1. 1 \in 1 .. Len(s) + 1 /\ m \in 1 - 1 .. Len(s) /\ m - 1 + 1 = m
      BY <1>1, <1>4
    <2>2. /\ SubSeq(s, 1, m) \in Seq(S) /\ Len(SubSeq(s, 1, m)) = m - 1 + 1
          /\ \A k \in 1 .. m - 1 + 1 : SubSeq(s, 1, m)[k] = s[1 + k - 1]
      BY <2>1, SubSeqType
    <2>3. \A k \in 1 .. m : 1 + k - 1 = k /\ k \in 1 .. q /\ k <= m
      BY <1>4
    <2>4. \A k \in 1 .. m : SubSeq(s, 1, m)[k] = a[k]
      BY <1>5, <2>1, <2>2, <2>3
    <2>5. Len(a) = m
      BY DEF m
    <2> QED BY <2>1, <2>2, <2>4, <2>5, SeqEqual
  <1>7. b = SubSeq(s, m + 1, q)
    <2>1. m + 1 \in 1 .. Len(s) + 1 /\ q \in (m + 1) - 1 .. Len(s) /\ q - (m + 1) + 1 = Len(b)
      BY <1>1, <1>3, <1>4
    <2>2. /\ SubSeq(s, m + 1, q) \in Seq(S) /\ Len(SubSeq(s, m + 1, q)) = q - (m + 1) + 1
          /\ \A k \in 1 .. q - (m + 1) + 1 : SubSeq(s, m + 1, q)[k] = s[(m + 1) + k - 1]
      BY <2>1, SubSeqType
    <2>3. \A k \in 1 .. Len(b) : /\ (m + 1) + k - 1 = m + k /\ m + k \in 1 .. q
                                 /\ ~(m + k <= m) /\ (m + k) - m = k
      BY <1>3, <1>4
    <2>4. \A k \in 1 .. Len(b) : SubSeq(s, m + 1, q)[k] = b[k]
      BY <1>5, <2>1, <2>2, <2>3
    <2> QED BY <2>1, <2>2, <2>4, SeqEqual
  <1> QED BY <1>4, <1>6, <1>7 DEF m

\* A round of the loop.
LEMMA RoundKeepsInv ==
    ASSUME NEW file \in AnyString, NEW last, IsLastLine(Split(file), last), NEW tail \in Nat \ {0},
           NEW s \in LoopStates(file, last, tail), s.remaining # 0, ~(Len(s.found) > tail)
    PROVE  /\ ReadBlock(file, s, tail) \in LoopStates(file, last, tail)
           /\ ReadBlock(file, s, tail).remaining < s.remaining
  <1> DEFINE all == Split(file)
             r == s.remaining
             start == IF r > Block THEN r - Block ELSE 0
             pre == SubSeq(file, 1, start)
             x == SubSeq(file, start + 1, r) \o s.fragment
             parts == Split(x)
             done == ReadBlock(file, s, tail)
  <1>1. all \in Seq(AnyString) /\ Len(all) \in Nat
    BY SplitType DEF Parts
  <1>2. /\ r \in 1 .. Len(file) /\ s.fragment \in AnyString /\ s.found \in Seq(AnyString)
        /\ Len(file) \in Nat
    <2>1. Len(file) \in Nat
      BY TextsAre
    <2> QED BY <2>1 DEF LoopStates
  <1>3. PICK q \in 0 .. Len(all) :
           /\ s.found = Backwards(all, last, q, tail + 1)
           /\ Split(SubSeq(file, 1, r) \o s.fragment) = SubSeq(all, 1, q)
    BY DEF LoopStates, LoopInv
  <1>4. start \in 0 .. r - 1
    BY <1>2, BlockAssumption
  <1>5. Len(s.found) <= tail
    BY <1>2
  <1> HIDE DEF all, r
  <1>6. done = IF start > 0
               THEN [remaining |-> start, fragment |-> Head(parts),
                     found |-> AddLines(s.found, Tail(parts), tail)]
               ELSE [remaining |-> 0, fragment |-> <<>>, found |-> AddLines(s.found, parts, tail)]
    BY DEF ReadBlock, r
  <1> HIDE DEF start
  <1>7. /\ pre \in AnyString /\ x \in AnyString
        /\ SubSeq(file, 1, r) \o s.fragment = pre \o x
    <2>1. /\ pre \in AnyString /\ SubSeq(file, start + 1, r) \in AnyString
          /\ pre \o SubSeq(file, start + 1, r) = SubSeq(file, 1, r)
      <3>1. r \in 0 .. Len(file) /\ start \in 0 .. r
        BY <1>2, <1>4
      <3> QED BY <3>1, TextParts
    <2> DEFINE mid == SubSeq(file, start + 1, r)
    <2> HIDE DEF pre, mid
    <2>2. mid \in AnyString /\ pre \o mid = SubSeq(file, 1, r)
      BY <2>1 DEF mid
    <2>3. mid \o s.fragment \in AnyString /\ (pre \o mid) \o s.fragment = pre \o (mid \o s.fragment)
      <3>1. mid \o s.fragment \in AnyString
        BY <1>2, <2>2, TextConcat
      <3>2. \A c \in AnyString : (pre \o mid) \o c = pre \o (mid \o c)
        BY <2>1, <2>2, TextConcat
      <3> QED BY <1>2, <3>1, <3>2
    <2>4. x = mid \o s.fragment
      BY DEF mid
    <2> HIDE DEF x
    <2> QED BY <2>1, <2>2, <2>3, <2>4
  <1>8. start = 0 => pre = <<>>
    BY <1>2, <1>4
  <1> HIDE DEF pre, x, done
  <1>9. /\ parts \in Parts /\ Head(parts) \in AnyString /\ Tail(parts) \in Seq(AnyString)
        /\ Split(pre \o x) = Split(pre \o Head(parts)) \o Tail(parts)
    BY <1>7, SplitOfConcat
  <1>10. q \in Nat /\ IsLastLine(all, last) /\ Len(Backwards(all, last, q, tail + 1)) <= tail
    BY <1>1, <1>3, <1>5 DEF all
  <1> HIDE DEF parts
  <1>11. CASE start > 0
    <2> DEFINE front == Split(pre \o Head(parts))
               m == Len(front)
    <2>1. front \in Seq(AnyString) /\ front \o Tail(parts) = SubSeq(all, 1, q)
      <3>1. pre \o Head(parts) \in AnyString
        BY <1>7, <1>9, TextConcat
      <3>2. front \in Seq(AnyString)
        BY <3>1, SplitType DEF Parts
      <3> QED BY <1>3, <1>7, <1>9, <3>2
    <2> HIDE DEF front
    <2> HIDE DEF m
    <2>2. m \in 0 .. q /\ front = SubSeq(all, 1, m) /\ Tail(parts) = SubSeq(all, m + 1, q)
      <3> DEFINE behind == Tail(parts)
      <3>1. behind \in Seq(AnyString) /\ front \o behind = SubSeq(all, 1, q)
        BY <1>9, <2>1
      <3> HIDE DEF behind
      <3>2. /\ Len(front) \in 0 .. q /\ front = SubSeq(all, 1, Len(front))
            /\ behind = SubSeq(all, Len(front) + 1, q)
        BY <1>1, <1>3, <2>1, <3>1, PartsOfPrefix
      <3> QED BY <3>2 DEF behind, m
    <2>3. m \in 0 .. Len(all) /\ q \in m .. Len(all)
      BY <1>1, <1>10, <2>2
    <2>4. AddLines(s.found, Tail(parts), tail) = Backwards(all, last, m, tail + 1)
      BY <1>1, <1>3, <1>10, <2>2, <2>3, AddLinesAdds
    <2>5. Backwards(all, last, m, tail + 1) \in Seq(AnyString)
      <3>1. last \in 0 .. Len(all) /\ m \in Nat /\ tail + 1 \in Nat
        BY <1>1, <1>10, <2>3 DEF IsLastLine
      <3> QED BY <1>1, <3>1, BackwardsType
    <2>6. done = [remaining |-> start, fragment |-> Head(parts),
                  found |-> Backwards(all, last, m, tail + 1)]
      BY <1>6, <1>11, <2>4
    <2>7. LoopInv(file, last, tail, done)
      <3>1. SubSeq(file, 1, done.remaining) \o done.fragment = pre \o Head(parts)
        BY <2>6 DEF pre
      <3>2. done.remaining # 0
        BY <1>4, <1>11, <2>6
      <3>3. m \in 0 .. Len(Split(file)) /\ done.found = Backwards(Split(file), last, m, tail + 1)
        BY <2>3, <2>6 DEF all
      <3>4. Split(SubSeq(file, 1, done.remaining) \o done.fragment) = SubSeq(Split(file), 1, m)
        BY <2>2, <3>1 DEF front, all
      <3> QED BY <3>2, <3>3, <3>4 DEF LoopInv
    <2>8. done \in [remaining : 0 .. Len(file), fragment : AnyString, found : Seq(AnyString)]
      <3>1. start \in 0 .. Len(file)
        BY <1>2, <1>4
      <3> QED BY <1>9, <2>5, <2>6, <3>1
    <2>9. done.remaining < r
      BY <1>2, <1>4, <2>6
    <2> QED BY <2>7, <2>8, <2>9 DEF LoopStates, done, r
  <1>12. CASE start = 0
    <2>1. parts = SubSeq(all, 0 + 1, q)
      <3>1. pre \o x = x
        BY <1>7, <1>8, <1>12, TextConcat
      <3>2. Split(x) = SubSeq(all, 1, q)
        BY <1>3, <1>7, <3>1
      <3>3. 0 + 1 = 1
        OBVIOUS
      <3> QED BY <3>2, <3>3 DEF parts
    <2>2. 0 \in 0 .. Len(all) /\ q \in 0 .. Len(all)
      BY <1>1, <1>3
    <2>3. AddLines(s.found, parts, tail) = Backwards(all, last, 0, tail + 1)
      BY <1>1, <1>3, <1>10, <2>1, <2>2, AddLinesAdds
    <2>4. Backwards(all, last, 0, tail + 1) \in Seq(AnyString)
      <3>1. last \in 0 .. Len(all) /\ 0 \in Nat /\ tail + 1 \in Nat
        BY <1>1, <1>10 DEF IsLastLine
      <3> QED BY <1>1, <3>1, BackwardsType
    <2>5. done = [remaining |-> 0, fragment |-> <<>>,
                  found |-> Backwards(all, last, 0, tail + 1)]
      BY <1>6, <1>12, <2>3
    <2>6. LoopInv(file, last, tail, done)
      BY <2>2, <2>5 DEF LoopInv, all
    <2>7. done \in [remaining : 0 .. Len(file), fragment : AnyString, found : Seq(AnyString)]
      <3>1. 0 \in 0 .. Len(file) /\ <<>> \in AnyString
        BY <1>2, TextsAre
      <3> QED BY <2>4, <2>5, <3>1
    <2>8. done.remaining < r
      BY <1>2, <2>5
    <2> QED BY <2>6, <2>7, <2>8 DEF LoopStates, done, r
  <1> QED BY <1>4, <1>11, <1>12

\* What the loop has after each number of rounds.
LEMMA RoundsAre ==
    ASSUME NEW file \in AnyString, NEW last, IsLastLine(Split(file), last), NEW tail \in Nat \ {0}
    PROVE  LET read == ReadBack(file, tail)
               n == Len(file)
           IN  /\ \A k \in 0 .. n : read[k] \in LoopStates(file, last, tail)
               /\ read[0].remaining = n
               /\ \A k \in 1 .. n :
                     read[k] = IF read[k - 1].remaining = 0 \/ Len(read[k - 1].found) > tail
                               THEN read[k - 1] ELSE ReadBlock(file, read[k - 1], tail)
  <1> DEFINE n == Len(file)
             V == LoopStates(file, last, tail)
             base == [remaining |-> n, fragment |-> <<>>, found |-> <<>>]
             Round(s) == IF s.remaining = 0 \/ Len(s.found) > tail THEN s
                         ELSE ReadBlock(file, s, tail)
             Is(f) == f = [k \in 0 .. n |-> IF k = 0 THEN base ELSE Round(f[k - 1])]
             read == CHOOSE f : Is(f)
             g == [k \in 1 .. n |-> [s \in V |-> Round(s)]]
  <1>1. ReadBack(file, tail) = read
    BY DEF ReadBack
  <1>2. n \in Nat
    BY TextsAre
  <1>3. base \in V
    <2>1. Split(file) \in Seq(AnyString) /\ Len(Split(file)) \in Nat /\ Split(file) # <<>>
      BY SplitType DEF Parts
    <2>2. last \in 0 .. Len(Split(file)) /\ last \in Nat
      BY <2>1 DEF IsLastLine
    <2>3. \A m \in Nat : last <= m => Backwards(Split(file), last, m, tail + 1) = <<>>
      BY <2>2 DEF Backwards, Count
    <2>4. LoopInv(file, last, tail, base)
      <3>1. CASE n = 0
        <4>1. file = <<>>
          BY <3>1, TextsAre
        <4>2. last = 0
          BY <4>1, SplitNothing DEF IsLastLine
        <4>3. 0 \in 0 .. Len(Split(file)) /\ base.found = Backwards(Split(file), last, 0, tail + 1)
          BY <2>1, <2>3, <4>2
        <4> QED BY <3>1, <4>3 DEF LoopInv
      <3>2. CASE n # 0
        <4> DEFINE m == Len(Split(file))
        <4>1. m \in 0 .. Len(Split(file)) /\ base.found = Backwards(Split(file), last, m, tail + 1)
          BY <2>1, <2>2, <2>3
        <4>2. SubSeq(file, 1, n) \o <<>> = file
          BY SubSeqFull, ConcatEmptySeq, TextsAre
        <4>3. SubSeq(Split(file), 1, m) = Split(file)
          BY <2>1, SubSeqFull
        <4> HIDE DEF m
        <4> QED BY <3>2, <4>1, <4>2, <4>3 DEF LoopInv
      <3> QED BY <3>1, <3>2
    <2>5. base \in [remaining : 0 .. Len(file), fragment : AnyString, found : Seq(AnyString)]
      <3>1. <<>> \in AnyString /\ <<>> \in Seq(AnyString)
        BY TextsAre
      <3> QED BY <1>2, <3>1
    <2> QED BY <2>4, <2>5 DEF LoopStates
  <1>4. \A s \in V : Round(s) \in V
    BY RoundKeepsInv
  <1>5. \A k \in 1 .. n : \A s \in V : g[k][s] = Round(s)
    OBVIOUS
  <1>6. g \in [1 .. n -> [V -> V]]
    <2> HIDE DEF V, Round
    <2> QED BY <1>4
  <1> HIDE DEF V, Round, base, g, n
  <1>7. \E f : RecursUp(f, n, V, base, g)
    BY <1>2, <1>3, <1>6, RecursionUp
  <1>8. PICK f : RecursUp(f, n, V, base, g)
    BY <1>7
  <1>9. /\ f \in [0 .. n -> V] /\ f[0] = base
        /\ \A k \in 1 .. n : f[k - 1] \in V /\ f[k] = Round(f[k - 1])
    <2>1. f \in [0 .. n -> V] /\ f[0] = base /\ \A k \in 1 .. n : f[k] = g[k][f[k - 1]]
      BY <1>8 DEF RecursUp
    <2>2. \A k \in 1 .. n : k - 1 \in 0 .. n
      BY <1>2
    <2> QED BY <1>5, <2>1, <2>2
  <1>10. Is(f)
    <2>1. ASSUME NEW k \in 0 .. n PROVE f[k] = IF k = 0 THEN base ELSE Round(f[k - 1])
      <3>1. k = 0 \/ k \in 1 .. n
        BY <1>2
      <3> QED BY <1>2, <1>9, <3>1
    <2>2. f = [k \in 0 .. n |-> f[k]]
      BY <1>9
    <2> QED BY <2>1, <2>2
  <1>11. Is(read)
    <2> HIDE DEF Is
    <2> QED BY <1>10
  <1> HIDE DEF read
  <1>12. read[0] = base /\ \A k \in 1 .. n : read[k] = Round(read[k - 1])
    <2>1. 0 \in 0 .. n /\ \A k \in 1 .. n : k \in 0 .. n /\ k # 0
      BY <1>2
    <2> QED BY <1>11, <2>1
  <1> HIDE DEF Is
  <1>13. \A k \in 0 .. n : read[k] = f[k]
    <2> DEFINE T == {k \in 0 .. n : read[k] = f[k]}
    <2>1. 0 \in T
      BY <1>2, <1>9, <1>12
    <2>2. ASSUME NEW k \in 1 .. n, k - 1 \in T PROVE k \in T
      <3>1. read[k - 1] = f[k - 1]
        BY <2>2
      <3>2. read[k] = f[k]
        BY <1>9, <1>12, <3>1
      <3> QED BY <3>2
    <2>3. \A k \in 0 .. n : k \in T
      <3> HIDE DEF T
      <3>1. HandedUp(T, n)
        BY <2>1, <2>2 DEF HandedUp
      <3> QED BY <1>2, <3>1, Upwards
    <2> QED BY <2>3
  <1>14. \A k \in 0 .. n : read[k] \in V
    BY <1>9, <1>13
  <1>15. read[0].remaining = n
    BY <1>12 DEF base
  <1> QED BY <1>1, <1>12, <1>14, <1>15 DEF V, Round, n

\* The loop ends: each round comes nearer to the beginning of the file.
LEMMA LoopEnds ==
    ASSUME NEW file \in AnyString, NEW last, IsLastLine(Split(file), last), NEW tail \in Nat \ {0}
    PROVE  LET s == ReadBack(file, tail)[Len(file)]
           IN  /\ s \in LoopStates(file, last, tail)
               /\ s.remaining = 0 \/ Len(s.found) > tail
  <1> DEFINE n == Len(file)
             read == ReadBack(file, tail)
             T == {k \in 0 .. n : \/ read[k].remaining = 0 \/ Len(read[k].found) > tail
                                  \/ read[k].remaining + k <= n}
  <1>1. n \in Nat
    BY TextsAre
  <1>2. /\ \A k \in 0 .. n : read[k] \in LoopStates(file, last, tail)
        /\ read[0].remaining = n
        /\ \A k \in 1 .. n :
              read[k] = IF read[k - 1].remaining = 0 \/ Len(read[k - 1].found) > tail
                        THEN read[k - 1] ELSE ReadBlock(file, read[k - 1], tail)
    BY RoundsAre
  <1>3. \A k \in 0 .. n : read[k].remaining \in 0 .. n
    BY <1>2 DEF LoopStates
  <1> HIDE DEF read
  <1>4. 0 \in T
    BY <1>1, <1>2
  <1>5. ASSUME NEW k \in 1 .. n, k - 1 \in T PROVE k \in T
    <2> DEFINE s == read[k - 1]
    <2>1. k - 1 \in 0 .. n /\ k \in 0 .. n
      BY <1>1
    <2>2. CASE s.remaining = 0 \/ Len(s.found) > tail
      BY <1>2, <2>1, <2>2
    <2>3. CASE ~(s.remaining = 0 \/ Len(s.found) > tail)
      <3>1. s \in LoopStates(file, last, tail) /\ s.remaining # 0 /\ ~(Len(s.found) > tail)
        BY <1>2, <2>1, <2>3
      <3>2. s.remaining + (k - 1) <= n
        BY <1>5, <2>3
      <3>3. read[k] = ReadBlock(file, s, tail)
        BY <1>2, <2>3
      <3> HIDE DEF s
      <3>4. ReadBlock(file, s, tail).remaining < s.remaining
        BY <3>1, RoundKeepsInv
      <3>5. s.remaining \in 0 .. n /\ read[k].remaining \in 0 .. n
        BY <1>3, <2>1 DEF s
      <3>6. read[k].remaining + k <= n
        BY <1>1, <3>2, <3>3, <3>4, <3>5
      <3> QED BY <2>1, <3>6
    <2> QED BY <2>2, <2>3
  <1>6. n \in T
    <2> HIDE DEF T
    <2>1. HandedUp(T, n)
      BY <1>4, <1>5 DEF HandedUp
    <2> QED BY <1>1, <2>1, Upwards
  <1>7. n \in 0 .. n
    BY <1>1
  <1>8. read[n].remaining \in 0 .. n
    BY <1>3, <1>7
  <1>9. read[n].remaining = 0 \/ Len(read[n].found) > tail
    BY <1>1, <1>6, <1>8
  <1> QED BY <1>2, <1>7, <1>9 DEF read

\* What is found is the last lines of the file.
LEMMA LogTailIs ==
    ASSUME NEW file \in AnyString, NEW last, IsLastLine(Split(file), last), NEW tail \in Nat \ {0},
           NEW asked, asked = IF last <= tail THEN last ELSE tail
    PROVE  ReadLogTail(file, tail) = [lines |-> SubSeq(Split(file), last - asked + 1, last),
                                      truncated |-> last > tail]
  <1> DEFINE all == Split(file)
             s == ReadBack(file, tail)[Len(file)]
             more == Len(s.found) > tail
             kept == IF more THEN SubSeq(s.found, 1, tail) ELSE s.found
  <1>1. ReadLogTail(file, tail) = [lines |-> Reverse(kept), truncated |-> s.remaining > 0 \/ more]
    BY DEF ReadLogTail
  <1>2. s \in LoopStates(file, last, tail) /\ (s.remaining = 0 \/ more)
    BY LoopEnds
  <1> HIDE DEF s
  <1>3. /\ all \in Seq(AnyString) /\ Len(all) \in Nat /\ last \in 0 .. Len(all) /\ last \in Nat
        /\ tail + 1 \in Nat
    <2>1. all \in Seq(AnyString) /\ Len(all) \in Nat
      BY SplitType DEF Parts
    <2> QED BY <2>1 DEF IsLastLine
  <1>4. PICK m \in 0 .. Len(all) : /\ s.found = Backwards(all, last, m, tail + 1)
                                   /\ s.remaining = 0 => m = 0
    BY <1>2 DEF LoopStates, LoopInv
  <1>5. s.remaining \in Nat
    BY <1>2, TextsAre DEF LoopStates
  <1> HIDE DEF all
  <1> DEFINE count == Count(last, m, tail + 1)
  <1>6. /\ s.found \in Seq(AnyString) /\ Len(s.found) = count /\ count \in Nat
        /\ \A i \in 1 .. count : s.found[i] = all[last + 1 - i]
    <2>1. m \in Nat
      BY <1>3
    <2>2. /\ Count(last, m, tail + 1) \in Nat
          /\ Backwards(all, last, m, tail + 1) \in Seq(AnyString)
          /\ Len(Backwards(all, last, m, tail + 1)) = Count(last, m, tail + 1)
          /\ \A i \in 1 .. Count(last, m, tail + 1) :
                Backwards(all, last, m, tail + 1)[i] = all[last + 1 - i]
      <3>1. Count(last, m, tail + 1) \in Nat
        BY <1>3, <2>1, CountType
      <3>2. Len(Backwards(all, last, m, tail + 1)) = Count(last, m, tail + 1)
        BY <1>3, <2>1, BackwardsLength
      <3>3. Backwards(all, last, m, tail + 1) \in Seq(AnyString)
        BY <1>3, <2>1, BackwardsType
      <3>4. \A i \in 1 .. Count(last, m, tail + 1) :
                Backwards(all, last, m, tail + 1)[i] = all[last + 1 - i]
        BY DEF Backwards
      <3> QED BY <3>1, <3>2, <3>3, <3>4
    <2> QED BY <1>4, <2>2
  <1>7. count = (IF last <= m THEN 0 ELSE IF last - m <= tail + 1 THEN last - m ELSE tail + 1)
    BY DEF Count
  <1> HIDE DEF count
  <1>8. more <=> last > tail
    <2>1. more <=> count > tail
      BY <1>6
    <2> QED BY <1>2, <1>3, <1>4, <1>7, <2>1
  <1>9. (s.remaining > 0 \/ more) = (last > tail)
    BY <1>2, <1>5, <1>8
  <1>10. asked \in 0 .. last /\ asked \in Nat
    BY <1>3
  <1>11. /\ kept \in Seq(AnyString) /\ Len(kept) = asked
         /\ \A i \in 1 .. asked : kept[i] = all[last + 1 - i]
    <2>1. CASE more
      <3>1. asked = tail /\ tail <= count
        BY <1>3, <1>6, <1>8, <2>1
      <3>2. /\ 1 \in 1 .. Len(s.found) + 1 /\ tail \in 1 - 1 .. Len(s.found) /\ tail - 1 + 1 = tail
            /\ \A i \in 1 .. tail : 1 + i - 1 = i /\ i \in 1 .. count
        BY <1>6, <3>1
      <3>3. /\ SubSeq(s.found, 1, tail) \in Seq(AnyString)
            /\ Len(SubSeq(s.found, 1, tail)) = tail - 1 + 1
            /\ \A i \in 1 .. tail - 1 + 1 : SubSeq(s.found, 1, tail)[i] = s.found[1 + i - 1]
        BY <1>6, <3>2, SubSeqType
      <3>4. kept = SubSeq(s.found, 1, tail)
        BY <2>1
      <3> HIDE DEF kept
      <3> QED BY <1>6, <3>1, <3>2, <3>3, <3>4
    <2>2. CASE ~more
      <3>1. asked = last /\ s.remaining = 0 /\ m = 0
        BY <1>2, <1>3, <1>4, <1>8, <2>2
      <3>2. count = asked
        BY <1>3, <1>6, <1>7, <2>2, <3>1
      <3> QED BY <1>6, <2>2, <3>2
    <2> HIDE DEF kept
    <2> QED BY <2>1, <2>2
  <1> HIDE DEF kept
  <1>12. Reverse(kept) = SubSeq(all, last - asked + 1, last)
    <2>1. /\ Reverse(kept) \in Seq(AnyString) /\ Len(Reverse(kept)) = asked
          /\ \A i \in 1 .. asked : Reverse(kept)[i] = kept[asked - i + 1]
      <3>1. /\ Reverse(kept) \in Seq(AnyString) /\ Len(Reverse(kept)) = Len(kept)
            /\ \A i \in 1 .. Len(kept) : Reverse(kept)[i] = kept[Len(kept) - i + 1]
        BY <1>11, ReverseType
      <3> QED BY <1>11, <3>1
    <2> DEFINE from == last - asked + 1
               lines == SubSeq(all, from, last)
    <2>2. /\ from \in 1 .. Len(all) + 1 /\ last \in from - 1 .. Len(all) /\ last - from + 1 = asked
          /\ \A i \in 1 .. asked : /\ asked - i + 1 \in 1 .. asked
                                   /\ last + 1 - (asked - i + 1) = from + i - 1
      BY <1>3, <1>10
    <2> HIDE DEF from
    <2>3. /\ lines \in Seq(AnyString) /\ Len(lines) = last - from + 1
          /\ \A i \in 1 .. last - from + 1 : lines[i] = all[from + i - 1]
      BY <1>3, <2>2, SubSeqType
    <2> HIDE DEF lines
    <2>4. \A i \in 1 .. asked : Reverse(kept)[i] = lines[i]
      <3> TAKE i \in 1 .. asked
      <3>1. Reverse(kept)[i] = kept[asked - i + 1] /\ asked - i + 1 \in 1 .. asked
        BY <2>1, <2>2
      <3>2. kept[asked - i + 1] = all[from + i - 1]
        BY <1>11, <2>2, <3>1
      <3>3. lines[i] = all[from + i - 1]
        BY <2>2, <2>3
      <3> QED BY <3>1, <3>2, <3>3
    <2>5. Reverse(kept) = lines
      BY <2>1, <2>2, <2>3, <2>4, SeqEqual
    <2> QED BY <2>5 DEF lines, from
  <1> QED BY <1>1, <1>9, <1>12 DEF all

-----------------------------------------------------------------------------
(* What is written *)

SomeNode == [depth : Nat, name : AnyString, args : Seq(AnyValue)]

\* The characters that mean something are characters ...
LEMMA CharactersAre ==
    /\ Letters \subseteq AnyCharacter /\ Digits \subseteq AnyCharacter
    /\ Marks \subseteq AnyCharacter /\ Delims \subseteq AnyCharacter
    /\ " " \in AnyCharacter /\ "\n" \in AnyCharacter /\ "{" \in AnyCharacter
    /\ "}" \in AnyCharacter /\ "\"" \in AnyCharacter /\ "\\" \in AnyCharacter
  BY DEF AnyCharacter, Delims

\* ... and so are the letters that keywords and names are made of.
LEMMA LettersAre ==
    /\ "a" \in AnyCharacter /\ "e" \in AnyCharacter /\ "f" \in AnyCharacter
    /\ "l" \in AnyCharacter /\ "n" \in AnyCharacter /\ "r" \in AnyCharacter
    /\ "p" \in AnyCharacter
    /\ "s" \in AnyCharacter /\ "t" \in AnyCharacter /\ "u" \in AnyCharacter
  BY KdlAssumption DEF AnyCharacter

\* A function on 1 .. n is a sequence.
LEMMA FunctionIsSeq ==
    ASSUME NEW S, NEW n \in Nat, NEW f \in [1 .. n -> S]
    PROVE  f \in Seq(S) /\ Len(f) = n
  OBVIOUS

\* One element is a sequence ...
LEMMA Singleton ==
    ASSUME NEW S, NEW x \in S
    PROVE  <<x>> \in Seq(S)
  OBVIOUS

\* ... and so are two.
LEMMA Pair ==
    ASSUME NEW S, NEW x \in S, NEW y \in S
    PROVE  <<x, y>> \in Seq(S)
  OBVIOUS

\* The marks that are written.
LEMMA MarksType ==
    /\ <<" ">> \in Seq(AnyCharacter) /\ <<"\n">> \in Seq(AnyCharacter)
    /\ <<"{">> \in Seq(AnyCharacter) /\ <<"}">> \in Seq(AnyCharacter)
    /\ <<"\"">> \in Seq(AnyCharacter) /\ <<" ", "{">> \in Seq(AnyCharacter)
    /\ <<>> \in Seq(AnyCharacter)
  <1>1. <<>> \in Seq(AnyCharacter)
    OBVIOUS
  <1>2. <<" ">> \in Seq(AnyCharacter) /\ <<"\n">> \in Seq(AnyCharacter)
    BY CharactersAre, Singleton
  <1>3. <<"{">> \in Seq(AnyCharacter) /\ <<"}">> \in Seq(AnyCharacter)
    BY CharactersAre, Singleton
  <1>4. <<"\"">> \in Seq(AnyCharacter)
    BY CharactersAre, Singleton
  <1>5. <<" ", "{">> \in Seq(AnyCharacter)
    BY CharactersAre, Pair
  <1> QED BY <1>1, <1>2, <1>3, <1>4, <1>5

\* Keywords are texts.
LEMMA KeywordsType == \A k \in DOMAIN Keywords : Keywords[k] \in AnyString
  <1>2. DOMAIN Keywords = {"true", "false", "null"}
    BY DEF Keywords
  <1>3. /\ Keywords["true"] = <<"t", "r", "u", "e">>
        /\ Keywords["false"] = <<"f", "a", "l", "s", "e">>
        /\ Keywords["null"] = <<"n", "u", "l", "l">>
    BY DEF Keywords
  <1>4. <<"t", "r", "u", "e">> \in Seq(AnyCharacter)
    BY LettersAre
  <1>5. <<"f", "a", "l", "s", "e">> \in Seq(AnyCharacter)
    BY LettersAre
  <1>6. <<"n", "u", "l", "l">> \in Seq(AnyCharacter)
    BY LettersAre
  <1> QED BY <1>2, <1>3, <1>4, <1>5, <1>6, TextsAre

\* A character is written as one or two.
LEMMA EscapeType ==
    ASSUME NEW c \in AnyCharacter
    PROVE  Escape(c) \in Seq(AnyCharacter) /\ Escape(c) # <<>>
  <1>1. <<"\\", "\\">> \in Seq(AnyCharacter) /\ <<"\\", "\"">> \in Seq(AnyCharacter)
    BY CharactersAre, Pair
  <1>2. /\ <<"\\", "n">> \in Seq(AnyCharacter) /\ <<"\\", "t">> \in Seq(AnyCharacter)
        /\ <<"\\", "r">> \in Seq(AnyCharacter)
    BY CharactersAre, LettersAre, Pair
  <1>3. <<c>> \in Seq(AnyCharacter)
    BY Singleton
  <1> QED BY <1>1, <1>2, <1>3 DEF Escape

\* The pieces of a text in quotes.
LEMMA EscapedType ==
    ASSUME NEW t \in AnyString
    PROVE  /\ [i \in DOMAIN t |-> Escape(t[i])] \in Seq(Seq(AnyCharacter))
           /\ FlattenSeq([i \in DOMAIN t |-> Escape(t[i])]) \in Seq(AnyCharacter)
  <1>1. t \in Seq(AnyCharacter) /\ DOMAIN t = 1 .. Len(t) /\ Len(t) \in Nat
    BY TextsAre
  <1>2. \A i \in 1 .. Len(t) : Escape(t[i]) \in Seq(AnyCharacter)
    BY <1>1, EscapeType
  <1>3. [i \in DOMAIN t |-> Escape(t[i])] \in Seq(Seq(AnyCharacter))
    BY <1>1, <1>2
  <1> QED BY <1>3, FlattenType

\* A value is written as a text.
LEMMA FormatValueType ==
    ASSUME NEW v \in AnyValue
    PROVE  FormatValue(v) \in AnyString
  <1>1. CASE \E k \in DOMAIN Keywords : v = <<k>>
    <2>1. PICK k \in DOMAIN Keywords : v = <<k>>
      BY <1>1
    <2>2. FormatValue(v) = Keywords[k]
      BY <2>1 DEF FormatValue
    <2> QED BY <2>2, KeywordsType
  <1>2. CASE v \in {"int"} \X IntegerTexts
    <2>1. v[1] = "int" /\ v[2] \in AnyString
      BY <1>2 DEF IntegerTexts
    <2>2. "int" \notin DOMAIN Keywords
      BY DEF Keywords
    <2> QED BY <2>1, <2>2 DEF FormatValue
  <1>3. CASE v \in {"text"} \X AnyString
    <2>1. v[1] = "text" /\ v[2] \in AnyString
      BY <1>3
    <2>2. "text" \notin DOMAIN Keywords
      BY DEF Keywords
    <2>3. CASE IsBare(v[2])
      BY <2>1, <2>2, <2>3 DEF FormatValue
    <2>4. CASE ~IsBare(v[2])
      <3> DEFINE escaped == FlattenSeq([i \in DOMAIN v[2] |-> Escape(v[2][i])])
      <3>1. FormatValue(v) = <<"\"">> \o escaped \o <<"\"">>
        BY <2>1, <2>2, <2>4 DEF FormatValue
      <3>2. escaped \in Seq(AnyCharacter) /\ <<"\"">> \in Seq(AnyCharacter)
        BY <2>1, EscapedType, MarksType
      <3> HIDE DEF escaped
      <3>3. <<"\"">> \o escaped \o <<"\"">> \in Seq(AnyCharacter)
        BY <3>2, ConcatProperties
      <3> QED BY <3>1, <3>3, TextsAre
    <2> QED BY <2>3, <2>4
  <1> QED BY <1>1, <1>2, <1>3 DEF AnyValue

\* So many spaces.
LEMMA SpacesType ==
    ASSUME NEW n \in Nat
    PROVE  Spaces(n) \in AnyString /\ Len(Spaces(n)) = n
  <1>1. " " \in AnyCharacter
    BY CharactersAre
  <1>2. Spaces(n) \in Seq(AnyCharacter) /\ Len(Spaces(n)) = n
    <2>1. \A i \in 1 .. n : Spaces(n)[i] = " "
      BY DEF Spaces
    <2>2. Spaces(n) \in [1 .. n -> AnyCharacter]
      BY <1>1 DEF Spaces
    <2> QED BY <2>2
  <1> QED BY <1>2, TextsAre

\* The values of a node, each behind a space.
Written(args) == [i \in DOMAIN args |-> <<" ">> \o FormatValue(args[i])]

\* The arguments of a node as they are written, one by one and together.
LEMMA WrittenType ==
    ASSUME NEW args \in Seq(AnyValue)
    PROVE  /\ Written(args) \in Seq(Seq(AnyCharacter)) /\ Len(Written(args)) = Len(args)
           /\ \A i \in 1 .. Len(args) : Written(args)[i] = <<" ">> \o FormatValue(args[i])
           /\ FlattenSeq(Written(args)) \in Seq(AnyCharacter)
  <1>1. DOMAIN args = 1 .. Len(args) /\ Len(args) \in Nat
    OBVIOUS
  <1>2. ASSUME NEW i \in 1 .. Len(args) PROVE <<" ">> \o FormatValue(args[i]) \in Seq(AnyCharacter)
    <2>1. args[i] \in AnyValue
      BY <1>1
    <2>2. FormatValue(args[i]) \in Seq(AnyCharacter) /\ <<" ">> \in Seq(AnyCharacter)
      BY <2>1, FormatValueType, TextsAre, MarksType
    <2> QED BY <2>2, ConcatProperties
  <1>3. /\ Written(args) \in [1 .. Len(args) -> Seq(AnyCharacter)]
        /\ \A i \in 1 .. Len(args) : Written(args)[i] = <<" ">> \o FormatValue(args[i])
    BY <1>1, <1>2 DEF Written
  <1>4. Written(args) \in Seq(Seq(AnyCharacter)) /\ Len(Written(args)) = Len(args)
    BY <1>1, <1>3, FunctionIsSeq
  <1> QED BY <1>3, <1>4, FlattenType

\* A node and the depth of the one behind it.
LEMMA NextDepthType ==
    ASSUME NEW nodes \in Seq(SomeNode), NEW k \in 1 .. Len(nodes)
    PROVE  nodes[k] \in SomeNode /\ nodes[k].depth \in Nat /\ NextDepth(nodes, k) \in Nat
  <1>1. nodes[k] \in SomeNode
    OBVIOUS
  <1>2. k # Len(nodes) => nodes[k + 1] \in SomeNode
    OBVIOUS
  <1> QED BY <1>1, <1>2 DEF NextDepth, SomeNode

\* The line of a node is a text ...
LEMMA LineType ==
    ASSUME NEW nodes \in Seq(SomeNode), NEW k \in 1 .. Len(nodes)
    PROVE  Line(nodes, k) \in Seq(AnyCharacter)
  <1> DEFINE n == nodes[k]
             brace == IF NextDepth(nodes, k) > n.depth THEN <<" ", "{">> ELSE <<>>
  <1>1. n \in SomeNode /\ n.depth \in Nat
    BY NextDepthType
  <1>2. n.name \in Seq(AnyCharacter) /\ FlattenSeq(Written(n.args)) \in Seq(AnyCharacter)
    BY <1>1, WrittenType, TextsAre DEF SomeNode
  <1>3. Spaces(2 * n.depth) \in Seq(AnyCharacter)
    BY <1>1, SpacesType, TextsAre
  <1>4. brace \in Seq(AnyCharacter)
    BY MarksType
  <1>5. Line(nodes, k) = Spaces(2 * n.depth) \o n.name \o FlattenSeq(Written(n.args)) \o brace
    BY DEF Line, Written
  <1> HIDE DEF n, brace
  <1> QED BY <1>2, <1>3, <1>4, <1>5, ConcatProperties

\* ... and so is what closes blocks behind it.
LEMMA ClosingType ==
    ASSUME NEW nodes \in Seq(SomeNode), NEW k \in 1 .. Len(nodes)
    PROVE  Closing(nodes, k) \in Seq(AnyCharacter)
  <1> DEFINE depth == nodes[k].depth
             closed == IF NextDepth(nodes, k) > depth THEN 0 ELSE depth - NextDepth(nodes, k)
             braces == [j \in 1 .. closed |-> <<"\n">> \o Spaces(2 * (depth - j)) \o <<"}">>]
  <1>1. depth \in Nat /\ NextDepth(nodes, k) \in Nat
    BY NextDepthType
  <1>2. closed \in 0 .. depth
    BY <1>1
  <1> HIDE DEF depth, closed
  <1>3. ASSUME NEW j \in 1 .. closed
        PROVE  <<"\n">> \o Spaces(2 * (depth - j)) \o <<"}">> \in Seq(AnyCharacter)
    <2>1. 2 * (depth - j) \in Nat
      BY <1>1, <1>2
    <2>2. Spaces(2 * (depth - j)) \in Seq(AnyCharacter)
      BY <2>1, SpacesType, TextsAre
    <2>3. <<"\n">> \in Seq(AnyCharacter) /\ <<"}">> \in Seq(AnyCharacter)
      BY MarksType
    <2> QED BY <2>2, <2>3, ConcatProperties
  <1>4. braces \in Seq(Seq(AnyCharacter))
    <2>1. closed \in Nat
      BY <1>1, <1>2
    <2>2. braces \in [1 .. closed -> Seq(AnyCharacter)]
      BY <1>3
    <2> HIDE DEF braces
    <2> QED BY <2>1, <2>2
  <1>5. Closing(nodes, k) = FlattenSeq(braces)
    BY DEF Closing, braces, closed, depth
  <1> QED BY <1>4, <1>5, FlattenType

\* The lines of a node, and those that close blocks behind it.
Piece(nodes, k) == (IF k = 1 THEN <<>> ELSE <<"\n">>) \o Line(nodes, k) \o Closing(nodes, k)

Pieces(nodes) == [k \in DOMAIN nodes |-> Piece(nodes, k)]

\* A message is written node by node.
LEMMA PiecesType ==
    ASSUME NEW nodes \in Seq(SomeNode)
    PROVE  /\ Pieces(nodes) \in Seq(Seq(AnyCharacter)) /\ Len(Pieces(nodes)) = Len(nodes)
           /\ \A k \in 1 .. Len(nodes) : /\ Pieces(nodes)[k] = Piece(nodes, k)
                                         /\ Piece(nodes, k) \in Seq(AnyCharacter)
           /\ Serialize(nodes) = FlattenSeq(Pieces(nodes))
           /\ Serialize(nodes) \in Seq(AnyCharacter)
  <1>1. DOMAIN nodes = 1 .. Len(nodes) /\ Len(nodes) \in Nat
    OBVIOUS
  <1>2. ASSUME NEW k \in 1 .. Len(nodes) PROVE Piece(nodes, k) \in Seq(AnyCharacter)
    <2>1. (IF k = 1 THEN <<>> ELSE <<"\n">>) \in Seq(AnyCharacter)
      BY MarksType
    <2> QED BY <2>1, LineType, ClosingType, ConcatProperties DEF Piece
  <1>3. /\ Pieces(nodes) \in Seq(Seq(AnyCharacter)) /\ Len(Pieces(nodes)) = Len(nodes)
        /\ \A k \in 1 .. Len(nodes) : Pieces(nodes)[k] = Piece(nodes, k)
    BY <1>1, <1>2 DEF Pieces
  <1>4. Serialize(nodes) = FlattenSeq(Pieces(nodes))
    BY DEF Serialize, Pieces, Piece
  <1> QED BY <1>2, <1>3, <1>4, FlattenType

-----------------------------------------------------------------------------
(* The size of the block with the lines *)

LinesAsTexts(lines) == [k \in DOMAIN lines |-> Text(lines[k])]

\* What the lines add to it.
Size(lines) == Len(FlattenSeq(Written(LinesAsTexts(lines))))

\* The lines of the log as arguments.
LEMMA TextsType ==
    ASSUME NEW lines \in Seq(AnyString)
    PROVE  /\ LinesAsTexts(lines) \in Seq(AnyValue) /\ Len(LinesAsTexts(lines)) = Len(lines)
           /\ \A k \in 1 .. Len(lines) : LinesAsTexts(lines)[k] = Text(lines[k])
           /\ FlattenSeq(Written(LinesAsTexts(lines))) \in Seq(AnyCharacter)
           /\ Size(lines) \in Nat
  <1>1. Len(lines) \in Nat /\ \A k \in 1 .. Len(lines) : Text(lines[k]) \in AnyValue
    BY DEF Text, AnyValue
  <1>2. /\ LinesAsTexts(lines) \in [1 .. Len(lines) -> AnyValue]
        /\ \A k \in 1 .. Len(lines) : LinesAsTexts(lines)[k] = Text(lines[k])
    BY <1>1 DEF LinesAsTexts
  <1>3. LinesAsTexts(lines) \in Seq(AnyValue) /\ Len(LinesAsTexts(lines)) = Len(lines)
    BY <1>1, <1>2, FunctionIsSeq
  <1>4. FlattenSeq(Written(LinesAsTexts(lines))) \in Seq(AnyCharacter)
    BY <1>3, WrittenType
  <1>5. Size(lines) \in Nat
    BY <1>4 DEF Size
  <1> QED BY <1>2, <1>3, <1>4, <1>5

\* The block with the lines has four nodes.
LEMMA BlockType ==
    ASSUME NEW path \in AnyString, NEW lines \in Seq(AnyString), NEW truncated \in BOOLEAN
    PROVE  /\ LogsBlock(path, lines, truncated) \in Seq(SomeNode)
           /\ Len(LogsBlock(path, lines, truncated)) = 4
  <1> DEFINE n1 == [depth |-> 0, name |-> <<"l">>, args |-> <<>>]
             n2 == [depth |-> 1, name |-> <<"p">>, args |-> <<Text(path)>>]
             n3 == [depth |-> 1, name |-> <<"t">>,
                    args |-> <<<<IF truncated THEN "true" ELSE "false">>>>]
             n4 == [depth |-> 1, name |-> <<"s">>, args |-> LinesAsTexts(lines)]
  <1>1. n1 \in SomeNode
    <2>1. <<"l">> \in AnyString
      BY LettersAre, Singleton, TextsAre
    <2>2. <<>> \in Seq(AnyValue)
      OBVIOUS
    <2> QED BY <2>1, <2>2 DEF SomeNode
  <1>2. n2 \in SomeNode
    <2>1. <<"p">> \in AnyString
      BY LettersAre, Singleton, TextsAre
    <2>2. <<Text(path)>> \in Seq(AnyValue)
      <3>1. Text(path) \in AnyValue
        BY DEF Text, AnyValue
      <3> QED BY <3>1, Singleton
    <2> QED BY <2>1, <2>2 DEF SomeNode
  <1>3. n3 \in SomeNode
    <2>1. <<"t">> \in AnyString
      BY LettersAre, Singleton, TextsAre
    <2>2. <<IF truncated THEN "true" ELSE "false">> \in AnyValue
      BY DEF AnyValue, Keywords
    <2>3. <<<<IF truncated THEN "true" ELSE "false">>>> \in Seq(AnyValue)
      BY <2>2, Singleton
    <2> QED BY <2>1, <2>3 DEF SomeNode
  <1>4. n4 \in SomeNode
    <2>1. <<"s">> \in AnyString
      BY LettersAre, Singleton, TextsAre
    <2> QED BY <2>1, TextsType DEF SomeNode
  <1>5. LogsBlock(path, lines, truncated) = <<n1, n2, n3, n4>>
    BY DEF LogsBlock, LinesAsTexts
  <1> HIDE DEF n1, n2, n3, n4
  <1> QED BY <1>1, <1>2, <1>3, <1>4, <1>5

\* Only the last node of the block depends on the lines.
LEMMA BlockNodes ==
    ASSUME NEW path \in AnyString, NEW lines \in Seq(AnyString), NEW truncated \in BOOLEAN
    PROVE  LET b == LogsBlock(path, lines, truncated)
               e == LogsBlock(path, <<>>, truncated)
           IN  /\ Len(b) = 4 /\ Len(e) = 4
               /\ \A k \in 1 .. 3 : b[k] = e[k]
               /\ \A k \in 1 .. 4 : NextDepth(b, k) = NextDepth(e, k)
               /\ NextDepth(b, 4) = 0
               /\ b[4] = [depth |-> 1, name |-> <<"s">>, args |-> LinesAsTexts(lines)]
  <1> DEFINE n1 == [depth |-> 0, name |-> <<"l">>, args |-> <<>>]
             n2 == [depth |-> 1, name |-> <<"p">>, args |-> <<Text(path)>>]
             n3 == [depth |-> 1, name |-> <<"t">>,
                    args |-> <<<<IF truncated THEN "true" ELSE "false">>>>]
             n4(ls) == [depth |-> 1, name |-> <<"s">>, args |-> LinesAsTexts(ls)]
             b == LogsBlock(path, lines, truncated)
             e == LogsBlock(path, <<>>, truncated)
  <1>1. b = <<n1, n2, n3, n4(lines)>>
    BY DEF LogsBlock, LinesAsTexts
  <1>2. e = <<n1, n2, n3, n4(<<>>)>>
    BY DEF LogsBlock, LinesAsTexts
  <1>3. n4(lines).depth = 1 /\ n4(<<>>).depth = 1
    OBVIOUS
  <1> HIDE DEF n1, n2, n3, n4
  <1>4. /\ Len(b) = 4 /\ b[1] = n1 /\ b[2] = n2 /\ b[3] = n3 /\ b[4] = n4(lines)
        /\ Len(e) = 4 /\ e[1] = n1 /\ e[2] = n2 /\ e[3] = n3 /\ e[4] = n4(<<>>)
    BY <1>1, <1>2
  <1> HIDE DEF b, e
  <1>5. \A k \in 1 .. 3 : b[k] = e[k] /\ b[k + 1].depth = e[k + 1].depth
    BY <1>3, <1>4
  <1>6. \A k \in 1 .. 4 : NextDepth(b, k) = NextDepth(e, k)
    <2>1. ASSUME NEW k \in 1 .. 4 PROVE NextDepth(b, k) = NextDepth(e, k)
      <3>1. k = 4 \/ k \in 1 .. 3
        OBVIOUS
      <3> QED BY <1>4, <1>5, <3>1 DEF NextDepth
    <2> QED BY <2>1
  <1>7. NextDepth(b, 4) = 0
    BY <1>4 DEF NextDepth
  <1> QED BY <1>4, <1>5, <1>6, <1>7 DEF b, e, n4

\* The length of five parts in a row.
LEMMA LengthOfFive ==
    ASSUME NEW S, NEW a \in Seq(S), NEW b \in Seq(S), NEW c \in Seq(S), NEW d \in Seq(S), NEW e \in Seq(S)
    PROVE  Len(a \o (b \o c \o d \o <<>>) \o e) = Len(a) + Len(b) + Len(c) + Len(d) + Len(e)
  <1>1. b \o c \in Seq(S) /\ Len(b \o c) = Len(b) + Len(c)
    OBVIOUS
  <1>2. b \o c \o d \in Seq(S) /\ Len(b \o c \o d) = Len(b) + Len(c) + Len(d)
    BY <1>1
  <1>3. b \o c \o d \o <<>> = b \o c \o d
    BY <1>2, ConcatEmptySeq
  <1>4. /\ a \o (b \o c \o d) \in Seq(S)
        /\ Len(a \o (b \o c \o d)) = Len(a) + (Len(b) + Len(c) + Len(d))
    BY <1>2
  <1>5. Len(a \o (b \o c \o d) \o e) = Len(a) + (Len(b) + Len(c) + Len(d)) + Len(e)
    BY <1>4
  <1>6. Len(a) \in Nat /\ Len(b) \in Nat /\ Len(c) \in Nat /\ Len(d) \in Nat /\ Len(e) \in Nat
    OBVIOUS
  <1> QED BY <1>3, <1>5, <1>6

\* What is appended is the last element.
LEMMA AppendOne ==
    ASSUME NEW S, NEW s \in Seq(S), NEW x \in S
    PROVE  Append(s, x)[Len(s) + 1] = x /\ \A k \in 1 .. Len(s) : Append(s, x)[k] = s[k]
  OBVIOUS

\* A sequence is its front and its last element.
LEMMA FrontAndOne ==
    ASSUME NEW S, NEW p \in Seq(S), NEW front \in Seq(S), Len(p) = Len(front) + 1,
           \A k \in 1 .. Len(front) : p[k] = front[k]
    PROVE  p = Append(front, p[Len(p)])
  <1>0. p[Len(p)] \in S
    OBVIOUS
  <1> DEFINE x == p[Len(p)]
             a == Append(front, x)
  <1>1. x \in S
    BY <1>0
  <1> HIDE DEF x
  <1>2. a \in Seq(S) /\ Len(a) = Len(front) + 1
    BY <1>1, AppendProperties
  <1>3. a[Len(front) + 1] = x /\ \A k \in 1 .. Len(front) : a[k] = front[k]
    BY <1>1, AppendOne
  <1> HIDE DEF a
  <1>4. \A k \in 1 .. Len(p) : p[k] = a[k]
    BY <1>3 DEF x
  <1>5. Len(p) = Len(a)
    BY <1>2
  <1>6. p = a
    BY <1>2, <1>4, <1>5, SeqEqual
  <1> QED BY <1>6 DEF a, x

\* The last line of the block is as long as its arguments, and something that is fixed.
LEMMA LastPieceSize ==
    ASSUME NEW path \in AnyString, NEW lines \in Seq(AnyString), NEW truncated \in BOOLEAN
    PROVE  LET b == LogsBlock(path, lines, truncated)
           IN  /\ Piece(b, 4) \in Seq(AnyCharacter)
               /\ Len(Piece(b, 4)) = 1 + Len(Spaces(2)) + 1 + Size(lines) + Len(Closing(b, 4))
               /\ Closing(b, 4) \in Seq(AnyCharacter)
  <1> DEFINE b == LogsBlock(path, lines, truncated)
             written == FlattenSeq(Written(LinesAsTexts(lines)))
             closing == Closing(b, 4)
             spaces == Spaces(2)
  <1>0. /\ b[4] = [depth |-> 1, name |-> <<"s">>, args |-> LinesAsTexts(lines)]
        /\ NextDepth(b, 4) = 0
    BY BlockNodes, Zenon
  <1>1. b \in Seq(SomeNode) /\ 4 \in 1 .. Len(b)
    <2>1. b \in Seq(SomeNode)
      BY BlockType
    <2>2. Len(b) = 4
      BY BlockType
    <2> HIDE DEF b
    <2> QED BY <2>1, <2>2
  <1>2. closing \in Seq(AnyCharacter) /\ Piece(b, 4) \in Seq(AnyCharacter)
    BY <1>1, ClosingType, PiecesType
  <1>3. written \in Seq(AnyCharacter) /\ Size(lines) = Len(written)
    BY TextsType DEF Size
  <1>4. Line(b, 4) = spaces \o <<"s">> \o written \o <<>>
    <2> HIDE DEF b
    <2>1. b[4].depth = 1 /\ b[4].name = <<"s">> /\ b[4].args = LinesAsTexts(lines)
      BY <1>0
    <2>2. NextDepth(b, 4) = 0 /\ 2 * 1 = 2
      BY <1>0
    <2>3. Line(b, 4) = Spaces(2 * b[4].depth) \o b[4].name \o FlattenSeq(Written(b[4].args))
                         \o (IF NextDepth(b, 4) > b[4].depth THEN <<" ", "{">> ELSE <<>>)
      BY DEF Line, Written
    <2>4. (IF NextDepth(b, 4) > b[4].depth THEN <<" ", "{">> ELSE <<>>) = <<>>
      BY <2>1, <2>2
    <2>5. Spaces(2 * b[4].depth) = spaces
      BY <2>1, <2>2
    <2> QED BY <2>1, <2>3, <2>4, <2>5
  <1>5. spaces \in Seq(AnyCharacter) /\ <<"s">> \in Seq(AnyCharacter)
    BY SpacesType, LettersAre, Singleton, TextsAre
  <1>6. <<"\n">> \in Seq(AnyCharacter) /\ Len(<<"\n">>) = 1 /\ Len(<<"s">>) = 1
    BY MarksType
  <1>7. Piece(b, 4) = <<"\n">> \o (spaces \o <<"s">> \o written \o <<>>) \o closing
    <2> HIDE DEF b
    <2>1. 4 # 1
      OBVIOUS
    <2> QED BY <1>4, <2>1 DEF Piece
  <1>8. Len(<<"\n">> \o (spaces \o <<"s">> \o written \o <<>>) \o closing)
           = Len(<<"\n">>) + Len(spaces) + Len(<<"s">>) + Len(written) + Len(closing)
    <2> HIDE DEF b, written, closing, spaces
    <2> QED BY <1>2, <1>3, <1>5, <1>6, LengthOfFive
  <1>9. Len(Piece(b, 4)) = 1 + Len(spaces) + 1 + Size(lines) + Len(closing)
    BY <1>3, <1>6, <1>7, <1>8
  <1> QED BY <1>2, <1>9

\* No lines take no room.
LEMMA SizeOfNothing == Size(<<>>) = 0
  <1>0. <<>> \in Seq(AnyString)
    OBVIOUS
  <1>1. Written(LinesAsTexts(<<>>)) = <<>>
    <2>1. LinesAsTexts(<<>>) \in Seq(AnyValue) /\ Len(LinesAsTexts(<<>>)) = Len(<<>>) /\ Len(<<>>) = 0
      BY <1>0, TextsType
    <2>2. Written(LinesAsTexts(<<>>)) \in Seq(Seq(AnyCharacter)) /\ Len(Written(LinesAsTexts(<<>>))) = 0
      BY <2>1, WrittenType
    <2> QED BY <2>2, EmptySeq
  <1> QED BY <1>1, FlattenNothing DEF Size

\* The block without lines, and what the lines add to it.
LEMMA BlockSize ==
    ASSUME NEW path \in AnyString, NEW lines \in Seq(AnyString), NEW truncated \in BOOLEAN
    PROVE  /\ LogsBlockByteSize(path, lines, truncated)
                = LogsBlockByteSize(path, <<>>, truncated) + Size(lines)
           /\ LogsBlockByteSize(path, <<>>, truncated) \in Nat
  <1> DEFINE b == LogsBlock(path, lines, truncated)
             e == LogsBlock(path, <<>>, truncated)
             front == <<Piece(e, 1), Piece(e, 2), Piece(e, 3)>>
  <1>0. <<>> \in Seq(AnyString)
    OBVIOUS
  <1>1. b \in Seq(SomeNode) /\ e \in Seq(SomeNode) /\ Len(b) = 4 /\ Len(e) = 4
    <2>1. b \in Seq(SomeNode)
      BY BlockType
    <2>2. e \in Seq(SomeNode)
      BY <1>0, BlockType
    <2>3. Len(b) = 4
      BY BlockType
    <2>4. Len(e) = 4
      BY <1>0, BlockType
    <2> QED BY <2>1, <2>2, <2>3, <2>4
  <1>1a. /\ \A k \in 1 .. 3 : b[k] = e[k]
         /\ \A k \in 1 .. 4 : NextDepth(b, k) = NextDepth(e, k)
         /\ b[4] = [depth |-> 1, name |-> <<"s">>, args |-> LinesAsTexts(lines)]
    BY BlockNodes, Zenon
  <1>1b. e[4] = [depth |-> 1, name |-> <<"s">>, args |-> LinesAsTexts(<<>>)]
    BY <1>0, BlockNodes, Zenon
  <1>2. /\ Pieces(b) \in Seq(Seq(AnyCharacter)) /\ Len(Pieces(b)) = 4
        /\ \A k \in 1 .. 4 : Pieces(b)[k] = Piece(b, k) /\ Piece(b, k) \in Seq(AnyCharacter)
        /\ Serialize(b) = FlattenSeq(Pieces(b))
    BY <1>1, PiecesType
  <1>3. /\ Pieces(e) \in Seq(Seq(AnyCharacter)) /\ Len(Pieces(e)) = 4
        /\ \A k \in 1 .. 4 : Pieces(e)[k] = Piece(e, k) /\ Piece(e, k) \in Seq(AnyCharacter)
        /\ Serialize(e) = FlattenSeq(Pieces(e)) /\ Serialize(e) \in Seq(AnyCharacter)
    BY <1>1, PiecesType
  <1>4. \A k \in 1 .. 3 : Piece(b, k) = Piece(e, k)
    <2> HIDE DEF b, e
    <2>1. ASSUME NEW k \in 1 .. 3 PROVE Piece(b, k) = Piece(e, k)
      <3>1. b[k] = e[k] /\ NextDepth(b, k) = NextDepth(e, k)
        BY <1>1a
      <3>2. Line(b, k) = Line(e, k)
        BY <3>1 DEF Line
      <3>3. Closing(b, k) = Closing(e, k)
        BY <3>1 DEF Closing
      <3> QED BY <3>2, <3>3 DEF Piece
    <2> QED BY <2>1
  <1>5. Closing(b, 4) = Closing(e, 4)
    <2> HIDE DEF b, e
    <2>1. b[4].depth = 1 /\ e[4].depth = 1 /\ NextDepth(b, 4) = NextDepth(e, 4)
      BY <1>1a, <1>1b
    <2> QED BY <2>1 DEF Closing
  <1>6. front \in Seq(Seq(AnyCharacter)) /\ Len(front) = 3
    <2> HIDE DEF b, e
    <2>1. Piece(e, 1) \in Seq(AnyCharacter) /\ Piece(e, 2) \in Seq(AnyCharacter)
          /\ Piece(e, 3) \in Seq(AnyCharacter)
      BY <1>3
    <2> QED BY <2>1
  <1>7. front[1] = Piece(e, 1) /\ front[2] = Piece(e, 2) /\ front[3] = Piece(e, 3)
    OBVIOUS
  <1> HIDE DEF front
  <1>8. Pieces(b) = Append(front, Piece(b, 4))
    <2> HIDE DEF b, e
    <2>1. /\ \A k \in 1 .. Len(front) : Pieces(b)[k] = front[k]
          /\ Len(Pieces(b)) = Len(front) + 1
      BY <1>2, <1>4, <1>6, <1>7
    <2>2. Pieces(b) = Append(front, Pieces(b)[Len(Pieces(b))])
      BY <1>2, <1>6, <2>1, FrontAndOne
    <2> QED BY <1>2, <2>2
  <1>9. Pieces(e) = Append(front, Piece(e, 4))
    <2> HIDE DEF b, e
    <2>1. /\ \A k \in 1 .. Len(front) : Pieces(e)[k] = front[k]
          /\ Len(Pieces(e)) = Len(front) + 1
      BY <1>3, <1>6, <1>7
    <2>2. Pieces(e) = Append(front, Pieces(e)[Len(Pieces(e))])
      BY <1>3, <1>6, <2>1, FrontAndOne
    <2> QED BY <1>3, <2>2
  <1>10. Piece(b, 4) \in Seq(AnyCharacter) /\ Piece(e, 4) \in Seq(AnyCharacter)
    BY <1>2, <1>3
  <1>11. Serialize(b) = FlattenSeq(front) \o Piece(b, 4)
    BY <1>2, <1>6, <1>8, <1>10, FlattenAppend
  <1>12. Serialize(e) = FlattenSeq(front) \o Piece(e, 4)
    BY <1>3, <1>6, <1>9, <1>10, FlattenAppend
  <1>13. FlattenSeq(front) \in Seq(AnyCharacter)
    BY <1>6, FlattenType
  <1>14. /\ Len(Serialize(b)) = Len(FlattenSeq(front)) + Len(Piece(b, 4))
         /\ Len(Serialize(e)) = Len(FlattenSeq(front)) + Len(Piece(e, 4))
    BY <1>10, <1>11, <1>12, <1>13, ConcatProperties
  <1>15. Len(Piece(b, 4)) = 1 + Len(Spaces(2)) + 1 + Size(lines) + Len(Closing(b, 4))
    BY LastPieceSize
  <1>16. Len(Piece(e, 4)) = 1 + Len(Spaces(2)) + 1 + Size(<<>>) + Len(Closing(e, 4))
    BY <1>0, LastPieceSize
  <1>17. Size(<<>>) = 0
    BY SizeOfNothing
  <1>18. /\ Len(Spaces(2)) \in Nat /\ Len(Closing(b, 4)) \in Nat /\ Size(lines) \in Nat
         /\ Len(FlattenSeq(front)) \in Nat /\ Len(Serialize(e)) \in Nat
    <2>1. Len(Spaces(2)) = 2
      BY SpacesType
    <2>2. Closing(b, 4) \in Seq(AnyCharacter)
      BY LastPieceSize
    <2> QED BY <2>1, <2>2, <1>3, <1>13, TextsType, LenProperties
  <1>19. LogsBlockByteSize(path, lines, truncated) = Len(Serialize(b))
         /\ LogsBlockByteSize(path, <<>>, truncated) = Len(Serialize(e))
    BY DEF LogsBlockByteSize
  <1> HIDE DEF b, e
  <1>20. Len(Piece(b, 4)) = Len(Piece(e, 4)) + Size(lines) /\ Len(Piece(e, 4)) \in Nat
    BY <1>5, <1>15, <1>16, <1>17, <1>18
  <1>21. Len(Serialize(b)) = Len(Serialize(e)) + Size(lines)
    <2> DEFINE f == Len(FlattenSeq(front))
               pb == Len(Piece(b, 4))
               pe == Len(Piece(e, 4))
               z == Size(lines)
    <2>1. Len(Serialize(b)) = f + pb /\ Len(Serialize(e)) = f + pe
      BY <1>14
    <2>2. pb = pe + z /\ pe \in Nat /\ z \in Nat /\ f \in Nat
      BY <1>18, <1>20
    <2> HIDE DEF f, pb, pe, z
    <2>3. f + pb = (f + pe) + z
      BY <2>2
    <2> QED BY <2>1, <2>3 DEF z
  <1> QED BY <1>18, <1>19, <1>21

\* What a line costs.
Cost(x) == 1 + Len(FormatValue(Text(x)))

\* A line costs so many characters.
LEMMA CostType ==
    ASSUME NEW x \in AnyString
    PROVE  /\ Text(x) \in AnyValue
           /\ <<" ">> \o FormatValue(Text(x)) \in Seq(AnyCharacter)
           /\ Len(<<" ">> \o FormatValue(Text(x))) = Cost(x)
           /\ Cost(x) \in Nat
  <1>1. Text(x) \in AnyValue
    BY DEF Text, AnyValue
  <1> DEFINE v == FormatValue(Text(x))
             s == <<" ">>
  <1>2. v \in Seq(AnyCharacter)
    BY <1>1, FormatValueType, TextsAre
  <1>3. s \in Seq(AnyCharacter) /\ Len(s) = 1
    BY MarksType
  <1>4. Cost(x) = 1 + Len(v)
    BY DEF Cost
  <1> HIDE DEF v, s
  <1>5. s \o v \in Seq(AnyCharacter) /\ Len(s \o v) = Len(s) + Len(v)
    BY <1>2, <1>3, ConcatProperties
  <1>6. Len(v) \in Nat
    BY <1>2, LenProperties
  <1>7. Len(s \o v) = Cost(x) /\ Cost(x) \in Nat
    BY <1>3, <1>4, <1>5, <1>6
  <1>8. /\ <<" ">> \o FormatValue(Text(x)) \in Seq(AnyCharacter)
        /\ Len(<<" ">> \o FormatValue(Text(x))) = Cost(x)
    BY <1>5, <1>7 DEF s, v
  <1> QED BY <1>1, <1>7, <1>8

\* The values of the lines, as they are written.
LEMMA WrittenTexts ==
    ASSUME NEW lines \in Seq(AnyString)
    PROVE  /\ Written(LinesAsTexts(lines)) \in Seq(Seq(AnyCharacter))
           /\ Len(Written(LinesAsTexts(lines))) = Len(lines)
           /\ \A k \in 1 .. Len(lines) : Written(LinesAsTexts(lines))[k] = <<" ">> \o FormatValue(Text(lines[k]))
  <1>1. /\ LinesAsTexts(lines) \in Seq(AnyValue)
        /\ \A k \in 1 .. Len(lines) : LinesAsTexts(lines)[k] = Text(lines[k])
    BY TextsType
  <1>2. Len(LinesAsTexts(lines)) = Len(lines)
    BY TextsType
  <1>3. /\ Written(LinesAsTexts(lines)) \in Seq(Seq(AnyCharacter))
        /\ \A i \in 1 .. Len(LinesAsTexts(lines)) :
              Written(LinesAsTexts(lines))[i] = <<" ">> \o FormatValue(LinesAsTexts(lines)[i])
    BY <1>1, WrittenType
  <1>4. Len(Written(LinesAsTexts(lines))) = Len(LinesAsTexts(lines))
    BY <1>1, WrittenType
  <1> QED BY <1>1, <1>2, <1>3, <1>4

\* A line in front of the others takes the room that it costs ...
LEMMA SizeCons ==
    ASSUME NEW x \in AnyString, NEW lines \in Seq(AnyString)
    PROVE  Size(<<x>> \o lines) = Cost(x) + Size(lines)
  <1> DEFINE all == <<x>> \o lines
             w == <<" ">> \o FormatValue(Text(x))
             rest == Written(LinesAsTexts(lines))
             both == <<w>> \o rest
  <1>1. all \in Seq(AnyString) /\ Len(all) = 1 + Len(lines)
    OBVIOUS
  <1>2. all[1] = x /\ \A k \in 2 .. 1 + Len(lines) : all[k] = lines[k - 1]
    OBVIOUS
  <1>3. w \in Seq(AnyCharacter) /\ Len(w) = Cost(x) /\ Cost(x) \in Nat
    BY CostType
  <1>4. rest \in Seq(Seq(AnyCharacter)) /\ Len(rest) = Len(lines)
    BY WrittenTexts
  <1>5. \A k \in 1 .. Len(lines) : rest[k] = <<" ">> \o FormatValue(Text(lines[k]))
    BY WrittenTexts
  <1> HIDE DEF all
  <1>6. /\ Written(LinesAsTexts(all)) \in Seq(Seq(AnyCharacter))
        /\ \A k \in 1 .. Len(all) : Written(LinesAsTexts(all))[k] = <<" ">> \o FormatValue(Text(all[k]))
    BY <1>1, WrittenTexts
  <1>7. Len(Written(LinesAsTexts(all))) = Len(all)
    BY <1>1, WrittenTexts
  <1> HIDE DEF rest
  <1>8. both \in Seq(Seq(AnyCharacter)) /\ Len(both) = 1 + Len(rest)
    <2> HIDE DEF w
    <2> QED BY <1>3, <1>4
  <1>9. both[1] = w /\ \A k \in 2 .. 1 + Len(rest) : both[k] = rest[k - 1]
    <2> HIDE DEF w
    <2> QED BY <1>3, <1>4
  <1> HIDE DEF both
  <1>10. \A k \in 1 .. Len(all) : Written(LinesAsTexts(all))[k] = both[k]
    <2> SUFFICES ASSUME NEW k \in 1 .. Len(all) PROVE Written(LinesAsTexts(all))[k] = both[k]
      OBVIOUS
    <2>1. CASE k = 1
      BY <1>2, <1>6, <1>9, <2>1
    <2>2. CASE k # 1
      <3>1. k \in 2 .. 1 + Len(lines) /\ k - 1 \in 1 .. Len(lines)
        BY <1>1, <2>2
      <3>2. all[k] = lines[k - 1] /\ both[k] = rest[k - 1]
        BY <1>2, <1>4, <1>9, <3>1
      <3>3. rest[k - 1] = <<" ">> \o FormatValue(Text(lines[k - 1]))
        BY <1>5, <3>1
      <3> QED BY <1>6, <3>2, <3>3
    <2> QED BY <2>1, <2>2
  <1>11. Written(LinesAsTexts(all)) = both
    <2>1. Len(Written(LinesAsTexts(all))) = Len(both)
      BY <1>1, <1>4, <1>7, <1>8
    <2> QED BY <1>6, <1>7, <1>8, <1>10, <2>1, SeqEqual
  <1>12. FlattenSeq(both) = w \o FlattenSeq(rest)
    <2> HIDE DEF w
    <2> QED BY <1>3, <1>4, FlattenCons DEF both
  <1>13. FlattenSeq(rest) \in Seq(AnyCharacter)
    BY <1>4, FlattenType
  <1>14. Len(w \o FlattenSeq(rest)) = Cost(x) + Len(FlattenSeq(rest))
    <2> HIDE DEF w
    <2> QED BY <1>3, <1>13, ConcatProperties
  <1>15. Size(all) = Len(FlattenSeq(both)) /\ Size(lines) = Len(FlattenSeq(rest))
    BY <1>11 DEF Size, rest
  <1> QED BY <1>12, <1>14, <1>15 DEF all

\* ... and so does one behind them.
LEMMA SizeAppend ==
    ASSUME NEW x \in AnyString, NEW lines \in Seq(AnyString)
    PROVE  Size(Append(lines, x)) = Size(lines) + Cost(x)
  <1> DEFINE all == Append(lines, x)
             w == <<" ">> \o FormatValue(Text(x))
             rest == Written(LinesAsTexts(lines))
             n == Len(lines)
  <1>1. all \in Seq(AnyString) /\ Len(all) = n + 1
    BY AppendProperties
  <1>2. all[n + 1] = x /\ \A k \in 1 .. n : all[k] = lines[k]
    BY AppendOne
  <1>3. w \in Seq(AnyCharacter) /\ Len(w) = Cost(x) /\ Cost(x) \in Nat
    BY CostType
  <1>4. rest \in Seq(Seq(AnyCharacter)) /\ Len(rest) = n
    BY WrittenTexts
  <1>5. \A k \in 1 .. n : rest[k] = <<" ">> \o FormatValue(Text(lines[k]))
    BY WrittenTexts
  <1>5a. n \in Nat
    OBVIOUS
  <1> HIDE DEF all, n
  <1>6. /\ Written(LinesAsTexts(all)) \in Seq(Seq(AnyCharacter))
        /\ \A k \in 1 .. Len(all) : Written(LinesAsTexts(all))[k] = <<" ">> \o FormatValue(Text(all[k]))
    BY <1>1, WrittenTexts
  <1>7. Len(Written(LinesAsTexts(all))) = Len(all)
    BY <1>1, WrittenTexts
  <1> HIDE DEF rest
  <1>8. \A k \in 1 .. Len(rest) : Written(LinesAsTexts(all))[k] = rest[k]
    <2> SUFFICES ASSUME NEW k \in 1 .. Len(rest) PROVE Written(LinesAsTexts(all))[k] = rest[k]
      OBVIOUS
    <2>1. k \in 1 .. n /\ k \in 1 .. Len(all)
      BY <1>1, <1>4, <1>5a
    <2> QED BY <1>2, <1>5, <1>6, <2>1
  <1>9. Written(LinesAsTexts(all))[Len(all)] = w
    <2>1. n + 1 \in 1 .. Len(all)
      BY <1>1, <1>5a
    <2> QED BY <1>1, <1>2, <1>6, <2>1
  <1>10. Written(LinesAsTexts(all)) = Append(rest, Written(LinesAsTexts(all))[Len(Written(LinesAsTexts(all)))])
    <2>1. Len(Written(LinesAsTexts(all))) = Len(rest) + 1
      BY <1>1, <1>4, <1>7
    <2> QED BY <1>4, <1>6, <1>8, <2>1, FrontAndOne
  <1>11. Written(LinesAsTexts(all)) = Append(rest, w)
    BY <1>7, <1>9, <1>10
  <1>12. FlattenSeq(Append(rest, w)) = FlattenSeq(rest) \o w
    <2> HIDE DEF w
    <2> QED BY <1>3, <1>4, FlattenAppend
  <1>13. FlattenSeq(rest) \in Seq(AnyCharacter)
    BY <1>4, FlattenType
  <1>14. Len(FlattenSeq(rest) \o w) = Len(FlattenSeq(rest)) + Cost(x)
    <2> HIDE DEF w
    <2> QED BY <1>3, <1>13, ConcatProperties
  <1>15. Size(all) = Len(FlattenSeq(Append(rest, w))) /\ Size(lines) = Len(FlattenSeq(rest))
    BY <1>11 DEF Size, rest
  <1> QED BY <1>12, <1>14, <1>15 DEF all

\* What the first lines cost, and the last ones.
LEMMA SizeOfFirst ==
    ASSUME NEW lines \in Seq(AnyString), NEW k \in 1 .. Len(lines)
    PROVE  /\ Size(SubSeq(lines, 1, k)) = Size(SubSeq(lines, 1, k - 1)) + Cost(lines[k])
           /\ Size(SubSeq(lines, k, Len(lines)))
                = Cost(lines[k]) + Size(SubSeq(lines, k + 1, Len(lines)))
  <1> DEFINE n == Len(lines)
             x == lines[k]
             before == SubSeq(lines, 1, k - 1)
             behind == SubSeq(lines, k + 1, n)
  <1>1. n \in Nat /\ k \in 1 .. n /\ x \in AnyString
    OBVIOUS
  <1>2. before \in Seq(AnyString) /\ behind \in Seq(AnyString)
    <2>1. 1 \in 1 .. n + 1 /\ k - 1 \in 1 - 1 .. n /\ k + 1 \in 1 .. n + 1 /\ n \in (k + 1) - 1 .. n
      BY <1>1
    <2> HIDE DEF n
    <2>2. before \in Seq(AnyString)
      BY <2>1, SubSeqType DEF n
    <2>3. behind \in Seq(AnyString)
      BY <2>1, SubSeqType DEF n
    <2> QED BY <2>2, <2>3
  <1>3. SubSeq(lines, 1, k) = before \o <<x>>
    <2>1. 1 \in 1 .. n /\ k \in 1 .. n
      BY <1>1
    <2> QED BY <2>1, SubSeqRecursiveSecond
  <1>4. before \o <<x>> = Append(before, x)
    <2> HIDE DEF before, x
    <2> QED BY <1>1, <1>2, AppendIsConcat
  <1>5. SubSeq(lines, k, n) = <<x>> \o behind
    <2>1. k \in 1 .. n /\ n \in k .. n
      BY <1>1
    <2> QED BY <2>1, SubSeqRecursiveFirst
  <1> HIDE DEF before, behind, x, n
  <1>6. Size(SubSeq(lines, 1, k)) = Size(before) + Cost(x)
    BY <1>1, <1>2, <1>3, <1>4, SizeAppend
  <1>7. Size(SubSeq(lines, k, n)) = Cost(x) + Size(behind)
    BY <1>1, <1>2, <1>5, SizeCons
  <1> QED BY <1>6, <1>7 DEF before, behind, x, n

\* The size of the block with the lines from the d-th on, which is truncated when
\* there are some before them.
SizeFrom(path, log, d) ==
    LogsBlockByteSize(path, SubSeq(log.lines, d + 1, Len(log.lines)), log.truncated \/ d > 0)

IsDropped(path, log, budget, d) ==
    /\ d \in 0 .. Len(log.lines)
    /\ d = Len(log.lines) \/ SizeFrom(path, log, d) <= budget
    /\ \A e \in 0 .. d - 1 : SizeFrom(path, log, e) > budget

\* All lines together cost what each of them costs.
LEMMA SumIsSize ==
    ASSUME NEW lines \in Seq(AnyString), NEW costs, costs[0] = 0,
           \A k \in 1 .. Len(lines) : costs[k] = costs[k - 1] + Cost(lines[k])
    PROVE  costs[Len(lines)] = Size(lines)
  <1> DEFINE n == Len(lines)
             w == [k \in 0 .. n |-> Size(SubSeq(lines, 1, k))]
  <1>1. n \in Nat
    OBVIOUS
  <1>2. w[0] = 0
    <2>1. SubSeq(lines, 1, 0) = <<>>
      BY SubSeqEmpty
    <2>2. w[0] = Size(SubSeq(lines, 1, 0))
      BY <1>1
    <2> QED BY <2>1, <2>2, SizeOfNothing
  <1>3. \A k \in 1 .. n : w[k] = w[k - 1] + Cost(lines[k])
    <2> SUFFICES ASSUME NEW k \in 1 .. n PROVE w[k] = w[k - 1] + Cost(lines[k])
      OBVIOUS
    <2>1. k \in 0 .. n /\ k - 1 \in 0 .. n
      BY <1>1
    <2> QED BY <2>1, SizeOfFirst
  <1>4. \A k \in 1 .. n : costs[k] = costs[k - 1] + Cost(lines[k])
    OBVIOUS
  <1>5. w[n] = Size(lines)
    <2>1. w[n] = Size(SubSeq(lines, 1, n))
      BY <1>1
    <2>2. SubSeq(lines, 1, n) = lines
      BY SubSeqFull
    <2> QED BY <2>1, <2>2
  <1> HIDE DEF w, n
  <1>6. costs[0] = w[0]
    BY <1>2
  <1>7. \A k \in 1 .. n : costs[k - 1] = w[k - 1] => costs[k] = w[k]
    BY <1>3, <1>4
  <1>8. \A k \in 0 .. n : costs[k] = w[k]
    <2> DEFINE T == {k \in 0 .. n : costs[k] = w[k]}
    <2>1. 0 \in T
      BY <1>1, <1>6
    <2>2. ASSUME NEW k \in 1 .. n, k - 1 \in T PROVE k \in T
      BY <1>1, <1>7, <2>2
    <2>3. \A k \in 0 .. n : k \in T
      <3> HIDE DEF T
      <3>1. HandedUp(T, n)
        BY <2>1, <2>2 DEF HandedUp
      <3> QED BY <1>1, <3>1, Upwards
    <2> QED BY <2>3
  <1>9. costs[n] = Size(lines)
    BY <1>1, <1>5, <1>8
  <1> QED BY <1>9 DEF n

\* The costs the code adds up are the size of all lines.
LEMMA CostsAre ==
    ASSUME NEW lines \in Seq(AnyString), NEW costs,
           costs = CHOOSE f : f = [k \in 0 .. Len(lines) |->
                                      IF k = 0 THEN 0 ELSE f[k - 1] + Cost(lines[k])]
    PROVE  costs[Len(lines)] = Size(lines)
  <1> DEFINE n == Len(lines)
             Is(f) == f = [k \in 0 .. n |-> IF k = 0 THEN 0 ELSE f[k - 1] + Cost(lines[k])]
             w == [k \in 0 .. n |-> Size(SubSeq(lines, 1, k))]
  <1>1. n \in Nat
    OBVIOUS
  <1>2. ASSUME NEW k \in 0 .. n
        PROVE  w[k] = IF k = 0 THEN 0 ELSE w[k - 1] + Cost(lines[k])
    <2>1. CASE k = 0
      <3>1. SubSeq(lines, 1, 0) = <<>>
        BY SubSeqEmpty
      <3>2. w[0] = Size(SubSeq(lines, 1, 0))
        BY <1>1
      <3> QED BY <2>1, <3>1, <3>2, SizeOfNothing
    <2>2. CASE k # 0
      <3>1. k \in 1 .. n /\ k - 1 \in 0 .. n
        BY <1>1, <2>2
      <3>2. w[k] = w[k - 1] + Cost(lines[k])
        BY <3>1, SizeOfFirst
      <3> HIDE DEF w
      <3> QED BY <2>2, <3>2
    <2> QED BY <2>1, <2>2
  <1>3. Is(w)
    <2>1. w = [k \in 0 .. n |-> w[k]]
      OBVIOUS
    <2> HIDE DEF w
    <2> QED BY <1>2, <2>1
  <1>4. Is(costs)
    <2> HIDE DEF Is
    <2>1. costs = CHOOSE f : Is(f)
      BY DEF Is
    <2> QED BY <1>3, <2>1
  <1>5. costs[0] = 0 /\ \A k \in 1 .. n : costs[k] = costs[k - 1] + Cost(lines[k])
    <2>1. \A k \in 0 .. n : costs[k] = IF k = 0 THEN 0 ELSE costs[k - 1] + Cost(lines[k])
      BY <1>4
    <2>2. 0 \in 0 .. n /\ \A k \in 1 .. n : k \in 0 .. n /\ k # 0
      BY <1>1
    <2> QED BY <2>1, <2>2
  <1> QED BY <1>5, SumIsSize

SomeLog == [lines : Seq(AnyString), truncated : BOOLEAN]

\* The size of the block is that of the empty one and of the lines it has.
LEMMA SizeFromIs ==
    ASSUME NEW path \in AnyString, NEW log \in SomeLog, NEW d \in 0 .. Len(log.lines)
    PROVE  /\ SizeFrom(path, log, d) = LogsBlockByteSize(path, <<>>, log.truncated \/ d > 0)
                                        + Size(SubSeq(log.lines, d + 1, Len(log.lines)))
           /\ LogsBlockByteSize(path, <<>>, log.truncated \/ d > 0) \in Nat
           /\ Size(SubSeq(log.lines, d + 1, Len(log.lines))) \in Nat
  <1> DEFINE n == Len(log.lines)
             behind == SubSeq(log.lines, d + 1, n)
             t == log.truncated \/ d > 0
  <1>1. log.lines \in Seq(AnyString)
    BY DEF SomeLog
  <1>2. behind \in Seq(AnyString)
    <2>1. n \in Nat
      BY <1>1
    <2>2. d + 1 \in 1 .. n + 1 /\ n \in (d + 1) - 1 .. n
      BY <2>1
    <2> QED BY <1>1, <2>2, SubSeqType
  <1>3. t \in BOOLEAN
    OBVIOUS
  <1>4. SizeFrom(path, log, d) = LogsBlockByteSize(path, behind, t)
    BY DEF SizeFrom
  <1> HIDE DEF behind, t
  <1>5. /\ LogsBlockByteSize(path, behind, t) = LogsBlockByteSize(path, <<>>, t) + Size(behind)
        /\ LogsBlockByteSize(path, <<>>, t) \in Nat
    BY <1>2, <1>3, BlockSize
  <1>6. Size(behind) \in Nat
    BY <1>2, TextsType
  <1> QED BY <1>4, <1>5, <1>6 DEF behind, t

\* Dropping one more line saves what it costs, and the first one adds the mark that
\* the block is truncated.
LEMMA SizeFromSteps ==
    ASSUME NEW path \in AnyString, NEW log \in SomeLog
    PROVE  /\ SizeFrom(path, log, 0)
                = LogsBlockByteSize(path, <<>>, log.truncated) + Size(log.lines)
           /\ \A d \in 1 .. Len(log.lines) :
                 SizeFrom(path, log, d) = SizeFrom(path, log, d - 1) - Cost(log.lines[d])
                   + IF d = 1 /\ ~log.truncated
                     THEN LogsBlockByteSize(path, <<>>, TRUE) - LogsBlockByteSize(path, <<>>, FALSE)
                     ELSE 0
  <1> DEFINE n == Len(log.lines)
             B(t) == LogsBlockByteSize(path, <<>>, t)
             size(d) == Size(SubSeq(log.lines, d + 1, n))
  <1>1. log.lines \in Seq(AnyString) /\ log.truncated \in BOOLEAN /\ n \in Nat
    <2>1. log.lines \in Seq(AnyString) /\ log.truncated \in BOOLEAN
      BY DEF SomeLog
    <2> QED BY <2>1
  <1>2. B(TRUE) \in Nat /\ B(FALSE) \in Nat
    <2>1. <<>> \in Seq(AnyString)
      OBVIOUS
    <2>2. B(TRUE) \in Nat
      BY <2>1, BlockSize
    <2>3. B(FALSE) \in Nat
      BY <2>1, BlockSize
    <2> QED BY <2>2, <2>3
  <1>3. ASSUME NEW d \in 0 .. n
        PROVE  /\ SizeFrom(path, log, d) = B(log.truncated \/ d > 0) + size(d)
               /\ size(d) \in Nat
    BY SizeFromIs
  <1>4. ASSUME NEW d \in 0 .. n
        PROVE  B(log.truncated \/ d > 0)
                  = IF log.truncated THEN B(TRUE) ELSE IF d = 0 THEN B(FALSE) ELSE B(TRUE)
    <2>1. d \in Nat
      BY <1>1
    <2>2. CASE log.truncated
      <3>1. (log.truncated \/ d > 0) = TRUE
        BY <2>2
      <3> QED BY <2>2, <3>1, Zenon
    <2>3. CASE ~log.truncated /\ d = 0
      <3>1. (log.truncated \/ d > 0) = FALSE
        BY <2>3
      <3> QED BY <2>3, <3>1, Zenon
    <2>4. CASE ~log.truncated /\ d # 0
      <3>1. (log.truncated \/ d > 0) = TRUE
        BY <2>1, <2>4
      <3> QED BY <2>4, <3>1, Zenon
    <2> QED BY <2>2, <2>3, <2>4
  <1>5. ASSUME NEW d \in 1 .. n
        PROVE  size(d - 1) = Cost(log.lines[d]) + size(d)
    <2>1. Size(SubSeq(log.lines, d, n)) = Cost(log.lines[d]) + Size(SubSeq(log.lines, d + 1, n))
      BY <1>1, SizeOfFirst
    <2>2. (d - 1) + 1 = d
      BY <1>1
    <2> QED BY <2>1, <2>2
  <1>6. ASSUME NEW d \in 1 .. n PROVE Cost(log.lines[d]) \in Nat
    <2>1. log.lines[d] \in AnyString
      BY <1>1, ElementOfSeq
    <2> QED BY <2>1, CostType
  <1>7. SizeFrom(path, log, 0) = B(log.truncated) + Size(log.lines)
    <2>1. 0 \in 0 .. n
      BY <1>1
    <2>2. SizeFrom(path, log, 0) = B(log.truncated \/ 0 > 0) + size(0)
      BY <1>3, <2>1, Zenon
    <2>3. (log.truncated \/ 0 > 0) = log.truncated
      BY <1>1
    <2>4. size(0) = Size(log.lines)
      <3>1. SubSeq(log.lines, 1, n) = log.lines
        BY <1>1, SubSeqFull
      <3>2. 0 + 1 = 1
        OBVIOUS
      <3> QED BY <3>1, <3>2
    <2> QED BY <2>2, <2>3, <2>4, Zenon
  <1>8. ASSUME NEW d \in 1 .. n
        PROVE  SizeFrom(path, log, d) = SizeFrom(path, log, d - 1) - Cost(log.lines[d])
                   + IF d = 1 /\ ~log.truncated THEN B(TRUE) - B(FALSE) ELSE 0
    <2> DEFINE now == SizeFrom(path, log, d)
               before == SizeFrom(path, log, d - 1)
               cost == Cost(log.lines[d])
               all == size(d - 1)
               rest == size(d)
               bt == B(TRUE)
               bf == B(FALSE)
    <2>1. d \in 0 .. n /\ d - 1 \in 0 .. n /\ (d - 1 = 0 <=> d = 1) /\ d # 0
      BY <1>1
    <2>2. now = (IF log.truncated THEN bt ELSE IF d = 0 THEN bf ELSE bt) + rest
      BY <1>3, <1>4, <2>1, Zenon
    <2>3. before = (IF log.truncated THEN bt ELSE IF d - 1 = 0 THEN bf ELSE bt) + all
      BY <1>3, <1>4, <2>1, Zenon
    <2>4. all = cost + rest
      BY <1>5
    <2>5. cost \in Nat /\ rest \in Nat /\ bt \in Nat /\ bf \in Nat
      BY <1>2, <1>3, <1>6, <2>1
    <2> HIDE DEF now, before, cost, all, rest, bt, bf
    <2>6. now = before - cost + IF d = 1 /\ ~log.truncated THEN bt - bf ELSE 0
      BY <2>1, <2>2, <2>3, <2>4, <2>5
    <2> QED BY <2>6 DEF now, before, cost, bt, bf
  <1> QED BY <1>7, <1>8

Cuts(f, path, log, total) ==
    f = [d \in 0 .. Len(log.lines) |->
          IF d = 0 THEN LogsBlockByteSize(path, <<>>, log.truncated) + total
          ELSE f[d - 1] - Cost(log.lines[d])
                 + IF d = 1 /\ ~log.truncated
                   THEN LogsBlockByteSize(path, <<>>, TRUE)
                          - LogsBlockByteSize(path, <<>>, FALSE)
                   ELSE 0]

\* The sizes that are kept up to date are those of the blocks.
LEMMA CutIs ==
    ASSUME NEW path \in AnyString, NEW log \in SomeLog, NEW total, total = Size(log.lines), NEW cut,
           cut = CHOOSE f : Cuts(f, path, log, total)
    PROVE  \A d \in 0 .. Len(log.lines) : cut[d] = SizeFrom(path, log, d)
  <1> DEFINE n == Len(log.lines)
             more(d) == IF d = 1 /\ ~log.truncated
                        THEN LogsBlockByteSize(path, <<>>, TRUE) - LogsBlockByteSize(path, <<>>, FALSE)
                        ELSE 0
             base == LogsBlockByteSize(path, <<>>, log.truncated) + total
             Is(f) == f = [d \in 0 .. n |-> IF d = 0 THEN base
                                            ELSE f[d - 1] - Cost(log.lines[d]) + more(d)]
             w == [d \in 0 .. n |-> SizeFrom(path, log, d)]
  <1>1. n \in Nat
    BY DEF SomeLog
  <1>2. ASSUME NEW d \in 0 .. n
        PROVE  w[d] = IF d = 0 THEN base ELSE w[d - 1] - Cost(log.lines[d]) + more(d)
    <2>1. CASE d = 0
      <3>1. w[0] = SizeFrom(path, log, 0)
        BY <1>1
      <3>2. SizeFrom(path, log, 0) = base
        BY SizeFromSteps
      <3> HIDE DEF w, base
      <3> QED BY <2>1, <3>1, <3>2
    <2>2. CASE d # 0
      <3>1. d \in 1 .. n /\ d - 1 \in 0 .. n
        BY <1>1, <2>2
      <3>2. SizeFrom(path, log, d) = SizeFrom(path, log, d - 1) - Cost(log.lines[d]) + more(d)
        BY <3>1, SizeFromSteps
      <3>3. w[d] = SizeFrom(path, log, d) /\ w[d - 1] = SizeFrom(path, log, d - 1)
        BY <3>1
      <3> HIDE DEF w, base, more
      <3> QED BY <2>2, <3>2, <3>3
    <2> QED BY <2>1, <2>2
  <1>3. Is(w)
    <2>1. w = [d \in 0 .. n |-> w[d]]
      OBVIOUS
    <2> HIDE DEF w, base, more
    <2> QED BY <1>2, <2>1
  <1>4. Is(cut)
    <2>1. cut = CHOOSE f : Is(f)
      BY DEF Cuts
    <2> HIDE DEF Is
    <2> QED BY <1>3, <2>1
  <1>5. /\ cut[0] = base
        /\ \A d \in 1 .. n : cut[d] = cut[d - 1] - Cost(log.lines[d]) + more(d)
    <2> HIDE DEF base, more
    <2>1. \A d \in 0 .. n : cut[d] = IF d = 0 THEN base
                                     ELSE cut[d - 1] - Cost(log.lines[d]) + more(d)
      BY <1>4
    <2>2. 0 \in 0 .. n /\ \A d \in 1 .. n : d \in 0 .. n /\ d # 0
      BY <1>1
    <2> QED BY <2>1, <2>2
  <1> DEFINE T == {d \in 0 .. n : cut[d] = SizeFrom(path, log, d)}
  <1>6. 0 \in T
    <2>1. SizeFrom(path, log, 0) = base
      BY SizeFromSteps
    <2> HIDE DEF base
    <2> QED BY <1>1, <1>5, <2>1
  <1>7. ASSUME NEW d \in 1 .. n, d - 1 \in T PROVE d \in T
    <2>1. SizeFrom(path, log, d) = SizeFrom(path, log, d - 1) - Cost(log.lines[d]) + more(d)
      BY SizeFromSteps
    <2>2. cut[d - 1] = SizeFrom(path, log, d - 1) /\ d \in 0 .. n
      BY <1>1, <1>7
    <2> HIDE DEF more, base
    <2> QED BY <1>5, <2>1, <2>2
  <1>8. \A d \in 0 .. n : d \in T
    <2> HIDE DEF T
    <2>1. HandedUp(T, n)
      BY <1>6, <1>7 DEF HandedUp
    <2> QED BY <1>1, <2>1, Upwards
  <1> QED BY <1>8

\* What is dropped: the least number of lines without which the block fits.
LEMMA FitIs ==
    ASSUME NEW path \in AnyString, NEW log \in SomeLog, NEW budget \in Nat
    PROVE  \E d : /\ IsDropped(path, log, budget, d)
                  /\ FitLogLinesToFrame(path, log, budget)
                       = [lines |-> SubSeq(log.lines, d + 1, Len(log.lines)),
                          truncated |-> log.truncated \/ d > 0]
  <1> DEFINE n == Len(log.lines)
             cost(k) == 1 + Len(FormatValue(Text(log.lines[k])))
             costs == CHOOSE f : f = [k \in 0 .. n |-> IF k = 0 THEN 0 ELSE f[k - 1] + cost(k)]
             cut == CHOOSE f : f = [d \in 0 .. n |->
                        IF d = 0 THEN LogsBlockByteSize(path, <<>>, log.truncated) + costs[n]
                        ELSE f[d - 1] - cost(d)
                               + IF d = 1 /\ ~log.truncated
                                 THEN LogsBlockByteSize(path, <<>>, TRUE)
                                        - LogsBlockByteSize(path, <<>>, FALSE)
                                 ELSE 0]
             Stops(d) == /\ d = n \/ cut[d] <= budget
                         /\ \A e \in 0 .. d - 1 : cut[e] > budget
             drop == CHOOSE d \in 0 .. n : Stops(d)
  <1>1. FitLogLinesToFrame(path, log, budget)
          = [lines |-> SubSeq(log.lines, drop + 1, n), truncated |-> log.truncated \/ drop > 0]
    BY DEF FitLogLinesToFrame
  <1>2. n \in Nat /\ log.lines \in Seq(AnyString)
    BY DEF SomeLog
  <1>3. costs[n] = Size(log.lines)
    BY <1>2, CostsAre DEF Cost
  <1>4. \A d \in 0 .. n : cut[d] = SizeFrom(path, log, d)
    <2> DEFINE total == costs[n]
    <2>1. total = Size(log.lines)
      BY <1>3
    <2>2. cut = CHOOSE f : Cuts(f, path, log, total)
      BY DEF Cost, Cuts
    <2> HIDE DEF total, cut, costs
    <2> QED BY <2>1, <2>2, CutIs
  <1>5. \A d \in 0 .. n : cut[d] \in Int
    <2>1. ASSUME NEW d \in 0 .. n PROVE SizeFrom(path, log, d) \in Int
      <3>1. LogsBlockByteSize(path, <<>>, log.truncated \/ d > 0) \in Nat
            /\ Size(SubSeq(log.lines, d + 1, Len(log.lines))) \in Nat
        BY SizeFromIs
      <3>2. SizeFrom(path, log, d) = LogsBlockByteSize(path, <<>>, log.truncated \/ d > 0)
                                        + Size(SubSeq(log.lines, d + 1, Len(log.lines)))
        BY SizeFromIs
      <3> QED BY <3>1, <3>2
    <2> HIDE DEF cut, n
    <2> QED BY <1>4, <2>1
  <1> HIDE DEF cut, costs, n
  <1>6. \E d \in 0 .. n : Stops(d)
    <2> DEFINE T == {d \in 0 .. n : d = n \/ cut[d] <= budget}
    <2>1. T \subseteq Nat /\ n \in T
      BY <1>2
    <2>2. PICK d \in T : \A e \in T : d <= e
      <3> HIDE DEF T
      <3> QED BY <2>1, LeastNumber
    <2>3. \A e \in 0 .. d - 1 : cut[e] > budget
      <3>1. ASSUME NEW e \in 0 .. d - 1 PROVE cut[e] > budget
        <4>1. e \in 0 .. n /\ e # n /\ ~(d <= e)
          BY <1>2, <2>2
        <4>2. e \notin T
          BY <2>2, <4>1
        <4> QED BY <1>5, <4>1, <4>2
      <3> QED BY <3>1
    <2> QED BY <2>2, <2>3
  <1>7. drop \in 0 .. n /\ Stops(drop)
    <2> HIDE DEF Stops
    <2> QED BY <1>6
  <1> HIDE DEF drop
  <1>8. IsDropped(path, log, budget, drop)
    <2>1. \A e \in 0 .. drop - 1 : SizeFrom(path, log, e) > budget
      <3>1. \A e \in 0 .. drop - 1 : e \in 0 .. n
        BY <1>2, <1>7
      <3> QED BY <1>4, <1>7, <3>1
    <2>2. drop = n \/ SizeFrom(path, log, drop) <= budget
      BY <1>4, <1>7
    <2> QED BY <1>7, <2>1, <2>2 DEF IsDropped, n
  <1> QED BY <1>1, <1>8 DEF n

\* The last so many lines.
LastOf(all, n) == SubSeq(all, Len(all) - n + 1, Len(all))

\* The last of the last lines are the last lines.
LEMMA LastOfLast ==
    ASSUME NEW S, NEW all \in Seq(S), NEW m \in 0 .. Len(all), NEW e \in 0 .. m
    PROVE  /\ LastOf(all, m) \in Seq(S) /\ Len(LastOf(all, m)) = m
           /\ SubSeq(LastOf(all, m), e + 1, m) = LastOf(all, m - e)
  <1> DEFINE n == Len(all)
             last == SubSeq(all, n - m + 1, n)
             inner == SubSeq(last, e + 1, m)
             outer == SubSeq(all, n - (m - e) + 1, n)
  <1>1. n \in Nat /\ m \in Nat /\ e \in Nat /\ m <= n /\ e <= m
    OBVIOUS
  <1>2. /\ n - m + 1 \in 1 .. n + 1 /\ n \in (n - m + 1) - 1 .. n
        /\ n - (m - e) + 1 \in 1 .. n + 1 /\ n \in (n - (m - e) + 1) - 1 .. n
        /\ n - (n - m + 1) + 1 = m /\ n - (n - (m - e) + 1) + 1 = m - e
    <2> HIDE DEF n
    <2> QED BY <1>1
  <1>3. last \in Seq(S) /\ \A k \in 1 .. n - (n - m + 1) + 1 : last[k] = all[(n - m + 1) + k - 1]
    BY <1>2, SubSeqType
  <1>4. Len(last) = n - (n - m + 1) + 1
    BY <1>2, SubSeqType
  <1>5. outer \in Seq(S) /\ \A k \in 1 .. n - (n - (m - e) + 1) + 1 :
                               outer[k] = all[(n - (m - e) + 1) + k - 1]
    BY <1>2, SubSeqType
  <1>6. Len(outer) = n - (n - (m - e) + 1) + 1
    BY <1>2, SubSeqType
  <1> HIDE DEF n, last, outer
  <1>7. Len(last) = m /\ \A k \in 1 .. m : last[k] = all[(n - m + 1) + k - 1]
    BY <1>2, <1>3, <1>4
  <1>8. Len(outer) = m - e /\ \A k \in 1 .. m - e : outer[k] = all[(n - (m - e) + 1) + k - 1]
    BY <1>2, <1>5, <1>6
  <1>9. e + 1 \in 1 .. Len(last) + 1 /\ m \in (e + 1) - 1 .. Len(last) /\ m - (e + 1) + 1 = m - e
    BY <1>1, <1>7
  <1>10. inner \in Seq(S) /\ \A k \in 1 .. m - (e + 1) + 1 : inner[k] = last[(e + 1) + k - 1]
    BY <1>3, <1>9, SubSeqType
  <1>11. Len(inner) = m - (e + 1) + 1
    BY <1>3, <1>9, SubSeqType
  <1> HIDE DEF inner
  <1>12. \A k \in 1 .. Len(inner) : inner[k] = outer[k]
    <2> SUFFICES ASSUME NEW k \in 1 .. m - e PROVE inner[k] = outer[k]
      BY <1>9, <1>11
    <2>1. inner[k] = last[e + k]
      <3>1. (e + 1) + k - 1 = e + k
        BY <1>1
      <3> QED BY <1>9, <1>10, <3>1
    <2>2. last[e + k] = all[(n - m + 1) + (e + k) - 1]
      <3>1. e + k \in 1 .. m
        BY <1>1
      <3> QED BY <1>7, <3>1
    <2>3. (n - m + 1) + (e + k) - 1 = (n - (m - e) + 1) + k - 1
      BY <1>1
    <2> QED BY <1>8, <2>1, <2>2, <2>3
  <1>13. inner = outer
    <2>1. Len(inner) = Len(outer)
      BY <1>8, <1>9, <1>11
    <2> QED BY <1>5, <1>10, <1>12, <2>1, SeqEqual
  <1> QED BY <1>3, <1>7, <1>13 DEF LastOf, n, last, inner, outer

\* A cut of a beginning is a cut of the whole.
LEMMA EndOfPrefix ==
    ASSUME NEW S, NEW s \in Seq(S), NEW q \in 0 .. Len(s), NEW i \in 1 .. q + 1
    PROVE  SubSeq(SubSeq(s, 1, q), i, q) = SubSeq(s, i, q)
  <1> DEFINE pre == SubSeq(s, 1, q)
             inner == SubSeq(pre, i, q)
             outer == SubSeq(s, i, q)
  <1>1. /\ Len(s) \in Nat /\ q \in Nat /\ i \in Nat /\ 1 \in 1 .. Len(s) + 1 /\ q \in 1 - 1 .. Len(s)
        /\ i \in 1 .. Len(s) + 1 /\ q \in i - 1 .. Len(s) /\ q - 1 + 1 = q
    OBVIOUS
  <1>2. pre \in Seq(S) /\ \A k \in 1 .. q - 1 + 1 : pre[k] = s[1 + k - 1]
    BY <1>1, SubSeqType
  <1>3. Len(pre) = q - 1 + 1
    BY <1>1, SubSeqType
  <1>4. outer \in Seq(S) /\ \A k \in 1 .. q - i + 1 : outer[k] = s[i + k - 1]
    BY <1>1, SubSeqType
  <1>5. Len(outer) = q - i + 1
    BY <1>1, SubSeqType
  <1> HIDE DEF pre, outer
  <1>6. Len(pre) = q /\ i \in 1 .. Len(pre) + 1 /\ q \in i - 1 .. Len(pre)
    BY <1>1, <1>3
  <1>7. inner \in Seq(S) /\ \A k \in 1 .. q - i + 1 : inner[k] = pre[i + k - 1]
    BY <1>2, <1>6, SubSeqType
  <1>8. Len(inner) = q - i + 1
    BY <1>2, <1>6, SubSeqType
  <1> HIDE DEF inner
  <1>9. \A k \in 1 .. Len(inner) : inner[k] = outer[k]
    <2> SUFFICES ASSUME NEW k \in 1 .. q - i + 1 PROVE inner[k] = outer[k]
      BY <1>8
    <2>1. i + k - 1 \in 1 .. q - 1 + 1 /\ 1 + (i + k - 1) - 1 = i + k - 1
      BY <1>1
    <2>2. pre[i + k - 1] = s[i + k - 1]
      BY <1>2, <2>1
    <2> QED BY <1>4, <1>7, <2>2
  <1>10. inner = outer
    BY <1>4, <1>5, <1>7, <1>8, <1>9, SeqEqual
  <1> QED BY <1>10 DEF inner, outer, pre

\* The answer has the last lines that fit, for any path, file, number of lines and room.
LEMMA AnswerIsTheEnd ==
    ASSUME NEW path \in AnyString, NEW file \in AnyString, NEW tail \in Nat \ {0}, NEW budget \in Nat
    PROVE  LET all == LinesOf(file)
               asked == Min({tail, Len(all)})
               last(n) == SubSeq(all, Len(all) - n + 1, Len(all))
               block(n) == LogsBlock(path, last(n), n < Len(all))
               fits(n) == Len(Serialize(block(n))) <= budget
               most == Max({n \in 0 .. asked : fits(n)} \cup {0})
           IN  DoGetLogs(path, file, tail, budget) = block(most)
  <1> DEFINE all == LinesOf(file)
             parts == Split(file)
             N == Len(all)
             asked == Min({tail, N})
             block(n) == LogsBlock(path, LastOf(all, n), n < N)
             fits(n) == Len(Serialize(block(n))) <= budget
             T == {n \in 0 .. asked : fits(n)} \cup {0}
             log == ReadLogTail(file, tail)
  <1>1. PICK last : IsLastLine(parts, last) /\ all = SubSeq(parts, 1, last)
    BY LastLine
  <1>2. parts \in Seq(AnyString) /\ last \in 0 .. Len(parts) /\ Len(parts) \in Nat
    <2>1. parts \in Seq(AnyString)
      BY SplitType DEF Parts
    <2> QED BY <1>1, <2>1 DEF IsLastLine
  <1>3. all \in Seq(AnyString) /\ N = last /\ last \in Nat
    <2> HIDE DEF parts, all
    <2>1. 1 \in 1 .. Len(parts) + 1 /\ last \in 1 - 1 .. Len(parts) /\ last - 1 + 1 = last
      BY <1>2
    <2>2. all \in Seq(AnyString)
      BY <1>1, <1>2, <2>1, SubSeqType
    <2>3. N = last
      BY <1>1, <1>2, <2>1, SubSeqType
    <2> QED BY <1>2, <2>2, <2>3
  <1>4. asked = (IF last <= tail THEN last ELSE tail)
    <2> HIDE DEF N
    <2>1. Min({tail, N}) = IF tail <= N THEN tail ELSE N
      BY <1>3, MinOfTwo
    <2> QED BY <1>3, <2>1
  <1>5. log = [lines |-> SubSeq(parts, last - asked + 1, last), truncated |-> last > tail]
    <2> HIDE DEF asked
    <2> QED BY <1>1, <1>4, LogTailIs
  <1> HIDE DEF asked
  <1>6. asked \in 0 .. last /\ asked \in Nat
    BY <1>3, <1>4
  <1>7. SubSeq(parts, last - asked + 1, last) = LastOf(all, asked)
    <2> HIDE DEF parts, all
    <2>1. last - asked + 1 \in 1 .. last + 1
      BY <1>3, <1>6
    <2>2. SubSeq(SubSeq(parts, 1, last), last - asked + 1, last) = SubSeq(parts, last - asked + 1, last)
      BY <1>2, <2>1, EndOfPrefix
    <2> QED BY <1>1, <1>3, <2>2 DEF LastOf
  <1> HIDE DEF log, all, parts
  <1>8. /\ log \in SomeLog /\ log.lines = LastOf(all, asked) /\ log.truncated = (last > tail)
        /\ LastOf(all, asked) \in Seq(AnyString)
    <2>1. LastOf(all, asked) \in Seq(AnyString)
      <3>1. asked \in 0 .. Len(all) /\ 0 \in 0 .. asked
        BY <1>3, <1>6
      <3> QED BY <1>3, <3>1, LastOfLast
    <2>2. (last > tail) \in BOOLEAN
      OBVIOUS
    <2> QED BY <1>5, <1>7, <2>1, <2>2 DEF SomeLog
  <1>9. Len(log.lines) = asked
    <2>1. asked \in 0 .. Len(all) /\ 0 \in 0 .. asked
      BY <1>3, <1>6
    <2>2. Len(LastOf(all, asked)) = asked
      BY <1>3, <2>1, LastOfLast
    <2> QED BY <1>8, <2>2
  <1>10. ASSUME NEW e \in 0 .. asked
         PROVE  /\ SubSeq(log.lines, e + 1, asked) = LastOf(all, asked - e)
                /\ (log.truncated \/ e > 0) = (asked - e < N)
    <2>1. asked \in 0 .. Len(all)
      BY <1>3, <1>6
    <2>2. SubSeq(log.lines, e + 1, asked) = LastOf(all, asked - e)
      <3>1. SubSeq(LastOf(all, asked), e + 1, asked) = LastOf(all, asked - e)
        BY <1>3, <2>1, LastOfLast, Zenon
      <3> QED BY <1>8, <3>1
    <2>3. (log.truncated \/ e > 0) = (asked - e < N)
      <3> HIDE DEF N
      <3>1. CASE last > tail
        <4>1. asked - e < N
          BY <1>3, <1>4, <1>6, <3>1
        <4>2. log.truncated
          BY <1>8, <3>1
        <4> QED BY <4>1, <4>2
      <3>2. CASE ~(last > tail)
        <4>1. asked = last
          BY <1>3, <1>4, <3>2
        <4>2. e > 0 <=> asked - e < N
          BY <1>3, <4>1
        <4>3. ~log.truncated
          BY <1>8, <3>2
        <4> QED BY <4>2, <4>3
      <3> QED BY <3>1, <3>2
    <2> QED BY <2>2, <2>3
  <1>11. ASSUME NEW e \in 0 .. asked
         PROVE  SizeFrom(path, log, e) = Len(Serialize(block(asked - e)))
    BY <1>9, <1>10, Zenon DEF SizeFrom, LogsBlockByteSize
  <1>11a. ASSUME NEW e \in 0 .. asked PROVE SizeFrom(path, log, e) \in Nat
    <2>1. e \in 0 .. Len(log.lines)
      BY <1>9
    <2>2. /\ LogsBlockByteSize(path, <<>>, log.truncated \/ e > 0) \in Nat
          /\ Size(SubSeq(log.lines, e + 1, Len(log.lines))) \in Nat
      BY <1>8, <2>1, SizeFromIs
    <2>3. SizeFrom(path, log, e) = LogsBlockByteSize(path, <<>>, log.truncated \/ e > 0)
                                     + Size(SubSeq(log.lines, e + 1, Len(log.lines)))
      BY <1>8, <2>1, SizeFromIs
    <2> QED BY <2>2, <2>3
  <1>12. PICK d : /\ IsDropped(path, log, budget, d)
                  /\ FitLogLinesToFrame(path, log, budget)
                       = [lines |-> SubSeq(log.lines, d + 1, Len(log.lines)),
                          truncated |-> log.truncated \/ d > 0]
    BY <1>8, FitIs
  <1> HIDE DEF block
  <1>13. /\ d \in 0 .. asked /\ (d = asked \/ fits(asked - d))
         /\ \A e \in 0 .. d - 1 : ~fits(asked - e)
    <2>1. /\ d \in 0 .. asked /\ (d = asked \/ SizeFrom(path, log, d) <= budget)
          /\ \A e \in 0 .. d - 1 : SizeFrom(path, log, e) > budget
      BY <1>9, <1>12 DEF IsDropped
    <2>2. d = asked \/ fits(asked - d)
      BY <1>11, <2>1
    <2>3. ASSUME NEW e \in 0 .. d - 1 PROVE ~fits(asked - e)
      <3>1. e \in 0 .. asked
        BY <1>6, <2>1
      <3>2. SizeFrom(path, log, e) > budget
        BY <2>1
      <3>3. SizeFrom(path, log, e) \in Nat /\ SizeFrom(path, log, e) = Len(Serialize(block(asked - e)))
        BY <1>11, <1>11a, <3>1
      <3> QED BY <3>2, <3>3
    <2> QED BY <2>1, <2>2, <2>3
  <1> HIDE DEF fits
  <1>14. Max(T) = asked - d
    <2>1. T \subseteq 0 .. asked /\ T # {}
      BY <1>6
    <2>2. asked - d \in T
      BY <1>6, <1>13
    <2>3. ASSUME NEW n \in T PROVE n <= asked - d
      <3>1. CASE n = 0
        BY <1>6, <1>13, <3>1
      <3>2. CASE n # 0 /\ ~(n <= asked - d)
        <4>1. asked - n \in 0 .. d - 1 /\ asked - (asked - n) = n
          BY <1>6, <1>13, <3>2, <2>1
        <4>2. ~fits(n)
          BY <1>13, <4>1
        <4> QED BY <3>2, <4>2
      <3> QED BY <3>1, <3>2
    <2> HIDE DEF T
    <2>4. Max(T) \in T /\ \A k \in T : Max(T) >= k
      BY <1>6, <2>1, GreatestNumber
    <2>5. Max(T) \in 0 .. asked /\ Max(T) <= asked - d /\ Max(T) >= asked - d
      BY <2>1, <2>2, <2>3, <2>4
    <2> QED BY <1>6, <1>13, <2>5
  <1>15. DoGetLogs(path, file, tail, budget) = block(asked - d)
    <2> DEFINE cut == FitLogLinesToFrame(path, log, budget)
    <2>1. DoGetLogs(path, file, tail, budget) = LogsBlock(path, cut.lines, cut.truncated)
      BY DEF DoGetLogs, log
    <2>2. cut.lines = LastOf(all, asked - d) /\ cut.truncated = (asked - d < N)
      <3>1. cut = [lines |-> SubSeq(log.lines, d + 1, asked), truncated |-> log.truncated \/ d > 0]
        BY <1>9, <1>12, Zenon
      <3> HIDE DEF cut
      <3>2. cut.lines = SubSeq(log.lines, d + 1, asked)
        BY <3>1
      <3>3. cut.truncated = (log.truncated \/ d > 0)
        BY <3>1
      <3> QED BY <1>10, <1>13, <3>2, <3>3
    <2> HIDE DEF cut
    <2> QED BY <2>1, <2>2, Zenon DEF block
  <1> QED BY <1>14, <1>15 DEF LastOf, all, asked, block, fits

\* However the blocks fall that read_log_tail reads, whatever the file holds, however
\* many lines are asked for and however little fits in a frame: the answer to get_logs
\* is the end of the log, and says when it is not all of it.
THEOREM LogTailIsAlwaysTheEnd ==
    ASSUME sample \in AnyLog
    PROVE  LogTailIsTheEnd
  <1>1. /\ sample.file \in AnyString /\ sample.tail \in Nat \ {0} /\ sample.budget \in Nat
    BY DEF AnyLog
  <1>2. <<"p">> \in AnyString
    BY LettersAre, Singleton, TextsAre
  <1> QED BY <1>1, <1>2, AnswerIsTheEnd DEF LogTailIsTheEnd

-----------------------------------------------------------------------------
(* A part of a sequence *)

\* p stands in t from position i on.
At(t, i, p) ==
    /\ i \in Nat \ {0} /\ i + Len(p) <= Len(t) + 1
    /\ \A k \in 1 .. Len(p) : t[i + k - 1] = p[k]

\* Where two parts stand, the second stands behind the first.
LEMMA AtBoth ==
    ASSUME NEW S, NEW t \in Seq(S), NEW p \in Seq(S), NEW q \in Seq(S), NEW i, At(t, i, p \o q)
    PROVE  /\ At(t, i, p) /\ At(t, i + Len(p), q)
           /\ i + Len(p \o q) = (i + Len(p)) + Len(q)
  <1>1. p \o q \in Seq(S) /\ Len(p) \in Nat /\ Len(q) \in Nat /\ Len(t) \in Nat
    BY ConcatProperties
  <1>2. /\ Len(p \o q) = Len(p) + Len(q)
        /\ \A k \in 1 .. Len(p) + Len(q) : (p \o q)[k] = IF k <= Len(p) THEN p[k] ELSE q[k - Len(p)]
    BY ConcatProperties
  <1>3. /\ i \in Nat \ {0} /\ i + Len(p \o q) <= Len(t) + 1
        /\ \A k \in 1 .. Len(p \o q) : t[i + k - 1] = (p \o q)[k]
    BY DEF At
  <1> DEFINE m == Len(p)
             n == Len(q)
             all == p \o q
  <1>4. \A k \in 1 .. m + n : t[i + k - 1] = IF k <= m THEN p[k] ELSE q[k - m]
    BY <1>2, <1>3
  <1>5. i + m + n <= Len(t) + 1 /\ i + Len(p \o q) = (i + m) + n
    BY <1>1, <1>2, <1>3
  <1>6. m \in Nat /\ n \in Nat /\ Len(t) \in Nat
    BY <1>1
  <1> HIDE DEF m, n
  <1>7. \A k \in 1 .. m : t[i + k - 1] = p[k]
    <2> TAKE k \in 1 .. m
    <2>1. k \in 1 .. m + n /\ k <= m
      BY <1>6
    <2> QED BY <1>4, <2>1
  <1>8. \A k \in 1 .. n : t[(i + m) + k - 1] = q[k]
    <2> TAKE k \in 1 .. n
    <2>1. m + k \in 1 .. m + n /\ ~(m + k <= m) /\ (m + k) - m = k
      BY <1>6
    <2>2. i + (m + k) - 1 = (i + m) + k - 1
      BY <1>3, <1>6
    <2> QED BY <1>4, <2>1, <2>2
  <1>9. i + m \in Nat \ {0} /\ i + m <= Len(t) + 1 /\ (i + m) + n <= Len(t) + 1
    BY <1>3, <1>5, <1>6
  <1> QED BY <1>3, <1>5, <1>7, <1>8, <1>9 DEF At, m, n

\* Where one character stands, the text has it.
LEMMA AtOne ==
    ASSUME NEW t, NEW i, NEW c, At(t, i, <<c>>), Len(t) \in Nat
    PROVE  i \in 1 .. Len(t) /\ t[i] = c
  <1>1. Len(<<c>>) = 1 /\ <<c>>[1] = c /\ 1 \in 1 .. 1
    OBVIOUS
  <1>2. i \in Nat \ {0} /\ i + 1 <= Len(t) + 1 /\ t[i + 1 - 1] = c
    BY <1>1 DEF At
  <1> QED BY <1>2

-----------------------------------------------------------------------------
(* A text in quotes is read back *)

QuotedStep(t, i, r) ==
    IF t[i] = "\"" THEN [next |-> i + 1, text |-> <<>>]
    ELSE IF t[i] # "\\" THEN [next |-> r.next, text |-> <<t[i]>> \o r.text]
    ELSE IF i = Len(t) \/ t[i + 1] \notin Escapes THEN Unterminated
    ELSE [next |-> r.next, text |-> <<Unescape(t[i + 1])>> \o r.text]

QuotedNext(t, i) == IF t[i] = "\\" /\ i # Len(t) THEN i + 2 ELSE i + 1

QuotedTexts(t) == [next : 0 .. Len(t) + 1, text : AnyString]

\* An escape is read as a character.
LEMMA UnescapeType ==
    ASSUME NEW c \in AnyCharacter
    PROVE  Unescape(c) \in AnyCharacter
  <1>1. "\n" \in AnyCharacter /\ "\t" \in AnyCharacter /\ "\r" \in AnyCharacter
    BY DEF AnyCharacter, Delims
  <1> QED BY <1>1 DEF Unescape

\* A step of the reader of quoted text gives a text and where it ends.
LEMMA QuotedStepType ==
    ASSUME NEW t \in AnyString, NEW i \in 1 .. Len(t), NEW r \in QuotedTexts(t)
    PROVE  QuotedStep(t, i, r) \in QuotedTexts(t)
  <1>1. Len(t) \in Nat /\ t[i] \in AnyCharacter /\ (i # Len(t) => t[i + 1] \in AnyCharacter)
    BY TextsAre
  <1>2. r.next \in 0 .. Len(t) + 1 /\ r.text \in Seq(AnyCharacter)
    BY TextsAre DEF QuotedTexts
  <1>3. ASSUME NEW c \in AnyCharacter PROVE [next |-> r.next, text |-> <<c>> \o r.text] \in QuotedTexts(t)
    <2>1. <<c>> \o r.text \in Seq(AnyCharacter)
      BY <1>2, Singleton, ConcatProperties
    <2> QED BY <1>2, <2>1, TextsAre DEF QuotedTexts
  <1>4. Unterminated \in QuotedTexts(t) /\ [next |-> i + 1, text |-> <<>>] \in QuotedTexts(t)
    <2>1. <<>> \in AnyString
      BY TextsAre
    <2>2. 0 \in 0 .. Len(t) + 1 /\ i + 1 \in 0 .. Len(t) + 1
      BY <1>1
    <2> QED BY <2>1, <2>2 DEF Unterminated, QuotedTexts
  <1>5. CASE t[i] = "\"" \/ t[i] # "\\"
    BY <1>1, <1>3, <1>4, <1>5 DEF QuotedStep
  <1>6. CASE t[i] # "\"" /\ t[i] = "\\" /\ (i = Len(t) \/ t[i + 1] \notin Escapes)
    BY <1>4, <1>6 DEF QuotedStep
  <1>7. CASE t[i] # "\"" /\ t[i] = "\\" /\ ~(i = Len(t) \/ t[i + 1] \notin Escapes)
    <2>1. Unescape(t[i + 1]) \in AnyCharacter
      BY <1>1, <1>7, UnescapeType
    <2> QED BY <1>3, <1>7, <2>1 DEF QuotedStep
  <1> QED BY <1>5, <1>6, <1>7

\* The reader of quoted text goes step by step, from any position.
LEMMA QuotedIs ==
    ASSUME NEW t \in AnyString
    PROVE  /\ Quoted(t) \in [1 .. Len(t) + 1 -> QuotedTexts(t)]
           /\ Quoted(t)[Len(t) + 1] = Unterminated
           /\ \A i \in 1 .. Len(t) : Quoted(t)[i] = QuotedStep(t, i, Quoted(t)[QuotedNext(t, i)])
  <1> DEFINE n == Len(t)
             V == QuotedTexts(t)
             Body(f, i) ==
                IF i > n THEN Unterminated
                ELSE IF t[i] = "\"" THEN [next |-> i + 1, text |-> <<>>]
                ELSE IF t[i] # "\\"
                     THEN [next |-> f[i + 1].next, text |-> <<t[i]>> \o f[i + 1].text]
                ELSE IF i = n \/ t[i + 1] \notin Escapes THEN Unterminated
                ELSE [next |-> f[i + 2].next, text |-> <<Unescape(t[i + 1])>> \o f[i + 2].text]
             Is(f) == f = [i \in 1 .. n + 1 |-> Body(f, i)]
             read == CHOOSE f : Is(f)
             g == [i \in 1 .. n |-> [r \in V |-> QuotedStep(t, i, r)]]
             next == [i \in 1 .. n |-> QuotedNext(t, i)]
  <1>1. Quoted(t) = read
    BY DEF Quoted
  <1>2. n \in Nat
    BY TextsAre
  <1>3. Unterminated \in V
    <2>1. <<>> \in AnyString /\ 0 \in 0 .. n + 1
      BY <1>2, TextsAre
    <2> QED BY <2>1 DEF Unterminated, QuotedTexts
  <1>4. g \in [1 .. n -> [V -> V]]
    BY QuotedStepType
  <1>5. \A i \in 1 .. n : \A r \in V : g[i][r] = QuotedStep(t, i, r)
    OBVIOUS
  <1>6. ASSUME NEW i \in 1 .. n PROVE QuotedNext(t, i) \in i + 1 .. n + 1
    BY <1>2 DEF QuotedNext
  <1>7. next \in [1 .. n -> 1 .. n + 1] /\ \A i \in 1 .. n : next[i] = QuotedNext(t, i) /\ next[i] > i
    BY <1>2, <1>6
  <1>8. ASSUME NEW f, NEW i \in 1 .. n PROVE Body(f, i) = QuotedStep(t, i, f[QuotedNext(t, i)])
    <2>1. ~(i > n)
      BY <1>2
    <2>2. CASE t[i] # "\\"
      BY <2>1, <2>2 DEF QuotedStep, QuotedNext
    <2>3. CASE t[i] = "\\" /\ i = n
      BY <2>1, <2>3 DEF QuotedStep, QuotedNext
    <2>4. CASE t[i] = "\\" /\ i # n
      BY <2>1, <2>4 DEF QuotedStep, QuotedNext
    <2> QED BY <2>2, <2>3, <2>4
  <1>9. ASSUME NEW f PROVE Body(f, n + 1) = Unterminated
    <2>1. (n + 1 > n) = TRUE
      BY <1>2
    <2> HIDE DEF n
    <2> QED BY <2>1, Zenon
  <1> HIDE DEF n, V, Body, g, next
  <1>10. \E f : RecursDown(f, n, V, Unterminated, g, next)
    BY <1>2, <1>3, <1>4, <1>7, RecursionDown
  <1>11. PICK f : RecursDown(f, n, V, Unterminated, g, next)
    BY <1>10
  <1>12. /\ f \in [1 .. n + 1 -> V] /\ f[n + 1] = Unterminated
         /\ \A i \in 1 .. n : f[i] = QuotedStep(t, i, f[QuotedNext(t, i)])
    <2>1. /\ f \in [1 .. n + 1 -> V] /\ f[n + 1] = Unterminated
          /\ \A i \in 1 .. n : f[i] = g[i][f[next[i]]]
      BY <1>11 DEF RecursDown
    <2>2. \A i \in 1 .. n : f[QuotedNext(t, i)] \in V
      BY <1>2, <1>6, <2>1
    <2> QED BY <1>5, <1>7, <2>1, <2>2
  <1>13. Is(f)
    <2>1. ASSUME NEW i \in 1 .. n + 1 PROVE f[i] = Body(f, i)
      <3>1. i = n + 1 \/ i \in 1 .. n
        BY <1>2
      <3> QED BY <1>8, <1>9, <1>12, <3>1
    <2>2. f = [i \in 1 .. n + 1 |-> f[i]]
      BY <1>12
    <2> QED BY <2>1, <2>2
  <1>14. Is(read)
    <2> HIDE DEF Is
    <2> QED BY <1>13
  <1> HIDE DEF read
  <1>15. \A i \in 1 .. n + 1 : read[i] = Body(read, i)
    BY <1>14
  <1>16. /\ read[n + 1] = Unterminated
         /\ \A i \in 1 .. n : read[i] = QuotedStep(t, i, read[QuotedNext(t, i)])
    <2>1. n + 1 \in 1 .. n + 1 /\ \A i \in 1 .. n : i \in 1 .. n + 1
      BY <1>2
    <2> QED BY <1>8, <1>9, <1>15, <2>1
  <1>17. read \in [1 .. n + 1 -> V]
    <2> DEFINE T == {i \in 1 .. n + 1 : read[i] \in V}
    <2>1. ASSUME NEW i \in 1 .. n + 1, \A j \in i + 1 .. n + 1 : j \in T PROVE i \in T
      <3>1. CASE i = n + 1
        BY <1>3, <1>16, <3>1
      <3>2. CASE i # n + 1
        <4>1. i \in 1 .. n
          BY <1>2, <3>2
        <4>2. read[QuotedNext(t, i)] \in V
          BY <1>6, <2>1, <4>1
        <4>3. QuotedStep(t, i, read[QuotedNext(t, i)]) \in V
          BY <4>1, <4>2, QuotedStepType DEF n, V
        <4> QED BY <1>16, <4>1, <4>3
      <3> QED BY <3>1, <3>2
    <2>2. \A i \in 1 .. n + 1 : i \in T
      <3> HIDE DEF T
      <3>1. HandedDown(T, n)
        BY <2>1 DEF HandedDown
      <3> QED BY <1>2, <3>1, Downwards
    <2>3. read = [i \in 1 .. n + 1 |-> Body(read, i)]
      BY <1>14
    <2>4. read = [i \in 1 .. n + 1 |-> read[i]]
      BY <1>15, <2>3
    <2> QED BY <2>2, <2>4
  <1> QED BY <1>1, <1>16, <1>17 DEF n, V

\* A step ends the text where the rest of it ends, or at once.
LEMMA QuotedStepNext ==
    ASSUME NEW t, NEW i, NEW r
    PROVE  QuotedStep(t, i, r).next \in {0, i + 1, r.next}
  <1>1. Unterminated.next = 0
    BY DEF Unterminated
  <1>2. [next |-> i + 1, text |-> <<>>].next = i + 1
    OBVIOUS
  <1>3. \A x : [next |-> r.next, text |-> x].next = r.next
    OBVIOUS
  <1> QED BY <1>1, <1>2, <1>3 DEF QuotedStep

\* A string that ends does so behind where it is read from.
LEMMA QuotedEnds ==
    ASSUME NEW t \in AnyString, NEW i \in 1 .. Len(t) + 1
    PROVE  Quoted(t)[i].next = 0 \/ Quoted(t)[i].next \in i + 1 .. Len(t) + 1
  <1> DEFINE n == Len(t)
             read == Quoted(t)
             T == {j \in 1 .. n + 1 : read[j].next = 0 \/ read[j].next \in j + 1 .. n + 1}
  <1>1. n \in Nat
    BY TextsAre
  <1>2. /\ read \in [1 .. n + 1 -> QuotedTexts(t)] /\ read[n + 1] = Unterminated
        /\ \A j \in 1 .. n : read[j] = QuotedStep(t, j, read[QuotedNext(t, j)])
    BY QuotedIs
  <1> HIDE DEF read
  <1>3. ASSUME NEW j \in 1 .. n + 1, \A k \in j + 1 .. n + 1 : k \in T PROVE j \in T
    <2>1. CASE j = n + 1
      BY <1>1, <1>2, <2>1 DEF Unterminated
    <2>2. CASE j # n + 1
      <3>1. j \in 1 .. n /\ QuotedNext(t, j) \in j + 1 .. n + 1
        BY <1>1, <2>2 DEF QuotedNext
      <3> DEFINE r == read[QuotedNext(t, j)]
      <3>2. r.next = 0 \/ r.next \in j + 1 .. n + 1
        <4>1. QuotedNext(t, j) \in T
          BY <1>3, <3>1
        <4>2. r.next = 0 \/ r.next \in QuotedNext(t, j) + 1 .. n + 1
          BY <4>1
        <4> QED BY <1>1, <3>1, <4>2
      <3>3. read[j] = QuotedStep(t, j, r)
        BY <1>2, <3>1
      <3> HIDE DEF r
      <3>4. read[j].next \in {0, j + 1, r.next}
        <4>1. QuotedStep(t, j, r).next \in {0, j + 1, r.next}
          BY QuotedStepNext
        <4> QED BY <3>3, <4>1
      <3>5. j + 1 \in j + 1 .. n + 1
        BY <1>1, <3>1
      <3> QED BY <3>2, <3>4, <3>5
    <2> QED BY <2>1, <2>2
  <1>4. \A j \in 1 .. n + 1 : j \in T
    <2> HIDE DEF T
    <2>1. HandedDown(T, n)
      BY <1>3 DEF HandedDown
    <2> QED BY <1>1, <2>1, Downwards
  <1> QED BY <1>4 DEF read

\* A character that was escaped is read as it was.
LEMMA EscapedIsRead ==
    ASSUME NEW t \in AnyString, NEW c \in AnyCharacter, NEW i, At(t, i, Escape(c))
    PROVE  Quoted(t)[i] = [next |-> Quoted(t)[i + Len(Escape(c))].next,
                           text |-> <<c>> \o Quoted(t)[i + Len(Escape(c))].text]
  <1> DEFINE n == Len(t)
             read == Quoted(t)
             r == read[i + Len(Escape(c))]
  <1>1. n \in Nat
    BY TextsAre
  <1>2. \A j \in 1 .. n : read[j] = QuotedStep(t, j, read[QuotedNext(t, j)])
    BY QuotedIs
  <1>3. ASSUME NEW x, Escape(c) = <<"\\", x>>, x \in Escapes, Unescape(x) = c
        PROVE  read[i] = [next |-> r.next, text |-> <<c>> \o r.text]
    <2>1. Len(<<"\\", x>>) = 2 /\ <<"\\", x>>[1] = "\\" /\ <<"\\", x>>[2] = x
      OBVIOUS
    <2>2. i \in Nat \ {0} /\ i + 2 <= n + 1 /\ t[i + 1 - 1] = "\\" /\ t[i + 2 - 1] = x
      BY <1>3, <2>1 DEF At
    <2>3. i \in 1 .. n /\ i # n /\ t[i] = "\\" /\ t[i + 1] = x
      BY <1>1, <2>2
    <2>4. QuotedNext(t, i) = i + 2 /\ r = read[i + 2]
      BY <1>3, <2>1, <2>3 DEF QuotedNext
    <2>5. read[i] = QuotedStep(t, i, r)
      BY <1>2, <2>3, <2>4
    <2> HIDE DEF read
    <2> QED BY <1>3, <2>3, <2>5 DEF QuotedStep
  <1>4. CASE c \notin {"\\", "\"", "\n", "\t", "\r"}
    <2>1. Escape(c) = <<c>> /\ Len(<<c>>) = 1
      BY <1>4 DEF Escape
    <2>2. i \in 1 .. n /\ t[i] = c
      BY <1>1, <2>1, AtOne
    <2>3. QuotedNext(t, i) = i + 1 /\ r = read[i + 1]
      BY <1>4, <2>1, <2>2 DEF QuotedNext
    <2>4. read[i] = QuotedStep(t, i, r)
      BY <1>2, <2>2, <2>3
    <2> HIDE DEF read
    <2>5. t[i] # "\"" /\ t[i] # "\\"
      BY <1>4, <2>2
    <2>6. QuotedStep(t, i, r) = [next |-> r.next, text |-> <<t[i]>> \o r.text]
      BY <2>5 DEF QuotedStep
    <2> HIDE DEF r
    <2>7. <<t[i]>> = <<c>>
      BY <2>2
    <2>8. QuotedStep(t, i, r) = [next |-> r.next, text |-> <<c>> \o r.text]
      BY <2>6, <2>7, Zenon
    <2>9. read[i] = [next |-> r.next, text |-> <<c>> \o r.text]
      BY <2>4, <2>8, Zenon
    <2> QED BY <2>9 DEF r, read
  <1>5. CASE c = "\\"
    <2>1. Escape(c) = <<"\\", "\\">> /\ "\\" \in Escapes /\ Unescape("\\") = c
      BY <1>5 DEF Escape, Escapes, Unescape
    <2> QED BY <1>3, <2>1
  <1>6. CASE c = "\""
    <2>1. Escape(c) = <<"\\", "\"">> /\ "\"" \in Escapes /\ Unescape("\"") = c
      BY <1>6 DEF Escape, Escapes, Unescape
    <2> QED BY <1>3, <2>1
  <1>7. CASE c = "\n"
    <2>1. Escape(c) = <<"\\", "n">> /\ "n" \in Escapes /\ Unescape("n") = c
      BY <1>7 DEF Escape, Escapes, Unescape
    <2> QED BY <1>3, <2>1
  <1>8. CASE c = "\t"
    <2>1. Escape(c) = <<"\\", "t">> /\ "t" \in Escapes /\ Unescape("t") = c
      BY <1>8 DEF Escape, Escapes, Unescape
    <2> QED BY <1>3, <2>1
  <1>9. CASE c = "\r"
    <2>1. Escape(c) = <<"\\", "r">> /\ "r" \in Escapes /\ Unescape("r") = c
      BY <1>9 DEF Escape, Escapes, Unescape
    <2> QED BY <1>3, <2>1
  <1> QED BY <1>4, <1>5, <1>6, <1>7, <1>8, <1>9

Escaped(s) == FlattenSeq([i \in DOMAIN s |-> Escape(s[i])])

\* Of no character nothing is written.
LEMMA EscapedNothing == Escaped(<<>>) = <<>>
  <1>1. [i \in DOMAIN <<>> |-> Escape(<<>>[i])] = <<>>
    OBVIOUS
  <1> QED BY <1>1, FlattenNothing DEF Escaped

\* Texts are escaped character by character.
LEMMA EscapedCons ==
    ASSUME NEW c \in AnyCharacter, NEW s \in AnyString
    PROVE  /\ <<c>> \o s \in AnyString /\ Escaped(<<c>> \o s) = Escape(c) \o Escaped(s)
           /\ Escaped(s) \in Seq(AnyCharacter) /\ Escape(c) \in Seq(AnyCharacter)
  <1> DEFINE all == <<c>> \o s
             pieces(u) == [i \in DOMAIN u |-> Escape(u[i])]
             e == Escape(c)
             both == <<e>> \o pieces(s)
             C == Seq(AnyCharacter)
  <1>1. s \in Seq(AnyCharacter) /\ Len(s) \in Nat
    BY TextsAre
  <1>2. all \in Seq(AnyCharacter) /\ Len(all) = 1 + Len(s) /\ all[1] = c
        /\ \A k \in 2 .. 1 + Len(s) : all[k] = s[k - 1]
    BY <1>1
  <1>3. e \in C
    BY EscapeType
  <1>4. pieces(s) \in Seq(C) /\ pieces(all) \in Seq(C)
    BY <1>1, <1>2, EscapedType, TextsAre
  <1>5. /\ Len(pieces(s)) = Len(s) /\ \A k \in 1 .. Len(s) : pieces(s)[k] = Escape(s[k])
    BY <1>1
  <1> HIDE DEF all
  <1>6. /\ Len(pieces(all)) = Len(all) /\ \A k \in 1 .. Len(all) : pieces(all)[k] = Escape(all[k])
    BY <1>2
  <1> HIDE DEF pieces, C
  <1>7. /\ both \in Seq(C) /\ Len(both) = 1 + Len(pieces(s)) /\ both[1] = e
        /\ \A k \in 2 .. 1 + Len(pieces(s)) : both[k] = pieces(s)[k - 1]
    <2> HIDE DEF e
    <2> QED BY <1>3, <1>4
  <1> HIDE DEF both
  <1>8. \A k \in 1 .. Len(all) : pieces(all)[k] = both[k]
    <2> SUFFICES ASSUME NEW k \in 1 .. Len(all) PROVE pieces(all)[k] = both[k]
      OBVIOUS
    <2>1. CASE k = 1
      BY <1>2, <1>6, <1>7, <2>1
    <2>2. CASE k # 1
      <3>1. k \in 2 .. 1 + Len(s) /\ k - 1 \in 1 .. Len(s)
        BY <1>1, <1>2, <2>2
      <3> QED BY <1>2, <1>5, <1>6, <1>7, <3>1
    <2> QED BY <2>1, <2>2
  <1>9. pieces(all) = both
    <2>1. Len(pieces(all)) = Len(both)
      BY <1>2, <1>5, <1>6, <1>7
    <2> QED BY <1>4, <1>6, <1>7, <1>8, <2>1, SeqEqual
  <1>10. FlattenSeq(both) = e \o FlattenSeq(pieces(s))
    <2> HIDE DEF e
    <2> QED BY <1>3, <1>4, FlattenCons DEF both, C
  <1>11. FlattenSeq(pieces(s)) \in Seq(AnyCharacter)
    BY <1>4, FlattenType DEF C
  <1> QED BY <1>2, <1>3, <1>9, <1>10, <1>11, TextsAre DEF Escaped, pieces, all, C

\* A text in quotes is read as it was.
IsReadBack(s) ==
    \A t \in AnyString, i \in Nat :
        At(t, i, Escaped(s) \o <<"\"">>) =>
            Quoted(t)[i] = [next |-> i + Len(Escaped(s)) + 1, text |-> s]

\* The empty text is read back ...
LEMMA NothingIsReadBack ==
    ASSUME NEW s, s = <<>>
    PROVE  IsReadBack(s)
  <1> DEFINE q == <<"\"">>
             e == Escaped(s)
  <1>1. e = <<>> /\ Len(e) = 0
    BY EscapedNothing
  <1>2. q \in Seq(AnyCharacter)
    BY MarksType
  <1> SUFFICES ASSUME NEW t \in AnyString, NEW i \in Nat, At(t, i, e \o q)
               PROVE  Quoted(t)[i] = [next |-> i + Len(e) + 1, text |-> s]
    BY DEF IsReadBack
  <1> HIDE DEF e, q
  <1>3. At(t, i, q)
    <2>1. e \o q = q
      BY <1>1, <1>2, ConcatEmptySeq
    <2> QED BY <2>1
  <1>4. i \in 1 .. Len(t) /\ t[i] = "\""
    <2>1. Len(t) \in Nat
      BY TextsAre
    <2> QED BY <1>3, <2>1, AtOne DEF q
  <1>5. Quoted(t)[i] = QuotedStep(t, i, Quoted(t)[QuotedNext(t, i)])
    BY <1>4, QuotedIs
  <1>6. Quoted(t)[i] = [next |-> i + 1, text |-> <<>>]
    BY <1>4, <1>5 DEF QuotedStep
  <1>7. i + Len(e) + 1 = i + 1
    BY <1>1
  <1> QED BY <1>6, <1>7

\* ... and a text with one more character in front when the text is.
LEMMA OneMoreIsReadBack ==
    ASSUME NEW c \in AnyCharacter, NEW s \in AnyString, IsReadBack(s)
    PROVE  IsReadBack(<<c>> \o s)
  <1> DEFINE q == <<"\"">>
             e == Escape(c)
             rest == Escaped(s)
  <1>1. /\ <<c>> \o s \in AnyString /\ Escaped(<<c>> \o s) = e \o rest
        /\ rest \in Seq(AnyCharacter) /\ e \in Seq(AnyCharacter)
    BY EscapedCons
  <1>2. q \in Seq(AnyCharacter) /\ Len(q) = 1
    BY MarksType
  <1> SUFFICES ASSUME NEW t \in AnyString, NEW i \in Nat, At(t, i, Escaped(<<c>> \o s) \o q)
               PROVE  Quoted(t)[i] = [next |-> i + Len(Escaped(<<c>> \o s)) + 1, text |-> <<c>> \o s]
    BY DEF IsReadBack
  <1> DEFINE r == Quoted(t)[i + Len(e)]
  <1> HIDE DEF q, e, rest
  <1>3. t \in Seq(AnyCharacter)
    BY TextsAre
  <1>4. (e \o rest) \o q = e \o (rest \o q) /\ rest \o q \in Seq(AnyCharacter)
    BY <1>1, <1>2, ConcatAssociative, ConcatProperties
  <1>5. At(t, i, e \o (rest \o q))
    BY <1>1, <1>4
  <1>6. At(t, i, e) /\ At(t, i + Len(e), rest \o q)
    BY <1>1, <1>3, <1>4, <1>5, AtBoth
  <1>7. Len(e) \in Nat /\ Len(rest) \in Nat /\ i + Len(e) \in Nat
    BY <1>1, LenProperties
  <1>8. r = [next |-> (i + Len(e)) + Len(rest) + 1, text |-> s]
    BY <1>6, <1>7 DEF IsReadBack, q, rest
  <1>9. Quoted(t)[i] = [next |-> r.next, text |-> <<c>> \o r.text]
    <2>1. At(t, i, Escape(c))
      BY <1>6 DEF e
    <2> QED BY <2>1, EscapedIsRead DEF e
  <1> HIDE DEF r
  <1>10. Len(e \o rest) = Len(e) + Len(rest)
    BY <1>1, ConcatProperties
  <1>11. (i + Len(e)) + Len(rest) + 1 = i + (Len(e) + Len(rest)) + 1
    BY <1>7
  <1>12. r.next = i + Len(Escaped(<<c>> \o s)) + 1 /\ r.text = s
    BY <1>1, <1>8, <1>10, <1>11
  <1> QED BY <1>9, <1>12

\* So every text in quotes is read back, whatever its characters are.
LEMMA QuotedBack ==
    ASSUME NEW s \in AnyString
    PROVE  IsReadBack(s)
  <1> DEFINE T == {n \in 0 .. Len(s) : \A u \in AnyString : Len(u) = n => IsReadBack(u)}
  <1>1. Len(s) \in Nat
    BY TextsAre
  <1>2. 0 \in T
    <2>1. \A u \in AnyString : Len(u) = 0 => u = <<>>
      BY TextsAre, EmptySeq
    <2> QED BY <1>1, <2>1, NothingIsReadBack
  <1>3. ASSUME NEW n \in 1 .. Len(s), n - 1 \in T PROVE n \in T
    <2> SUFFICES ASSUME NEW u \in AnyString, Len(u) = n PROVE IsReadBack(u)
      BY <1>1
    <2>1. u \in Seq(AnyCharacter) /\ u # <<>>
      BY <1>1, TextsAre
    <2>2. /\ Head(u) \in AnyCharacter /\ Tail(u) \in AnyString /\ Len(Tail(u)) = n - 1
      BY <2>1, HeadTailProperties, TextsAre
    <2>3. u = <<Head(u)>> \o Tail(u)
      BY <2>1
    <2>4. IsReadBack(Tail(u))
      BY <1>3, <2>2
    <2>5. IsReadBack(<<Head(u)>> \o Tail(u))
      <3> DEFINE h == Head(u)
                 v == Tail(u)
      <3>1. h \in AnyCharacter /\ v \in AnyString /\ IsReadBack(v)
        BY <2>2, <2>4
      <3> HIDE DEF h, v
      <3>2. IsReadBack(<<h>> \o v)
        BY <3>1, OneMoreIsReadBack
      <3> QED BY <3>2 DEF h, v
    <2> QED BY <2>3, <2>5
  <1>4. \A n \in 0 .. Len(s) : n \in T
    <2> HIDE DEF T
    <2>1. HandedUp(T, Len(s))
      BY <1>2, <1>3 DEF HandedUp
    <2> QED BY <1>1, <2>1, Upwards
  <1> QED BY <1>1, <1>4

-----------------------------------------------------------------------------
(* The tokens of a text *)

ReadValue ==
    {<<k>> : k \in DOMAIN Keywords} \cup {<<"int", Integer(w)>> : w \in AnyString}
        \cup {<<"text", w>> : w \in AnyString}

AnyToken ==
    {<<"NL">>, <<"LB">>, <<"RB">>, <<"ERR">>} \cup {<<"VAL", v>> : v \in ReadValue}

\* Where the first of some characters stands, or the end.
LEMMA FirstOfIs ==
    ASSUME NEW t, Len(t) \in Nat, NEW i \in 1 .. Len(t) + 1, NEW cs
    PROVE  /\ FirstOf(t, i, cs) \in i .. Len(t) + 1
           /\ FirstOf(t, i, cs) <= Len(t) => t[FirstOf(t, i, cs)] \in cs
           /\ \A q \in i .. FirstOf(t, i, cs) - 1 : t[q] \notin cs
  <1> DEFINE n == Len(t)
             Is(p) == /\ p <= n => t[p] \in cs
                      /\ \A q \in i .. p - 1 : t[q] \notin cs
             T == {p \in i .. n + 1 : p <= n => t[p] \in cs}
  <1>1. n \in Nat /\ i \in 1 .. n + 1
    OBVIOUS
  <1>2. FirstOf(t, i, cs) = CHOOSE p \in i .. n + 1 : Is(p)
    BY DEF FirstOf
  <1> HIDE DEF n
  <1>3. T \subseteq Nat /\ n + 1 \in T
    BY <1>1
  <1>4. PICK p \in T : \A q \in T : p <= q
    <2> HIDE DEF T
    <2> QED BY <1>3, LeastNumber
  <1>5. p \in i .. n + 1 /\ Is(p)
    <2>1. ASSUME NEW q \in i .. p - 1 PROVE t[q] \notin cs
      <3>1. q \in i .. n + 1 /\ ~(p <= q)
        BY <1>1, <1>4
      <3> QED BY <1>4, <3>1
    <2> QED BY <1>4, <2>1
  <1> DEFINE first == CHOOSE x \in i .. n + 1 : Is(x)
  <1>6. first \in i .. n + 1 /\ Is(first)
    <2> HIDE DEF Is
    <2> QED BY <1>5
  <1> QED BY <1>2, <1>6 DEF n

\* A bare word is a token ...
LEMMA ParseBareType ==
    ASSUME NEW word \in AnyString
    PROVE  ParseBare(word) \in AnyToken
  <1> DEFINE keyword == {k \in DOMAIN Keywords : word = Keywords[k]}
  <1>1. CASE keyword # {}
    <2> DEFINE k == CHOOSE x \in keyword : TRUE
    <2>1. k \in keyword
      BY <1>1
    <2>2. ParseBare(word) = <<"VAL", <<k>>>>
      BY <1>1 DEF ParseBare
    <2> HIDE DEF k
    <2>3. <<k>> \in ReadValue
      BY <2>1 DEF ReadValue
    <2> QED BY <2>2, <2>3 DEF AnyToken
  <1>2. CASE keyword = {}
    <2>1. <<"text", word>> \in ReadValue /\ <<"int", Integer(word)>> \in ReadValue
      BY DEF ReadValue
    <2>2. /\ <<"VAL", <<"text", word>>>> \in AnyToken /\ <<"ERR">> \in AnyToken
          /\ <<"VAL", <<"int", Integer(word)>>>> \in AnyToken
      BY <2>1 DEF AnyToken
    <2>3. ParseBare(word) \in {<<"VAL", <<"text", word>>>>, <<"ERR">>, <<"VAL", <<"int", Integer(word)>>>>}
      BY <1>2 DEF ParseBare
    <2> QED BY <2>2, <2>3
  <1> QED BY <1>1, <1>2

\* The word that begins at i, which is not a delimiter.
LEMMA WordIs ==
    ASSUME NEW t \in AnyString, NEW i \in 1 .. Len(t), t[i] \notin Delims
    PROVE  /\ FirstOf(t, i, Delims) \in i + 1 .. Len(t) + 1
           /\ SubSeq(t, i, FirstOf(t, i, Delims) - 1) \in AnyString
           /\ ReadToken(t, i) = [tokens |-> <<ParseBare(SubSeq(t, i, FirstOf(t, i, Delims) - 1))>>,
                                 next |-> FirstOf(t, i, Delims)]
  <1> DEFINE n == Len(t)
             end == FirstOf(t, i, Delims)
  <1>1. t \in Seq(AnyCharacter) /\ n \in Nat /\ i \in 1 .. n + 1
    BY TextsAre
  <1>2. end \in i .. n + 1 /\ (end <= n => t[end] \in Delims)
    BY <1>1, FirstOfIs
  <1>3. end # i
    BY <1>1, <1>2
  <1> HIDE DEF end
  <1>4. end \in i + 1 .. n + 1
    BY <1>1, <1>2, <1>3
  <1>5. SubSeq(t, i, end - 1) \in AnyString
    <2>1. i \in 1 .. n + 1 /\ end - 1 \in i - 1 .. n
      BY <1>1, <1>4
    <2> QED BY <1>1, <2>1, SubSeqType, TextsAre
  <1>6. ReadToken(t, i) = [tokens |-> <<ParseBare(SubSeq(t, i, end - 1))>>, next |-> end]
    BY DEF ReadToken, end, Delims
  <1> QED BY <1>4, <1>5, <1>6 DEF end

\* ... and what is read at a position is no or one token, and a later position.
LEMMA ReadTokenType ==
    ASSUME NEW t \in AnyString, NEW i \in 1 .. Len(t)
    PROVE  ReadToken(t, i).tokens \in Seq(AnyToken) /\ ReadToken(t, i).next \in i + 1 .. Len(t) + 1
  <1> DEFINE n == Len(t)
             r == ReadToken(t, i)
  <1>1. n \in Nat /\ i + 1 \in i + 1 .. n + 1 /\ n + 1 \in i + 1 .. n + 1
    BY TextsAre
  <1>2. <<>> \in Seq(AnyToken)
    OBVIOUS
  <1>3. \A x \in AnyToken : <<x>> \in Seq(AnyToken)
    BY Singleton
  <1>4. /\ <<"NL">> \in AnyToken /\ <<"LB">> \in AnyToken /\ <<"RB">> \in AnyToken
        /\ <<"ERR">> \in AnyToken
    BY DEF AnyToken
  <1>5. CASE t[i] \in {" ", "\t"}
    <2>1. r = [tokens |-> <<>>, next |-> i + 1]
      BY <1>5 DEF ReadToken
    <2> QED BY <1>1, <1>2, <2>1
  <1>6. CASE t[i] \in {"\n", "\r", ";"}
    <2>1. r = [tokens |-> <<<<"NL">>>>, next |-> i + 1]
      BY <1>6 DEF ReadToken
    <2> QED BY <1>1, <1>3, <1>4, <2>1
  <1>7. CASE t[i] = "{"
    <2>1. r = [tokens |-> <<<<"LB">>>>, next |-> i + 1]
      BY <1>7 DEF ReadToken
    <2> QED BY <1>1, <1>3, <1>4, <2>1
  <1>8. CASE t[i] = "}"
    <2>1. r = [tokens |-> <<<<"RB">>>>, next |-> i + 1]
      BY <1>8 DEF ReadToken
    <2> QED BY <1>1, <1>3, <1>4, <2>1
  <1>9. CASE t[i] = "\""
    <2> DEFINE q == Quoted(t)[i + 1]
    <2>1. q \in QuotedTexts(t) /\ (q.next = 0 \/ q.next \in (i + 1) + 1 .. n + 1)
      <3>1. i + 1 \in 1 .. n + 1
        BY <1>1
      <3>2. q \in QuotedTexts(t)
        BY <3>1, QuotedIs
      <3>3. q.next = 0 \/ q.next \in (i + 1) + 1 .. n + 1
        BY <3>1, QuotedEnds
      <3> QED BY <3>2, <3>3
    <2>2. r = IF q.next = 0 THEN [tokens |-> <<<<"ERR">>>>, next |-> n + 1]
              ELSE [tokens |-> <<<<"VAL", <<"text", q.text>>>>>>, next |-> q.next]
      BY <1>9 DEF ReadToken
    <2>3. <<"VAL", <<"text", q.text>>>> \in AnyToken
      <3>1. q.text \in AnyString
        BY <2>1 DEF QuotedTexts
      <3> QED BY <3>1 DEF AnyToken, ReadValue
    <2> HIDE DEF q
    <2>4. q.next # 0 => q.next \in i + 1 .. n + 1
      BY <1>1, <2>1
    <2> QED BY <1>1, <1>3, <1>4, <2>2, <2>3, <2>4
  <1>10. CASE t[i] \notin Delims
    <2> DEFINE end == FirstOf(t, i, Delims)
    <2>1. /\ end \in i + 1 .. n + 1 /\ SubSeq(t, i, end - 1) \in AnyString
          /\ r = [tokens |-> <<ParseBare(SubSeq(t, i, end - 1))>>, next |-> end]
      BY <1>10, WordIs
    <2> HIDE DEF end
    <2>2. ParseBare(SubSeq(t, i, end - 1)) \in AnyToken
      BY <2>1, ParseBareType
    <2> QED BY <1>3, <2>1, <2>2
  <1> QED BY <1>5, <1>6, <1>7, <1>8, <1>9, <1>10 DEF Delims

\* The tokens of a text are those read at its first position, and at those where reading goes on.
LEMMA TokenizeIs ==
    ASSUME NEW t \in AnyString
    PROVE  /\ Tokenize(t) \in [1 .. Len(t) + 1 -> Seq(AnyToken)]
           /\ Tokenize(t)[Len(t) + 1] = <<>>
           /\ \A i \in 1 .. Len(t) :
                 Tokenize(t)[i] = ReadToken(t, i).tokens \o Tokenize(t)[ReadToken(t, i).next]
  <1> DEFINE n == Len(t)
             V == Seq(AnyToken)
             toks(i) == ReadToken(t, i).tokens
             to(i) == ReadToken(t, i).next
             Is(f) == f = [i \in 1 .. n + 1 |-> IF i > n THEN <<>> ELSE toks(i) \o f[to(i)]]
             read == CHOOSE f : Is(f)
             g == [i \in 1 .. n |-> [r \in V |-> toks(i) \o r]]
             next == [i \in 1 .. n |-> to(i)]
  <1>1. Tokenize(t) = read
    BY DEF Tokenize
  <1>2. n \in Nat
    BY TextsAre
  <1>3. <<>> \in V
    OBVIOUS
  <1>4. \A i \in 1 .. n : toks(i) \in V /\ to(i) \in i + 1 .. n + 1
    BY ReadTokenType
  <1> HIDE DEF n, toks, to
  <1>5. \A i \in 1 .. n : \A r \in V : toks(i) \o r \in V
    BY <1>4, ConcatProperties
  <1>6. g \in [1 .. n -> [V -> V]] /\ \A i \in 1 .. n : \A r \in V : g[i][r] = toks(i) \o r
    <2> HIDE DEF V
    <2> QED BY <1>5
  <1>7. next \in [1 .. n -> 1 .. n + 1] /\ \A i \in 1 .. n : next[i] = to(i) /\ next[i] > i
    BY <1>2, <1>4
  <1> HIDE DEF V, g, next
  <1>8. \E f : RecursDown(f, n, V, <<>>, g, next)
    BY <1>2, <1>3, <1>6, <1>7, RecursionDown
  <1>9. PICK f : RecursDown(f, n, V, <<>>, g, next)
    BY <1>8
  <1>10. /\ f \in [1 .. n + 1 -> V] /\ f[n + 1] = <<>>
         /\ \A i \in 1 .. n : f[i] = toks(i) \o f[to(i)]
    <2>1. /\ f \in [1 .. n + 1 -> V] /\ f[n + 1] = <<>>
          /\ \A i \in 1 .. n : f[i] = g[i][f[next[i]]]
      BY <1>9 DEF RecursDown
    <2>2. \A i \in 1 .. n : f[to(i)] \in V
      BY <1>2, <1>4, <2>1
    <2> QED BY <1>6, <1>7, <2>1, <2>2
  <1>11. Is(f)
    <2>1. ASSUME NEW i \in 1 .. n + 1 PROVE f[i] = IF i > n THEN <<>> ELSE toks(i) \o f[to(i)]
      <3>1. CASE i = n + 1
        BY <1>2, <1>10, <3>1
      <3>2. CASE i # n + 1
        <4>1. i \in 1 .. n /\ ~(i > n)
          BY <1>2, <3>2
        <4> QED BY <1>10, <4>1
      <3> QED BY <3>1, <3>2
    <2>2. f = [i \in 1 .. n + 1 |-> f[i]]
      BY <1>10
    <2> QED BY <2>1, <2>2
  <1>12. Is(read)
    <2> HIDE DEF Is
    <2> QED BY <1>11
  <1> HIDE DEF read
  <1>13. \A i \in 1 .. n + 1 : read[i] = IF i > n THEN <<>> ELSE toks(i) \o read[to(i)]
    BY <1>12
  <1>14. /\ read[n + 1] = <<>>
         /\ \A i \in 1 .. n : read[i] = toks(i) \o read[to(i)]
    <2>1. n + 1 \in 1 .. n + 1 /\ n + 1 > n /\ \A i \in 1 .. n : i \in 1 .. n + 1 /\ ~(i > n)
      BY <1>2
    <2> QED BY <1>13, <2>1
  <1>15. read \in [1 .. n + 1 -> V]
    <2> DEFINE T == {i \in 1 .. n + 1 : read[i] \in V}
    <2>1. ASSUME NEW i \in 1 .. n + 1, \A j \in i + 1 .. n + 1 : j \in T PROVE i \in T
      <3>1. CASE i = n + 1
        BY <1>3, <1>14, <3>1
      <3>2. CASE i # n + 1
        <4>1. i \in 1 .. n
          BY <1>2, <3>2
        <4>2. read[to(i)] \in V
          BY <1>4, <2>1, <4>1
        <4> QED BY <1>5, <1>14, <4>1, <4>2
      <3> QED BY <3>1, <3>2
    <2>2. \A i \in 1 .. n + 1 : i \in T
      <3> HIDE DEF T
      <3>1. HandedDown(T, n)
        BY <2>1 DEF HandedDown
      <3> QED BY <1>2, <3>1, Downwards
    <2>3. read = [i \in 1 .. n + 1 |-> IF i > n THEN <<>> ELSE toks(i) \o read[to(i)]]
      BY <1>12
    <2>4. read = [i \in 1 .. n + 1 |-> read[i]]
      BY <1>13, <2>3
    <2> QED BY <2>2, <2>4
  <1> QED BY <1>1, <1>14, <1>15 DEF n, V, toks, to

-----------------------------------------------------------------------------
(* What a part of a text is read as, wherever it stands *)

\* A word may end at k.
Fits(t, k) == k = Len(t) + 1 \/ t[k] \in Delims

Reads(p, w) ==
    \A t \in AnyString, i \in Nat :
        At(t, i, p) /\ Fits(t, i + Len(p)) => Tokenize(t)[i] = w \o Tokenize(t)[i + Len(p)]

\* Whatever follows.
ReadsAnyhow(p, w) ==
    \A t \in AnyString, i \in Nat :
        At(t, i, p) => Tokenize(t)[i] = w \o Tokenize(t)[i + Len(p)]

BeginsFitting(p) == p = <<>> \/ p[1] \in Delims

\* The tokens from the beginning and from the end of a part on.
LEMMA TokensType ==
    ASSUME NEW t \in AnyString, NEW i \in Nat, NEW p \in AnyString, At(t, i, p)
    PROVE  /\ i \in 1 .. Len(t) + 1 /\ i + Len(p) \in 1 .. Len(t) + 1
           /\ Tokenize(t)[i] \in Seq(AnyToken) /\ Tokenize(t)[i + Len(p)] \in Seq(AnyToken)
  <1>1. Len(t) \in Nat /\ Len(p) \in Nat
    BY TextsAre
  <1>2. i \in 1 .. Len(t) + 1 /\ i + Len(p) \in 1 .. Len(t) + 1
    BY <1>1 DEF At
  <1> QED BY <1>2, TokenizeIs

\* Tokens are joined in any order of the joints.
LEMMA TokensAssociative ==
    ASSUME NEW a \in Seq(AnyToken), NEW b \in Seq(AnyToken), NEW c \in Seq(AnyToken)
    PROVE  (a \o b) \o c = a \o (b \o c)
  BY ConcatAssociative

\* What is read as such, whatever follows, is read as such where a word may end.
LEMMA AnyhowReads ==
    ASSUME NEW p, NEW w, ReadsAnyhow(p, w)
    PROVE  Reads(p, w)
  BY DEF Reads, ReadsAnyhow

\* Nothing is read as no tokens.
LEMMA NothingReads ==
    ASSUME NEW p, p = <<>>, NEW w, w = <<>>
    PROVE  ReadsAnyhow(p, w)
  <1> SUFFICES ASSUME NEW t \in AnyString, NEW i \in Nat, At(t, i, p)
               PROVE  Tokenize(t)[i] = w \o Tokenize(t)[i + Len(p)]
    BY DEF ReadsAnyhow
  <1>1. p \in AnyString /\ Len(p) = 0
    BY TextsAre
  <1>2. Tokenize(t)[i] \in Seq(AnyToken)
    BY <1>1, TokensType
  <1>3. i + Len(p) = i
    BY <1>1
  <1> QED BY <1>2, <1>3, ConcatEmptySeq

\* One behind the other.
LEMMA BothRead ==
    ASSUME NEW p \in AnyString, NEW q \in AnyString, NEW w \in Seq(AnyToken), NEW v \in Seq(AnyToken),
           Reads(p, w), Reads(q, v), BeginsFitting(q) \/ ReadsAnyhow(p, w)
    PROVE  Reads(p \o q, w \o v)
  <1> SUFFICES ASSUME NEW t \in AnyString, NEW i \in Nat, At(t, i, p \o q),
                      Fits(t, i + Len(p \o q))
               PROVE  Tokenize(t)[i] = (w \o v) \o Tokenize(t)[i + Len(p \o q)]
    BY DEF Reads
  <1> DEFINE j == i + Len(p)
             k == i + Len(p \o q)
  <1>1. t \in Seq(AnyCharacter) /\ p \in Seq(AnyCharacter) /\ q \in Seq(AnyCharacter)
    BY TextsAre
  <1>2. At(t, i, p) /\ At(t, j, q)
    BY <1>1, AtBoth
  <1>3. k = j + Len(q)
    BY <1>1, AtBoth
  <1>4. Len(p) \in Nat /\ Len(q) \in Nat /\ Len(t) \in Nat /\ j \in Nat
    BY <1>1, LenProperties
  <1> HIDE DEF k
  <1>5. Tokenize(t)[i] = w \o Tokenize(t)[j]
    <2>1. CASE ReadsAnyhow(p, w)
      BY <1>2, <2>1 DEF ReadsAnyhow
    <2>2. CASE BeginsFitting(q)
      <3>1. Fits(t, j)
        <4>1. CASE q = <<>>
          <5>1. k = j
            BY <1>3, <1>4, <4>1
          <5> QED BY <5>1 DEF k
        <4>2. CASE q # <<>> /\ q[1] \in Delims
          <5>1. 1 \in 1 .. Len(q)
            BY <1>1, <4>2
          <5>2. t[j + 1 - 1] = q[1]
            BY <1>2, <5>1 DEF At
          <5>3. j + 1 - 1 = j
            BY <1>4
          <5> QED BY <4>2, <5>2, <5>3 DEF Fits
        <4> QED BY <2>2, <4>1, <4>2 DEF BeginsFitting
      <3> QED BY <1>2, <3>1 DEF Reads
    <2> QED BY <2>1, <2>2
  <1>6. Tokenize(t)[j] = v \o Tokenize(t)[k]
    <2>1. Fits(t, j + Len(q))
      BY <1>3 DEF k
    <2>2. Tokenize(t)[j] = v \o Tokenize(t)[j + Len(q)]
      BY <1>2, <1>4, <2>1 DEF Reads
    <2> QED BY <1>3, <2>2
  <1>7. Tokenize(t)[k] \in Seq(AnyToken)
    BY <1>2, <1>3, <1>4, TokensType
  <1> DEFINE rest == Tokenize(t)[k]
  <1> HIDE DEF rest
  <1>8. rest \in Seq(AnyToken)
    BY <1>7 DEF rest
  <1>9. w \o (v \o rest) = (w \o v) \o rest
    BY <1>8, TokensAssociative
  <1>10. Tokenize(t)[j] = v \o rest
    BY <1>6 DEF rest
  <1>11. Tokenize(t)[i] = (w \o v) \o rest
    BY <1>5, <1>9, <1>10
  <1> QED BY <1>11 DEF k, rest

\* Two parts are read one after the other, when the first needs nothing behind it.
LEMMA BothReadAnyhow ==
    ASSUME NEW p \in AnyString, NEW q \in AnyString, NEW w \in Seq(AnyToken), NEW v \in Seq(AnyToken),
           ReadsAnyhow(p, w), ReadsAnyhow(q, v)
    PROVE  ReadsAnyhow(p \o q, w \o v)
  <1> SUFFICES ASSUME NEW t \in AnyString, NEW i \in Nat, At(t, i, p \o q)
               PROVE  Tokenize(t)[i] = (w \o v) \o Tokenize(t)[i + Len(p \o q)]
    BY DEF ReadsAnyhow
  <1> DEFINE j == i + Len(p)
             k == i + Len(p \o q)
  <1>1. t \in Seq(AnyCharacter) /\ p \in Seq(AnyCharacter) /\ q \in Seq(AnyCharacter)
    BY TextsAre
  <1>2. At(t, i, p) /\ At(t, j, q)
    BY <1>1, AtBoth
  <1>3. k = j + Len(q)
    BY <1>1, AtBoth
  <1>4. Len(p) \in Nat /\ j \in Nat
    BY <1>1, LenProperties
  <1> HIDE DEF k
  <1>5. Tokenize(t)[i] = w \o Tokenize(t)[j]
    BY <1>2 DEF ReadsAnyhow
  <1>6. Tokenize(t)[j] = v \o Tokenize(t)[k]
    BY <1>2, <1>3, <1>4 DEF ReadsAnyhow
  <1>7. Tokenize(t)[k] \in Seq(AnyToken)
    BY <1>2, <1>3, <1>4, TokensType
  <1> DEFINE rest == Tokenize(t)[k]
  <1> HIDE DEF rest
  <1>8. rest \in Seq(AnyToken)
    BY <1>7 DEF rest
  <1>9. w \o (v \o rest) = (w \o v) \o rest
    BY <1>8, TokensAssociative
  <1>10. Tokenize(t)[j] = v \o rest
    BY <1>6 DEF rest
  <1>11. Tokenize(t)[i] = (w \o v) \o rest
    BY <1>5, <1>9, <1>10
  <1> QED BY <1>11 DEF k, rest

\* The first ones of some sequences, and one more; one of them, and those behind it.
LEMMA FlattenUpTo ==
    ASSUME NEW S, NEW s \in Seq(Seq(S)), NEW k \in 1 .. Len(s)
    PROVE  /\ FlattenSeq(SubSeq(s, 1, k)) = FlattenSeq(SubSeq(s, 1, k - 1)) \o s[k]
           /\ FlattenSeq(SubSeq(s, 1, k - 1)) \in Seq(S) /\ s[k] \in Seq(S)
  <1> DEFINE before == SubSeq(s, 1, k - 1)
             x == s[k]
  <1>1. /\ Len(s) \in Nat /\ 1 \in 1 .. Len(s) + 1 /\ k - 1 \in 1 - 1 .. Len(s)
        /\ 1 \in 1 .. Len(s) /\ k \in 1 .. Len(s) /\ x \in Seq(S)
    OBVIOUS
  <1>2. before \in Seq(Seq(S))
    BY <1>1, SubSeqType
  <1>3. SubSeq(s, 1, k) = before \o <<x>>
    BY <1>1, SubSeqRecursiveSecond
  <1> HIDE DEF before, x
  <1>4. before \o <<x>> = Append(before, x)
    BY <1>1, <1>2, AppendIsConcat
  <1>5. FlattenSeq(Append(before, x)) = FlattenSeq(before) \o x
    BY <1>1, <1>2, FlattenAppend
  <1>6. FlattenSeq(before) \in Seq(S)
    BY <1>2, FlattenType
  <1> QED BY <1>1, <1>3, <1>4, <1>5, <1>6 DEF before, x

\* The parts from one on are this one and those behind it.
LEMMA FlattenFrom ==
    ASSUME NEW S, NEW s \in Seq(Seq(S)), NEW k \in 1 .. Len(s)
    PROVE  /\ FlattenSeq(SubSeq(s, k, Len(s))) = s[k] \o FlattenSeq(SubSeq(s, k + 1, Len(s)))
           /\ FlattenSeq(SubSeq(s, k + 1, Len(s))) \in Seq(S) /\ s[k] \in Seq(S)
  <1> DEFINE n == Len(s)
             behind == SubSeq(s, k + 1, n)
             x == s[k]
  <1>1. n \in Nat /\ k \in 1 .. n /\ x \in Seq(S)
    OBVIOUS
  <1>2. /\ k + 1 \in 1 .. n + 1 /\ n \in (k + 1) - 1 .. n /\ n \in k .. n
    <2> HIDE DEF n
    <2> QED BY <1>1
  <1>3. behind \in Seq(Seq(S))
    BY <1>2, SubSeqType
  <1>4. SubSeq(s, k, n) = <<x>> \o behind
    BY <1>1, <1>2, SubSeqRecursiveFirst
  <1> HIDE DEF behind, x, n
  <1>5. FlattenSeq(<<x>> \o behind) = x \o FlattenSeq(behind)
    BY <1>1, <1>3, FlattenCons
  <1>6. FlattenSeq(behind) \in Seq(S)
    BY <1>3, FlattenType
  <1> QED BY <1>1, <1>4, <1>5, <1>6 DEF behind, x, n

\* Many, one behind the other.
LEMMA AllRead ==
    ASSUME NEW ps \in Seq(AnyString), NEW ws \in Seq(Seq(AnyToken)), Len(ps) = Len(ws),
           \A k \in 1 .. Len(ps) : Reads(ps[k], ws[k]),
           \A k \in 2 .. Len(ps) : BeginsFitting(ps[k])
    PROVE  Reads(FlattenSeq(ps), FlattenSeq(ws))
  <1> DEFINE n == Len(ps)
             P(k) == FlattenSeq(SubSeq(ps, 1, k))
             W(k) == FlattenSeq(SubSeq(ws, 1, k))
             T == {k \in 0 .. n : Reads(P(k), W(k))}
  <1>1. n \in Nat /\ ps \in Seq(Seq(AnyCharacter))
    BY TextsAre
  <1>2. P(0) = <<>> /\ W(0) = <<>>
    <2>1. SubSeq(ps, 1, 0) = <<>> /\ SubSeq(ws, 1, 0) = <<>>
      BY SubSeqEmpty
    <2> QED BY <2>1, FlattenNothing, Zenon
  <1>3. ASSUME NEW k \in 1 .. n
        PROVE  /\ P(k) = P(k - 1) \o ps[k] /\ P(k - 1) \in AnyString /\ ps[k] \in AnyString
               /\ W(k) = W(k - 1) \o ws[k] /\ W(k - 1) \in Seq(AnyToken) /\ ws[k] \in Seq(AnyToken)
    <2>1. P(k) = P(k - 1) \o ps[k] /\ P(k - 1) \in Seq(AnyCharacter) /\ ps[k] \in Seq(AnyCharacter)
      BY <1>1, FlattenUpTo
    <2>2. k \in 1 .. Len(ws)
      OBVIOUS
    <2>3. W(k) = W(k - 1) \o ws[k] /\ W(k - 1) \in Seq(AnyToken) /\ ws[k] \in Seq(AnyToken)
      BY <2>2, FlattenUpTo
    <2> QED BY <2>1, <2>3, TextsAre
  <1>4. P(n) = FlattenSeq(ps) /\ W(n) = FlattenSeq(ws)
    <2>1. SubSeq(ps, 1, Len(ps)) = ps /\ SubSeq(ws, 1, Len(ws)) = ws
      BY SubSeqFull
    <2> QED BY <2>1
  <1>5. ASSUME NEW k \in 1 .. n PROVE Reads(ps[k], ws[k]) /\ (k > 1 => BeginsFitting(ps[k]))
    <2>1. k > 1 => k \in 2 .. Len(ps)
      BY <1>1
    <2> QED BY <2>1
  <1> HIDE DEF P, W, n
  <1>6. Reads(P(0), W(0)) /\ ReadsAnyhow(P(0), W(0))
    BY <1>2, NothingReads, AnyhowReads
  <1>7. 0 \in T
    BY <1>1, <1>6
  <1>8. ASSUME NEW k \in 1 .. n, k - 1 \in T PROVE k \in T
    <2>1. Reads(P(k - 1), W(k - 1)) /\ k \in 0 .. n
      BY <1>1, <1>8
    <2>2. BeginsFitting(ps[k]) \/ ReadsAnyhow(P(k - 1), W(k - 1))
      <3>1. k > 1 \/ k - 1 = 0
        BY <1>1
      <3> QED BY <1>5, <1>6, <3>1
    <2>3. Reads(P(k - 1) \o ps[k], W(k - 1) \o ws[k])
      BY <1>3, <1>5, <2>1, <2>2, BothRead
    <2> QED BY <1>3, <2>1, <2>3
  <1>9. \A k \in 0 .. n : k \in T
    <2> HIDE DEF T
    <2>1. HandedUp(T, n)
      BY <1>7, <1>8 DEF HandedUp
    <2> QED BY <1>1, <2>1, Upwards
  <1>10. Reads(P(n), W(n))
    BY <1>1, <1>9
  <1> QED BY <1>4, <1>10

-----------------------------------------------------------------------------
(* What the parts of a line are read as *)

NoTokens == <<>>
EndOfLine == <<<<"NL">>>>
Opening == <<<<"LB">>>>
Closed == <<<<"RB">>>>
ValueToken(v) == <<<<"VAL", v>>>>

\* The tokens of marks are tokens.
LEMMA TokenTypes ==
    /\ NoTokens \in Seq(AnyToken) /\ EndOfLine \in Seq(AnyToken)
    /\ Opening \in Seq(AnyToken) /\ Closed \in Seq(AnyToken)
  <1>1. /\ <<"NL">> \in AnyToken /\ <<"LB">> \in AnyToken /\ <<"RB">> \in AnyToken
    BY DEF AnyToken
  <1>2. NoTokens \in Seq(AnyToken)
    BY DEF NoTokens
  <1>3. EndOfLine \in Seq(AnyToken)
    BY <1>1, Singleton DEF EndOfLine
  <1>4. Opening \in Seq(AnyToken)
    BY <1>1, Singleton DEF Opening
  <1>5. Closed \in Seq(AnyToken)
    BY <1>1, Singleton DEF Closed
  <1> QED BY <1>2, <1>3, <1>4, <1>5

\* A character that is read by itself is read whatever stands around it ...
LEMMA OneCharacterReads ==
    ASSUME NEW c \in AnyCharacter, NEW w \in Seq(AnyToken),
           \A t, i : t[i] = c => ReadToken(t, i) = [tokens |-> w, next |-> i + 1]
    PROVE  ReadsAnyhow(<<c>>, w)
  <1> SUFFICES ASSUME NEW t \in AnyString, NEW i \in Nat, At(t, i, <<c>>)
               PROVE  Tokenize(t)[i] = w \o Tokenize(t)[i + Len(<<c>>)]
    BY DEF ReadsAnyhow
  <1>1. Len(t) \in Nat
    BY TextsAre
  <1>2. i \in 1 .. Len(t) /\ t[i] = c
    BY <1>1, AtOne
  <1>3. Len(<<c>>) = 1
    OBVIOUS
  <1>4. ReadToken(t, i) = [tokens |-> w, next |-> i + 1]
    BY <1>2
  <1>5. Tokenize(t)[i] = ReadToken(t, i).tokens \o Tokenize(t)[ReadToken(t, i).next]
    BY <1>2, TokenizeIs
  <1> QED BY <1>3, <1>4, <1>5

\* ... as spaces, line ends and braces are.
LEMMA MarksRead ==
    /\ ReadsAnyhow(<<" ">>, NoTokens) /\ ReadsAnyhow(<<"\n">>, EndOfLine)
    /\ ReadsAnyhow(<<"{">>, Opening) /\ ReadsAnyhow(<<"}">>, Closed)
  <1>1. \A t, i : t[i] = " " => ReadToken(t, i) = [tokens |-> NoTokens, next |-> i + 1]
    BY DEF ReadToken, NoTokens
  <1>2. \A t, i : t[i] = "\n" => ReadToken(t, i) = [tokens |-> EndOfLine, next |-> i + 1]
    BY DEF ReadToken, EndOfLine
  <1>3. \A t, i : t[i] = "{" => ReadToken(t, i) = [tokens |-> Opening, next |-> i + 1]
    BY DEF ReadToken, Opening
  <1>4. \A t, i : t[i] = "}" => ReadToken(t, i) = [tokens |-> Closed, next |-> i + 1]
    BY DEF ReadToken, Closed
  <1>5. ReadsAnyhow(<<" ">>, NoTokens)
    BY <1>1, CharactersAre, TokenTypes, OneCharacterReads
  <1>6. ReadsAnyhow(<<"\n">>, EndOfLine)
    BY <1>2, CharactersAre, TokenTypes, OneCharacterReads
  <1>7. ReadsAnyhow(<<"{">>, Opening)
    BY <1>3, CharactersAre, TokenTypes, OneCharacterReads
  <1>8. ReadsAnyhow(<<"}">>, Closed)
    BY <1>4, CharactersAre, TokenTypes, OneCharacterReads
  <1> QED BY <1>5, <1>6, <1>7, <1>8

\* The spaces in front of a line.
LEMMA SpacesRead ==
    ASSUME NEW n \in Nat
    PROVE  ReadsAnyhow(Spaces(n), NoTokens)
  <1> DEFINE T == {k \in 0 .. n : ReadsAnyhow(Spaces(k), NoTokens)}
  <1>1. ReadsAnyhow(Spaces(0), NoTokens)
    <2>1. Spaces(0) = <<>>
      BY DEF Spaces
    <2> QED BY <2>1, NothingReads DEF NoTokens
  <1>2. ASSUME NEW k \in 1 .. n, ReadsAnyhow(Spaces(k - 1), NoTokens)
        PROVE  ReadsAnyhow(Spaces(k), NoTokens)
    <2> DEFINE p == Spaces(k - 1)
    <2>1. k \in Nat /\ k - 1 \in Nat
      OBVIOUS
    <2>2. p \in Seq(AnyCharacter) /\ Len(p) = k - 1 /\ Spaces(k) \in Seq(AnyCharacter)
          /\ Len(Spaces(k)) = k
      BY <2>1, SpacesType, TextsAre
    <2>3. (\A j \in 1 .. k - 1 : p[j] = " ") /\ (\A j \in 1 .. k : Spaces(k)[j] = " ")
      BY DEF Spaces
    <2> HIDE DEF p
    <2>4. Spaces(k) = p \o <<" ">>
      <3> DEFINE all == Spaces(k)
                 blank == " "
      <3>1. all \in Seq(AnyCharacter) /\ Len(all) = Len(p) + 1 /\ Len(p) = k - 1 /\ Len(all) = k
        BY <2>1, <2>2
      <3>2. (\A j \in 1 .. k - 1 : p[j] = blank) /\ (\A j \in 1 .. k : all[j] = blank)
        BY <2>3
      <3> HIDE DEF all, p, blank
      <3>3. \A j \in 1 .. Len(p) : all[j] = p[j]
        BY <2>1, <3>1, <3>2
      <3>4. all = Append(p, all[Len(all)])
        BY <2>2, <3>1, <3>3, FrontAndOne
      <3>5. all[Len(all)] = blank
        BY <2>1, <3>1, <3>2
      <3>6. Append(p, blank) = p \o <<blank>>
        BY <2>2, CharactersAre, AppendIsConcat DEF blank
      <3> QED BY <3>4, <3>5, <3>6 DEF all, blank
    <2>5. ReadsAnyhow(p, NoTokens)
      BY <1>2 DEF p
    <2>6. ReadsAnyhow(p \o <<" ">>, NoTokens \o NoTokens)
      BY <2>2, <2>5, MarksType, MarksRead, TokenTypes, TextsAre, BothReadAnyhow
    <2>7. NoTokens \o NoTokens = NoTokens
      BY DEF NoTokens
    <2> QED BY <2>4, <2>6, <2>7 DEF p
  <1>3. \A k \in 0 .. n : k \in T
    <2>1. HandedUp(T, n)
      BY <1>1, <1>2 DEF HandedUp
    <2> HIDE DEF T
    <2> QED BY <2>1, Upwards
  <1> QED BY <1>3

\* A word that ends where it may end.
LEMMA WordReads ==
    ASSUME NEW word \in AnyString, word # <<>>, \A k \in 1 .. Len(word) : word[k] \notin Delims
    PROVE  Reads(word, <<ParseBare(word)>>)
  <1> SUFFICES ASSUME NEW t \in AnyString, NEW i \in Nat, At(t, i, word), Fits(t, i + Len(word))
               PROVE  Tokenize(t)[i] = <<ParseBare(word)>> \o Tokenize(t)[i + Len(word)]
    BY DEF Reads
  <1> DEFINE n == Len(t)
             m == Len(word)
             end == FirstOf(t, i, Delims)
  <1>1. t \in Seq(AnyCharacter) /\ word \in Seq(AnyCharacter) /\ n \in Nat /\ m \in Nat
    BY TextsAre
  <1>2. m # 0
    BY <1>1
  <1>3. i \in Nat \ {0} /\ i + m <= n + 1 /\ \A k \in 1 .. m : t[i + k - 1] = word[k]
    BY DEF At
  <1>4. i \in 1 .. n /\ i \in 1 .. n + 1 /\ i + m \in 1 .. n + 1
    BY <1>1, <1>2, <1>3
  <1>5. /\ end \in i .. n + 1 /\ (end <= n => t[end] \in Delims)
        /\ \A q \in i .. end - 1 : t[q] \notin Delims
    BY <1>1, <1>4, FirstOfIs
  <1>6. i + m = n + 1 \/ t[i + m] \in Delims
    BY DEF Fits
  <1>7. \A k \in 1 .. m : word[k] \notin Delims
    OBVIOUS
  <1> HIDE DEF n, m, end
  <1>8. end = i + m
    <2>1. CASE end < i + m
      <3>1. end - i + 1 \in 1 .. m /\ end <= n /\ i + (end - i + 1) - 1 = end
        BY <1>1, <1>3, <1>4, <1>5, <2>1
      <3> QED BY <1>3, <1>5, <1>7, <3>1
    <2>2. CASE end > i + m
      <3>1. i + m \in i .. end - 1 /\ i + m # n + 1
        BY <1>1, <1>3, <1>4, <1>5, <2>2
      <3> QED BY <1>5, <1>6, <3>1
    <2> QED BY <1>1, <1>3, <1>5, <2>1, <2>2
  <1>9. SubSeq(t, i, end - 1) = word
    <2>1. end - 1 \in i - 1 .. n /\ (end - 1) - i + 1 = m
      BY <1>1, <1>3, <1>4, <1>8
    <2> DEFINE u == SubSeq(t, i, end - 1)
    <2>2. u \in Seq(AnyCharacter) /\ Len(u) = m /\ \A k \in 1 .. m : u[k] = t[i + k - 1]
      BY <1>1, <1>4, <2>1, SubSeqType DEF n
    <2> HIDE DEF u
    <2>3. \A k \in 1 .. m : u[k] = word[k]
      BY <1>3, <2>2
    <2>4. Len(word) = Len(u)
      BY <2>2 DEF m
    <2>5. u = word
      BY <1>1, <2>2, <2>3, <2>4, SeqEqual DEF m
    <2> QED BY <2>5 DEF u
  <1>10. t[i] \notin Delims
    <2>1. i \in i .. end - 1
      BY <1>1, <1>2, <1>3, <1>8
    <2> QED BY <1>5, <2>1
  <1>11. ReadToken(t, i) = [tokens |-> <<ParseBare(word)>>, next |-> end]
    BY <1>4, <1>9, <1>10, WordIs DEF n, end
  <1>12. Tokenize(t)[i] = ReadToken(t, i).tokens \o Tokenize(t)[ReadToken(t, i).next]
    BY <1>4, TokenizeIs DEF n
  <1> QED BY <1>8, <1>11, <1>12 DEF m

-----------------------------------------------------------------------------
(* What a value is read as *)

\* The digits.
LEMMA DigitsAre == Digits = {"0", "1", "2", "3", "4", "5", "6", "7", "8", "9"}
  <1>1. /\ DOMAIN Decimals = 1 .. 10
        /\ Decimals[1] = "0" /\ Decimals[2] = "1" /\ Decimals[3] = "2" /\ Decimals[4] = "3"
        /\ Decimals[5] = "4" /\ Decimals[6] = "5" /\ Decimals[7] = "6" /\ Decimals[8] = "7"
        /\ Decimals[9] = "8" /\ Decimals[10] = "9"
    BY DEF Decimals
  <1>2. Digits = {Decimals[i] : i \in 1 .. 10}
    BY <1>1 DEF Digits, ToSet
  <1> QED BY <1>1, <1>2

\* The characters of words end no word.
LEMMA WordCharacters ==
    /\ \A c \in Letters : c \notin Delims /\ c \notin Digits /\ c \notin Marks
    /\ \A c \in Digits : c \notin Delims /\ c \notin Marks
    /\ \A c \in Marks : c \notin Delims
  <1>1. \A c \in Letters : c \notin Delims /\ c \notin Digits /\ c \notin Marks
    BY KdlAssumption
  <1>2. \A c \in Digits : c \notin Delims /\ c \notin Marks
    BY DigitsAre DEF Delims, Marks
  <1>3. \A c \in Marks : c \notin Delims
    BY DEF Delims, Marks
  <1> QED BY <1>1, <1>2, <1>3

\* Keywords consist of letters, and no two are the same.
LEMMA KeywordLetters ==
    ASSUME NEW k \in DOMAIN Keywords
    PROVE  /\ Keywords[k] # <<>> /\ Head(Keywords[k]) \in Letters
           /\ \A i \in 1 .. Len(Keywords[k]) : Keywords[k][i] \in Letters
           /\ \A j \in DOMAIN Keywords : Keywords[j] = Keywords[k] => j = k
  <1> DEFINE a == <<"t", "r", "u", "e">>
             b == <<"f", "a", "l", "s", "e">>
             c == <<"n", "u", "l", "l">>
  <1>1. /\ DOMAIN Keywords = {"true", "false", "null"}
        /\ Keywords["true"] = a /\ Keywords["false"] = b /\ Keywords["null"] = c
    BY DEF Keywords
  <1>2. /\ "a" \in Letters /\ "e" \in Letters /\ "f" \in Letters /\ "l" \in Letters
        /\ "n" \in Letters /\ "r" \in Letters /\ "s" \in Letters /\ "t" \in Letters
        /\ "u" \in Letters
    BY KdlAssumption
  <1>3. a # <<>> /\ Head(a) \in Letters /\ \A i \in 1 .. Len(a) : a[i] \in Letters
    BY <1>2
  <1>4. b # <<>> /\ Head(b) \in Letters /\ \A i \in 1 .. Len(b) : b[i] \in Letters
    BY <1>2
  <1>5. c # <<>> /\ Head(c) \in Letters /\ \A i \in 1 .. Len(c) : c[i] \in Letters
    BY <1>2
  <1>6. a # b /\ a # c /\ b # c
    <2>1. a[1] = "t" /\ b[1] = "f" /\ c[1] = "n"
      OBVIOUS
    <2> QED BY <2>1
  <1> HIDE DEF a, b, c
  <1> QED BY <1>1, <1>3, <1>4, <1>5, <1>6

\* A keyword is read as the value it stands for.
LEMMA KeywordReads ==
    ASSUME NEW k \in DOMAIN Keywords
    PROVE  Reads(Keywords[k], ValueToken(<<k>>))
  <1> DEFINE word == Keywords[k]
             keyword == {j \in DOMAIN Keywords : word = Keywords[j]}
  <1>1. /\ word # <<>> /\ \A i \in 1 .. Len(word) : word[i] \in Letters
        /\ \A j \in DOMAIN Keywords : Keywords[j] = word => j = k
    BY KeywordLetters
  <1>2. word \in AnyString
    BY KeywordsType
  <1>3. keyword = {k}
    BY <1>1
  <1>4. ParseBare(word) = <<"VAL", <<CHOOSE j \in keyword : TRUE>>>>
    BY <1>3 DEF ParseBare
  <1>5. ParseBare(word) = <<"VAL", <<k>>>>
    BY <1>3, <1>4
  <1>6. Reads(word, <<ParseBare(word)>>)
    <2> HIDE DEF word
    <2>1. \A i \in 1 .. Len(word) : word[i] \notin Delims
      BY <1>1, WordCharacters
    <2> QED BY <1>1, <1>2, <2>1, WordReads
  <1> QED BY <1>5, <1>6 DEF ValueToken

\* The characters of a number.
LEMMA NumberIs ==
    ASSUME NEW ds \in IntegerTexts
    PROVE  /\ ds \in AnyString /\ ds # <<>> /\ Integer(ds) = ds /\ ~(Len(ds) > MaxIntDigits)
           /\ Head(ds) = "-" \/ Head(ds) \in Digits
           /\ \A i \in 1 .. Len(ds) : ds[i] = "-" \/ ds[i] \in Digits
           /\ Digital(IF Head(ds) \in {"+", "-"} THEN Tail(ds) ELSE ds)
  <1>1. /\ ds \in AnyString /\ ds # <<>> /\ Integer(ds) = ds /\ Len(ds) <= MaxIntDigits
        /\ Digital(IF Head(ds) = "-" THEN Tail(ds) ELSE ds)
    BY DEF IntegerTexts
  <1>2. /\ Head(ds) = ds[1] /\ Len(ds) \in Nat \ {0}
        /\ \A i \in 2 .. Len(ds) : ds[i] = Tail(ds)[i - 1] /\ i - 1 \in DOMAIN Tail(ds)
    <2>1. ds \in Seq(AnyCharacter)
      BY <1>1, TextsAre
    <2> QED BY <1>1, <2>1
  <1>3. \A t : Digital(t) => \A i \in DOMAIN t : t[i] \in Digits
    BY DEF Digital, ToSet
  <1>4. CASE Head(ds) = "-"
    <2>1. Digital(Tail(ds))
      BY <1>1, <1>4
    <2>2. \A i \in 2 .. Len(ds) : ds[i] \in Digits
      BY <1>2, <1>3, <2>1
    <2>3. \A i \in 1 .. Len(ds) : i = 1 \/ i \in 2 .. Len(ds)
      BY <1>2
    <2>4. \A i \in 1 .. Len(ds) : ds[i] = "-" \/ ds[i] \in Digits
      BY <1>2, <1>4, <2>2, <2>3
    <2>5. ~(Len(ds) > MaxIntDigits)
      BY <1>1, <1>2, KdlAssumption
    <2>6. Digital(IF Head(ds) \in {"+", "-"} THEN Tail(ds) ELSE ds)
      BY <1>4, <2>1
    <2> QED BY <1>1, <1>4, <2>4, <2>5, <2>6
  <1>5. CASE Head(ds) # "-"
    <2>1. Digital(ds)
      BY <1>1, <1>5
    <2>2. DOMAIN ds = 1 .. Len(ds)
      BY <1>1, TextsAre
    <2>3. \A i \in 1 .. Len(ds) : ds[i] \in Digits
      BY <1>3, <2>1, <2>2
    <2>4. Head(ds) \in Digits
      BY <1>2, <2>3
    <2>5. Head(ds) \notin {"+", "-"}
      BY <2>4, WordCharacters DEF Marks
    <2>6. ~(Len(ds) > MaxIntDigits)
      BY <1>1, <1>2, KdlAssumption
    <2>7. Digital(IF Head(ds) \in {"+", "-"} THEN Tail(ds) ELSE ds)
      BY <2>1, <2>5
    <2> QED BY <1>1, <2>3, <2>4, <2>6, <2>7
  <1> QED BY <1>4, <1>5

\* A number in its shortest form is read as this number.
LEMMA NumberReads ==
    ASSUME NEW ds \in IntegerTexts
    PROVE  Reads(ds, ValueToken(<<"int", ds>>))
  <1>1. /\ ds \in AnyString /\ ds # <<>> /\ Integer(ds) = ds /\ ~(Len(ds) > MaxIntDigits)
        /\ Head(ds) = "-" \/ Head(ds) \in Digits
        /\ \A i \in 1 .. Len(ds) : ds[i] = "-" \/ ds[i] \in Digits
        /\ Digital(IF Head(ds) \in {"+", "-"} THEN Tail(ds) ELSE ds)
    BY NumberIs
  <1>2. "-" \in Marks
    BY DEF Marks
  <1>3. {j \in DOMAIN Keywords : ds = Keywords[j]} = {}
    <2>1. Head(ds) \notin Letters
      BY <1>1, <1>2, WordCharacters
    <2> QED BY <2>1, KeywordLetters
  <1>4. ParseBare(ds) = <<"VAL", <<"int", ds>>>>
    BY <1>1, <1>3 DEF ParseBare
  <1>5. \A i \in 1 .. Len(ds) : ds[i] \notin Delims
    BY <1>1, <1>2, WordCharacters
  <1>6. Reads(ds, <<ParseBare(ds)>>)
    BY <1>1, <1>5, WordReads
  <1> QED BY <1>4, <1>6 DEF ValueToken

\* A text without quotes, and the name of a node.
LEMMA BareReads ==
    ASSUME NEW t \in AnyString, IsBare(t)
    PROVE  Reads(t, ValueToken(<<"text", t>>))
  <1>1. /\ t # <<>> /\ Head(t) \in Letters
        /\ ToSet(t) \subseteq Letters \cup Digits \cup Marks
        /\ \A k \in DOMAIN Keywords : t # Keywords[k]
    BY DEF IsBare
  <1>2. DOMAIN t = 1 .. Len(t) /\ Head(t) = t[1] /\ 1 \in 1 .. Len(t)
    <2>1. t \in Seq(AnyCharacter)
      BY TextsAre
    <2> QED BY <1>1, <2>1
  <1>3. {j \in DOMAIN Keywords : t = Keywords[j]} = {}
    BY <1>1
  <1>4. ~Digital(IF Head(t) \in {"+", "-"} THEN Tail(t) ELSE t)
    <2>1. Head(t) \notin Digits /\ Head(t) \notin Marks
      BY <1>1, WordCharacters
    <2>2. Head(t) \notin {"+", "-"}
      BY <2>1 DEF Marks
    <2>3. ~Digital(t)
      BY <1>2, <2>1 DEF Digital, ToSet
    <2> QED BY <2>2, <2>3
  <1>5. ParseBare(t) = <<"VAL", <<"text", t>>>>
    BY <1>3, <1>4 DEF ParseBare
  <1>6. \A i \in 1 .. Len(t) : t[i] \notin Delims
    BY <1>1, <1>2, WordCharacters DEF ToSet
  <1>7. Reads(t, <<ParseBare(t)>>)
    BY <1>1, <1>6, WordReads
  <1> QED BY <1>5, <1>7 DEF ValueToken

\* A text in quotes is read as the text, whatever stands around it.
LEMMA QuotedReads ==
    ASSUME NEW s \in AnyString
    PROVE  ReadsAnyhow(<<"\"">> \o Escaped(s) \o <<"\"">>, ValueToken(<<"text", s>>))
  <1> DEFINE q == <<"\"">>
             e == Escaped(s)
             p == q \o e \o q
  <1>0. q \in Seq(AnyCharacter)
    BY MarksType
  <1>1. q \in Seq(AnyCharacter) /\ Len(q) = 1
    BY <1>0
  <1>2. e \in Seq(AnyCharacter) /\ Len(e) \in Nat
    BY EscapedType DEF Escaped
  <1>3. \A t, i : At(t, i, q) /\ Len(t) \in Nat => i \in 1 .. Len(t) /\ t[i] = "\""
    BY AtOne
  <1>4. IsReadBack(s)
    BY QuotedBack
  <1>5. \A t \in AnyString, i \in Nat : At(t, i, e \o q) =>
           Quoted(t)[i] = [next |-> i + Len(e) + 1, text |-> s]
    BY <1>4 DEF IsReadBack
  <1>6. SUFFICES ASSUME NEW t \in AnyString, NEW i \in Nat, At(t, i, p)
                 PROVE  Tokenize(t)[i] = ValueToken(<<"text", s>>) \o Tokenize(t)[i + Len(p)]
    BY DEF ReadsAnyhow
  <1> HIDE DEF q, e
  <1>7. t \in Seq(AnyCharacter) /\ Len(t) \in Nat
    BY TextsAre
  <1>8. e \o q \in Seq(AnyCharacter) /\ Len(e \o q) = Len(e) + Len(q)
    BY <1>1, <1>2, ConcatProperties
  <1>9. p = q \o (e \o q)
    BY <1>1, <1>2, ConcatAssociative
  <1>10. /\ At(t, i, q) /\ At(t, i + Len(q), e \o q)
         /\ i + Len(p) = (i + Len(q)) + Len(e \o q)
    <2> DEFINE behind == e \o q
    <2>1. behind \in Seq(AnyCharacter) /\ At(t, i, q \o behind) /\ p = q \o behind
      BY <1>6, <1>8, <1>9
    <2> HIDE DEF behind, p
    <2>2. At(t, i, q) /\ At(t, i + Len(q), behind)
      BY <1>1, <1>7, <2>1, AtBoth
    <2>3. i + Len(q \o behind) = (i + Len(q)) + Len(behind)
      <3>1. /\ Len(q \o behind) = Len(q) + Len(behind)
            /\ Len(q) \in Nat /\ Len(behind) \in Nat
        BY <1>0, <2>1, ConcatProperties
      <3> QED BY <3>1
    <2> QED BY <2>1, <2>2, <2>3 DEF behind
  <1>11. i \in 1 .. Len(t) /\ t[i] = "\""
    BY <1>3, <1>7, <1>10
  <1>12. Quoted(t)[i + 1] = [next |-> (i + 1) + Len(e) + 1, text |-> s]
    BY <1>1, <1>5, <1>10
  <1>13. i + Len(p) = (i + 1) + Len(e) + 1 /\ (i + 1) + Len(e) + 1 # 0
    BY <1>1, <1>2, <1>8, <1>10
  <1>14. ReadToken(t, i) = [tokens |-> <<<<"VAL", <<"text", s>>>>>>, next |-> (i + 1) + Len(e) + 1]
    <2> DEFINE r == Quoted(t)[i + 1]
               next == (i + 1) + Len(e) + 1
    <2>1. ReadToken(t, i) = IF r.next = 0 THEN [tokens |-> <<<<"ERR">>>>, next |-> Len(t) + 1]
                            ELSE [tokens |-> <<<<"VAL", <<"text", r.text>>>>>>, next |-> r.next]
      BY <1>11 DEF ReadToken
    <2>2. r = [next |-> next, text |-> s] /\ next # 0
      BY <1>12, <1>13
    <2> HIDE DEF r, next
    <2>3. r.next = next /\ r.text = s /\ next # 0
      BY <2>2
    <2>4. ReadToken(t, i) = [tokens |-> <<<<"VAL", <<"text", s>>>>>>, next |-> next]
      BY <2>1, <2>3
    <2> QED BY <2>4 DEF next
  <1>15. Tokenize(t)[i] = ReadToken(t, i).tokens \o Tokenize(t)[ReadToken(t, i).next]
    BY <1>11, TokenizeIs
  <1> QED BY <1>13, <1>14, <1>15 DEF ValueToken

\* Every value is read as the value that was written.
LEMMA ValueReads ==
    ASSUME NEW v \in AnyValue
    PROVE  Reads(FormatValue(v), ValueToken(v)) /\ ValueToken(v) \in Seq(AnyToken)
  <1>1. CASE \E k \in DOMAIN Keywords : v = <<k>>
    <2>1. PICK k \in DOMAIN Keywords : v = <<k>>
      BY <1>1
    <2>2. FormatValue(v) = Keywords[k]
      BY <2>1 DEF FormatValue
    <2>3. Reads(Keywords[k], ValueToken(<<k>>))
      BY KeywordReads
    <2>4. v \in ReadValue
      BY <2>1 DEF ReadValue
    <2>5. ValueToken(v) \in Seq(AnyToken)
      BY <2>4, Singleton DEF ValueToken, AnyToken
    <2> QED BY <2>1, <2>2, <2>3, <2>5
  <1>2. CASE v \in {"int"} \X IntegerTexts
    <2>1. PICK ds \in IntegerTexts : v = <<"int", ds>>
      BY <1>2
    <2>2. FormatValue(v) = ds
      BY <2>1 DEF FormatValue, Keywords
    <2>3. Reads(ds, ValueToken(<<"int", ds>>))
      BY NumberReads
    <2>4. v \in ReadValue
      <3>1. ds \in AnyString /\ v = <<"int", Integer(ds)>>
        BY <2>1, NumberIs
      <3> QED BY <3>1 DEF ReadValue
    <2>5. ValueToken(v) \in Seq(AnyToken)
      BY <2>4, Singleton DEF ValueToken, AnyToken
    <2> QED BY <2>1, <2>2, <2>3, <2>5
  <1>3. CASE v \in {"text"} \X AnyString
    <2>1. PICK s \in AnyString : v = <<"text", s>>
      BY <1>3
    <2>2. FormatValue(v) = IF IsBare(s) THEN s ELSE <<"\"">> \o Escaped(s) \o <<"\"">>
      <3>1. v[1] = "text" /\ v[2] = s /\ "text" \notin DOMAIN Keywords
        BY <2>1 DEF Keywords
      <3> QED BY <3>1 DEF FormatValue, Escaped
    <2>3. IsBare(s) => Reads(s, ValueToken(<<"text", s>>))
      BY BareReads
    <2>4. Reads(<<"\"">> \o Escaped(s) \o <<"\"">>, ValueToken(<<"text", s>>))
      BY QuotedReads, AnyhowReads
    <2>5. Reads(FormatValue(v), ValueToken(v))
      BY <2>1, <2>2, <2>3, <2>4, Zenon
    <2>6. v \in ReadValue
      BY <2>1 DEF ReadValue
    <2>7. ValueToken(v) \in Seq(AnyToken)
      BY <2>6, Singleton DEF ValueToken, AnyToken
    <2> QED BY <2>5, <2>7
  <1> QED BY <1>1, <1>2, <1>3 DEF AnyValue

\* Begins with what ends a word.
Fitting(p) == p # <<>> /\ p[1] \in Delims

\* A word may end in front of a part that begins with a delimiter, also when more follows ...
LEMMA FittingConcat ==
    ASSUME NEW p \in AnyString, NEW q \in AnyString, Fitting(p)
    PROVE  Fitting(p \o q)
  <1>1. p \in Seq(AnyCharacter) /\ q \in Seq(AnyCharacter)
    BY TextsAre
  <1>2. Len(p) \in Nat \ {0} /\ Len(q) \in Nat
    BY <1>1 DEF Fitting
  <1>3. (p \o q)[1] = p[1] /\ p \o q \in Seq(AnyCharacter) /\ Len(p \o q) = Len(p) + Len(q)
    BY <1>1, <1>2, ConcatProperties
  <1>4. p \o q # <<>>
    BY <1>2, <1>3
  <1> QED BY <1>3, <1>4 DEF Fitting

\* ... or when the part consists of such parts.
LEMMA FittingFlat ==
    ASSUME NEW ps \in Seq(AnyString), \A k \in 1 .. Len(ps) : Fitting(ps[k])
    PROVE  BeginsFitting(FlattenSeq(ps))
  <1>1. CASE ps = <<>>
    BY <1>1, FlattenNothing DEF BeginsFitting
  <1>2. CASE ps # <<>>
    <2> DEFINE rest == FlattenSeq(SubSeq(ps, 2, Len(ps)))
    <2>1. 1 \in 1 .. Len(ps) /\ 1 + 1 = 2 /\ ps \in Seq(Seq(AnyCharacter))
      BY <1>2, TextsAre
    <2>2. /\ FlattenSeq(SubSeq(ps, 1, Len(ps))) = ps[1] \o rest
          /\ rest \in Seq(AnyCharacter) /\ ps[1] \in Seq(AnyCharacter)
      BY <2>1, FlattenFrom
    <2>3. SubSeq(ps, 1, Len(ps)) = ps
      BY SubSeqFull
    <2> HIDE DEF rest
    <2>4. Fitting(ps[1] \o rest)
      BY <2>1, <2>2, FittingConcat, TextsAre
    <2> QED BY <2>2, <2>3, <2>4 DEF Fitting, BeginsFitting
  <1> QED BY <1>1, <1>2

\* Spaces and line ends are delimiters.
LEMMA MarksFit ==
    Fitting(<<" ">>) /\ Fitting(<<"\n">>) /\ Fitting(<<" ", "{">>)
  BY DEF Fitting, Delims

ArgumentTokens(args) == [i \in DOMAIN args |-> ValueToken(args[i])]

\* The values behind the name of a node.
LEMMA ArgumentsRead ==
    ASSUME NEW args \in Seq(AnyValue)
    PROVE  /\ Reads(FlattenSeq(Written(args)), FlattenSeq(ArgumentTokens(args)))
           /\ BeginsFitting(FlattenSeq(Written(args)))
           /\ ArgumentTokens(args) \in Seq(Seq(AnyToken)) /\ Len(ArgumentTokens(args)) = Len(args)
           /\ FlattenSeq(ArgumentTokens(args)) \in Seq(AnyToken)
  <1> DEFINE ps == Written(args)
             ws == ArgumentTokens(args)
             blank == <<" ">>
  <1>1. /\ ps \in Seq(Seq(AnyCharacter)) /\ Len(ps) = Len(args)
        /\ \A i \in 1 .. Len(args) : ps[i] = blank \o FormatValue(args[i])
    BY WrittenType
  <1>2. /\ DOMAIN args = 1 .. Len(args) /\ Len(args) \in Nat
        /\ \A i \in 1 .. Len(args) : args[i] \in AnyValue
    OBVIOUS
  <1>3. \A i \in 1 .. Len(args) : ws[i] = ValueToken(args[i]) /\ ws[i] \in Seq(AnyToken)
    BY <1>2, ValueReads DEF ArgumentTokens
  <1>4. ws \in [1 .. Len(args) -> Seq(AnyToken)]
    BY <1>2, <1>3 DEF ArgumentTokens
  <1>5. ws \in Seq(Seq(AnyToken)) /\ Len(ws) = Len(args)
    BY <1>2, <1>4, FunctionIsSeq
  <1>6. blank \in AnyString /\ ReadsAnyhow(blank, NoTokens) /\ Fitting(blank)
    BY MarksType, MarksRead, MarksFit, TextsAre
  <1> HIDE DEF ps, ws, blank
  <1>7. ASSUME NEW i \in 1 .. Len(args) PROVE Reads(ps[i], ws[i]) /\ Fitting(ps[i])
    <2> DEFINE v == FormatValue(args[i])
    <2>1. v \in AnyString /\ Reads(v, ws[i]) /\ ws[i] \in Seq(AnyToken)
      BY <1>2, <1>3, ValueReads, FormatValueType
    <2>2. ps[i] = blank \o v
      BY <1>1
    <2> HIDE DEF v
    <2>3. Reads(blank \o v, NoTokens \o ws[i])
      BY <1>6, <2>1, TokenTypes, AnyhowReads, BothRead
    <2>4. NoTokens \o ws[i] = ws[i]
      BY <2>1, ConcatEmptySeq DEF NoTokens
    <2>5. Fitting(blank \o v)
      BY <1>6, <2>1, FittingConcat
    <2> QED BY <2>2, <2>3, <2>4, <2>5
  <1>8. ps \in Seq(AnyString) /\ Len(ps) = Len(ws)
    BY <1>1, <1>5, TextsAre
  <1>9. \A k \in 1 .. Len(ps) : Reads(ps[k], ws[k]) /\ Fitting(ps[k])
    BY <1>1, <1>7
  <1>10. \A k \in 2 .. Len(ps) : BeginsFitting(ps[k])
    <2>1. \A k \in 2 .. Len(ps) : k \in 1 .. Len(ps)
      OBVIOUS
    <2> QED BY <1>9, <2>1 DEF Fitting, BeginsFitting
  <1>11. Reads(FlattenSeq(ps), FlattenSeq(ws))
    BY <1>5, <1>8, <1>9, <1>10, AllRead
  <1>12. BeginsFitting(FlattenSeq(ps))
    BY <1>8, <1>9, FittingFlat
  <1>13. FlattenSeq(ws) \in Seq(AnyToken)
    BY <1>5, FlattenType
  <1> QED BY <1>5, <1>11, <1>12, <1>13 DEF ps, ws

-----------------------------------------------------------------------------
(* The tokens of a message *)

\* The nodes of a message, and what they have.
LEMMA BareNodeIs ==
    ASSUME NEW nodes \in Seq(BareNode)
    PROVE  /\ nodes \in Seq(SomeNode) /\ Len(nodes) \in Nat
           /\ \A k \in 1 .. Len(nodes) :
                 /\ nodes[k].depth \in 0 .. MaxDepth /\ nodes[k].depth \in Nat
                 /\ nodes[k].name \in AnyString /\ IsBare(nodes[k].name)
                 /\ nodes[k].args \in Seq(AnyValue) /\ NextDepth(nodes, k) \in Nat
  <1>1. MaxDepth \in Nat
    BY KdlAssumption
  <1>2. Len(nodes) \in Nat /\ \A k \in 1 .. Len(nodes) : nodes[k] \in BareNode
    OBVIOUS
  <1>3. \A n \in BareNode : /\ n.depth \in 0 .. MaxDepth /\ n.name \in AnyString /\ IsBare(n.name)
                            /\ n.args \in Seq(AnyValue)
    BY DEF BareNode
  <1>4. \A d \in 0 .. MaxDepth : d \in Nat
    BY <1>1
  <1>5. BareNode \subseteq SomeNode
    BY <1>4 DEF BareNode, SomeNode
  <1>6. nodes \in Seq(SomeNode)
    BY <1>5
  <1>7. \A k \in 1 .. Len(nodes) : NextDepth(nodes, k) \in Nat
    BY <1>6, NextDepthType
  <1> QED BY <1>2, <1>3, <1>4, <1>6, <1>7

\* Two elements, one by one.
LEMMA TwoOnes ==
    ASSUME NEW a, NEW b
    PROVE  <<a>> \o <<b>> = <<a, b>>
  <1> DEFINE p == <<a>>
             q == <<b>>
             r == p \o q
  <1>1. /\ p \in Seq({a, b}) /\ q \in Seq({a, b}) /\ <<a, b>> \in Seq({a, b})
    OBVIOUS
  <1>2. Len(p) = 1 /\ p[1] = a /\ Len(q) = 1 /\ q[1] = b
    OBVIOUS
  <1> HIDE DEF p, q
  <1>4. /\ r \in Seq({a, b}) /\ Len(r) = Len(p) + Len(q)
        /\ \A i \in 1 .. Len(p) + Len(q) : r[i] = IF i <= Len(p) THEN p[i] ELSE q[i - Len(p)]
    BY <1>1, ConcatProperties
  <1> HIDE DEF r
  <1>3. r = <<a, b>>
    BY <1>1, <1>2, <1>4
  <1> QED BY <1>3 DEF p, q, r

Opens(nodes, k) == NextDepth(nodes, k) > nodes[k].depth

LineTokens(nodes, k) ==
    ValueToken(<<"text", nodes[k].name>>) \o FlattenSeq(ArgumentTokens(nodes[k].args))
        \o (IF Opens(nodes, k) THEN Opening ELSE NoTokens)

\* The line of a node is read as its name, its arguments and its brace.
LEMMA LineReads ==
    ASSUME NEW nodes \in Seq(BareNode), NEW k \in 1 .. Len(nodes)
    PROVE  /\ Reads(Line(nodes, k), LineTokens(nodes, k))
           /\ Line(nodes, k) \in AnyString /\ LineTokens(nodes, k) \in Seq(AnyToken)
  <1> DEFINE n == nodes[k]
             spaces == Spaces(2 * n.depth)
             args == FlattenSeq(Written(n.args))
             brace == IF Opens(nodes, k) THEN <<" ", "{">> ELSE <<>>
             nameToken == ValueToken(<<"text", n.name>>)
             argTokens == FlattenSeq(ArgumentTokens(n.args))
             braceToken == IF Opens(nodes, k) THEN Opening ELSE NoTokens
  <1>1. /\ n.depth \in Nat /\ n.name \in AnyString /\ IsBare(n.name) /\ n.args \in Seq(AnyValue)
        /\ 2 * n.depth \in Nat
    BY BareNodeIs
  <1>2. spaces \in AnyString /\ ReadsAnyhow(spaces, NoTokens)
    BY <1>1, SpacesType, SpacesRead
  <1>3. Reads(n.name, nameToken) /\ nameToken \in Seq(AnyToken)
    <2>1. <<"text", n.name>> \in AnyValue
      BY <1>1 DEF AnyValue
    <2> QED BY <1>1, <2>1, BareReads, ValueReads
  <1>4. args \in AnyString /\ argTokens \in Seq(AnyToken) /\ Reads(args, argTokens) /\ BeginsFitting(args)
    BY <1>1, WrittenType, ArgumentsRead, TextsAre
  <1>5. brace \in AnyString /\ braceToken \in Seq(AnyToken)
    BY MarksType, TokenTypes, TextsAre
  <1>6. Reads(brace, braceToken) /\ BeginsFitting(brace)
    <2>1. CASE Opens(nodes, k)
      <3>1. <<" ">> \in AnyString /\ <<"{">> \in AnyString
        BY MarksType, TextsAre
      <3>2. ReadsAnyhow(<<" ">> \o <<"{">>, NoTokens \o Opening)
        BY <3>1, MarksRead, TokenTypes, BothReadAnyhow
      <3>3. NoTokens \o Opening = Opening
        BY TokenTypes, ConcatEmptySeq DEF NoTokens
      <3>4. <<" ">> \o <<"{">> = <<" ", "{">>
        BY TwoOnes
      <3>5. Reads(<<" ", "{">>, Opening)
        BY <3>2, <3>3, <3>4, AnyhowReads
      <3> QED BY <2>1, <3>5, MarksFit DEF Fitting, BeginsFitting
    <2>2. CASE ~Opens(nodes, k)
      <3>1. brace = <<>> /\ braceToken = NoTokens /\ NoTokens = <<>>
        BY <2>2 DEF NoTokens
      <3>2. Reads(brace, braceToken)
        BY <3>1, NothingReads, AnyhowReads
      <3> QED BY <3>1, <3>2 DEF BeginsFitting
    <2> QED BY <2>1, <2>2
  <1>7. Line(nodes, k) = spaces \o n.name \o args \o brace
    BY DEF Line, Written, Opens
  <1>8. LineTokens(nodes, k) = nameToken \o argTokens \o braceToken
    BY DEF LineTokens
  <1> HIDE DEF n, spaces, args, brace, nameToken, argTokens, braceToken
  <1>9. Reads(spaces \o n.name, nameToken) /\ spaces \o n.name \in AnyString
    <2>1. Reads(spaces \o n.name, NoTokens \o nameToken)
      BY <1>1, <1>2, <1>3, TokenTypes, AnyhowReads, BothRead
    <2>2. NoTokens \o nameToken = nameToken
      BY <1>3, ConcatEmptySeq DEF NoTokens
    <2> QED BY <1>1, <1>2, <2>1, <2>2, TextConcat
  <1>10. /\ Reads(spaces \o n.name \o args, nameToken \o argTokens)
         /\ spaces \o n.name \o args \in AnyString /\ nameToken \o argTokens \in Seq(AnyToken)
    BY <1>3, <1>4, <1>9, BothRead, TextConcat, ConcatProperties
  <1>11. /\ Reads(spaces \o n.name \o args \o brace, nameToken \o argTokens \o braceToken)
         /\ spaces \o n.name \o args \o brace \in AnyString
         /\ nameToken \o argTokens \o braceToken \in Seq(AnyToken)
    BY <1>5, <1>6, <1>10, BothRead, TextConcat, ConcatProperties
  <1> QED BY <1>7, <1>8, <1>11

\* How many blocks end behind a node.
Ended(nodes, k) == IF Opens(nodes, k) THEN 0 ELSE nodes[k].depth - NextDepth(nodes, k)

EndToken == EndOfLine \o Closed

ClosingTokens(nodes, k) == FlattenSeq([j \in 1 .. Ended(nodes, k) |-> EndToken])

\* What closes blocks is read as line ends and braces.
LEMMA ClosingReads ==
    ASSUME NEW nodes \in Seq(BareNode), NEW k \in 1 .. Len(nodes)
    PROVE  /\ Reads(Closing(nodes, k), ClosingTokens(nodes, k)) /\ BeginsFitting(Closing(nodes, k))
           /\ Closing(nodes, k) \in AnyString /\ ClosingTokens(nodes, k) \in Seq(AnyToken)
  <1> DEFINE depth == nodes[k].depth
             m == Ended(nodes, k)
             ps == [j \in 1 .. m |-> <<"\n">> \o Spaces(2 * (depth - j)) \o <<"}">>]
             ws == [j \in 1 .. m |-> EndToken]
  <1>1. m \in Nat /\ m <= depth /\ depth \in Nat
    BY BareNodeIs DEF Ended, Opens
  <1>2. Closing(nodes, k) = FlattenSeq(ps)
    BY DEF Closing, Ended, Opens
  <1>3. EndToken \in Seq(AnyToken)
    BY TokenTypes, ConcatProperties DEF EndToken
  <1> HIDE DEF m, depth
  <1>4. ASSUME NEW j \in 1 .. m
        PROVE  /\ ps[j] \in AnyString /\ Reads(ps[j], EndToken) /\ Fitting(ps[j])
    <2> DEFINE a == <<"\n">>
               b == Spaces(2 * (depth - j))
               c == <<"}">>
    <2>1. 2 * (depth - j) \in Nat
      BY <1>1
    <2>2. /\ a \in AnyString /\ ReadsAnyhow(a, EndOfLine) /\ Fitting(a)
          /\ c \in AnyString /\ ReadsAnyhow(c, Closed)
      BY MarksType, MarksRead, MarksFit, TextsAre
    <2>3. b \in AnyString /\ ReadsAnyhow(b, NoTokens)
      BY <2>1, SpacesType, SpacesRead
    <2>4. ps[j] = (a \o b) \o c
      OBVIOUS
    <2> HIDE DEF a, b, c, ps
    <2>5. ReadsAnyhow(a \o b, EndOfLine \o NoTokens) /\ a \o b \in AnyString /\ Fitting(a \o b)
      BY <2>2, <2>3, TokenTypes, BothReadAnyhow, TextConcat, FittingConcat
    <2>6. EndOfLine \o NoTokens = EndOfLine
      BY TokenTypes, ConcatEmptySeq DEF NoTokens
    <2>7. /\ ReadsAnyhow((a \o b) \o c, EndOfLine \o Closed) /\ (a \o b) \o c \in AnyString
          /\ Fitting((a \o b) \o c)
      BY <2>2, <2>5, <2>6, TokenTypes, BothReadAnyhow, TextConcat, FittingConcat
    <2> QED BY <2>4, <2>7, AnyhowReads DEF EndToken
  <1>5. ps \in Seq(AnyString) /\ Len(ps) = m
    <2>1. ps \in [1 .. m -> AnyString]
      BY <1>4
    <2> HIDE DEF ps
    <2> QED BY <1>1, <2>1, FunctionIsSeq
  <1>6. ws \in Seq(Seq(AnyToken)) /\ Len(ws) = m /\ \A j \in 1 .. m : ws[j] = EndToken
    <2>1. ws \in [1 .. m -> Seq(AnyToken)] /\ \A j \in 1 .. m : ws[j] = EndToken
      BY <1>3
    <2> HIDE DEF ws
    <2> QED BY <1>1, <2>1, FunctionIsSeq
  <1> HIDE DEF ps
  <1>7. ClosingTokens(nodes, k) = FlattenSeq(ws)
    BY DEF ClosingTokens, m
  <1> HIDE DEF ws
  <1>8. \A j \in 1 .. Len(ps) : Reads(ps[j], ws[j]) /\ Fitting(ps[j])
    BY <1>4, <1>5, <1>6
  <1>9. \A j \in 2 .. Len(ps) : BeginsFitting(ps[j])
    <2>1. \A j \in 2 .. Len(ps) : j \in 1 .. Len(ps)
      OBVIOUS
    <2> QED BY <1>8, <2>1 DEF Fitting, BeginsFitting
  <1>10. Len(ps) = Len(ws)
    BY <1>5, <1>6
  <1>11. Reads(FlattenSeq(ps), FlattenSeq(ws))
    BY <1>5, <1>6, <1>8, <1>9, <1>10, AllRead
  <1>12. BeginsFitting(FlattenSeq(ps))
    BY <1>5, <1>8, FittingFlat
  <1>13. FlattenSeq(ws) \in Seq(AnyToken)
    BY <1>6, FlattenType
  <1>14. FlattenSeq(ps) \in AnyString
    BY <1>5, FlattenType, TextsAre
  <1> QED BY <1>2, <1>7, <1>11, <1>12, <1>13, <1>14

PieceTokens(nodes, k) ==
    (IF k = 1 THEN NoTokens ELSE EndOfLine) \o LineTokens(nodes, k) \o ClosingTokens(nodes, k)

TokensOf(nodes) == [k \in DOMAIN nodes |-> PieceTokens(nodes, k)]

\* A node is read as its tokens, wherever it stands.
LEMMA PieceReads ==
    ASSUME NEW nodes \in Seq(BareNode), NEW k \in 1 .. Len(nodes)
    PROVE  /\ Reads(Piece(nodes, k), PieceTokens(nodes, k)) /\ (k # 1 => Fitting(Piece(nodes, k)))
           /\ Piece(nodes, k) \in AnyString /\ PieceTokens(nodes, k) \in Seq(AnyToken)
  <1> DEFINE line == Line(nodes, k)
             closing == Closing(nodes, k)
             mark == IF k = 1 THEN <<>> ELSE <<"\n">>
             lineTokens == LineTokens(nodes, k)
             closingTokens == ClosingTokens(nodes, k)
             markTokens == IF k = 1 THEN NoTokens ELSE EndOfLine
  <1>1. Reads(line, lineTokens) /\ line \in AnyString /\ lineTokens \in Seq(AnyToken)
    BY LineReads
  <1>2. /\ Reads(closing, closingTokens) /\ BeginsFitting(closing) /\ closing \in AnyString
        /\ closingTokens \in Seq(AnyToken)
    BY ClosingReads
  <1>3. mark \in AnyString /\ markTokens \in Seq(AnyToken)
    BY MarksType, TokenTypes, TextsAre
  <1>4. ReadsAnyhow(mark, markTokens) /\ (k # 1 => Fitting(mark))
    <2>1. CASE k = 1
      <3>1. mark = <<>> /\ markTokens = <<>>
        BY <2>1 DEF NoTokens
      <3> QED BY <2>1, <3>1, NothingReads
    <2>2. CASE k # 1
      BY <2>2, MarksRead, MarksFit
    <2> QED BY <2>1, <2>2
  <1>5. /\ Piece(nodes, k) = mark \o line \o closing
        /\ PieceTokens(nodes, k) = markTokens \o lineTokens \o closingTokens
    BY DEF Piece, PieceTokens
  <1> HIDE DEF line, closing, mark, lineTokens, closingTokens, markTokens
  <1>6. /\ Reads(mark \o line, markTokens \o lineTokens) /\ mark \o line \in AnyString
        /\ markTokens \o lineTokens \in Seq(AnyToken) /\ (k # 1 => Fitting(mark \o line))
    BY <1>1, <1>3, <1>4, AnyhowReads, BothRead, TextConcat, ConcatProperties, FittingConcat
  <1>7. /\ Reads(mark \o line \o closing, markTokens \o lineTokens \o closingTokens)
        /\ mark \o line \o closing \in AnyString
        /\ markTokens \o lineTokens \o closingTokens \in Seq(AnyToken)
        /\ (k # 1 => Fitting(mark \o line \o closing))
    BY <1>2, <1>6, BothRead, TextConcat, ConcatProperties, FittingConcat
  <1> QED BY <1>5, <1>7

\* The tokens of all nodes.
LEMMA TokensOfType ==
    ASSUME NEW nodes \in Seq(BareNode)
    PROVE  /\ TokensOf(nodes) \in Seq(Seq(AnyToken)) /\ Len(TokensOf(nodes)) = Len(nodes)
           /\ \A k \in 1 .. Len(nodes) : TokensOf(nodes)[k] = PieceTokens(nodes, k)
           /\ FlattenSeq(TokensOf(nodes)) \in Seq(AnyToken)
  <1>1. DOMAIN nodes = 1 .. Len(nodes) /\ Len(nodes) \in Nat
    OBVIOUS
  <1>2. /\ TokensOf(nodes) \in [1 .. Len(nodes) -> Seq(AnyToken)]
        /\ \A k \in 1 .. Len(nodes) : TokensOf(nodes)[k] = PieceTokens(nodes, k)
    BY <1>1, PieceReads DEF TokensOf
  <1>3. TokensOf(nodes) \in Seq(Seq(AnyToken)) /\ Len(TokensOf(nodes)) = Len(nodes)
    BY <1>1, <1>2, FunctionIsSeq
  <1> QED BY <1>2, <1>3, FlattenType

\* The tokens of the text of a message are those of its nodes.
LEMMA SerializeReads ==
    ASSUME NEW nodes \in Seq(BareNode)
    PROVE  Serialize(nodes) \in AnyString
           /\ Tokenize(Serialize(nodes))[1] = FlattenSeq(TokensOf(nodes))
  <1> DEFINE ps == Pieces(nodes)
             ws == TokensOf(nodes)
             t == Serialize(nodes)
             all == FlattenSeq(ws)
  <1>1. /\ ps \in Seq(Seq(AnyCharacter)) /\ Len(ps) = Len(nodes)
        /\ \A k \in 1 .. Len(nodes) : ps[k] = Piece(nodes, k)
        /\ t = FlattenSeq(ps) /\ t \in AnyString /\ nodes \in Seq(SomeNode)
    BY BareNodeIs, PiecesType, TextsAre
  <1>2. /\ ws \in Seq(Seq(AnyToken)) /\ Len(ws) = Len(nodes)
        /\ \A k \in 1 .. Len(nodes) : ws[k] = PieceTokens(nodes, k)
        /\ all \in Seq(AnyToken)
    BY TokensOfType
  <1> HIDE DEF ps, ws, t
  <1>3. ps \in Seq(AnyString) /\ Len(ps) = Len(ws)
    BY <1>1, <1>2, TextsAre
  <1>4. \A k \in 1 .. Len(ps) : Reads(ps[k], ws[k])
    BY <1>1, <1>2, PieceReads
  <1>5. \A k \in 2 .. Len(ps) : BeginsFitting(ps[k])
    <2>1. \A k \in 2 .. Len(ps) : k \in 1 .. Len(nodes) /\ k # 1
      BY <1>1
    <2> QED BY <1>1, <2>1, PieceReads DEF Fitting, BeginsFitting
  <1>6. Reads(t, all)
    BY <1>1, <1>2, <1>3, <1>4, <1>5, AllRead
  <1> HIDE DEF all
  <1>7. t \in Seq(AnyCharacter) /\ Len(t) \in Nat
    BY <1>1, TextsAre
  <1>8. At(t, 1, t) /\ 1 + Len(t) = Len(t) + 1 /\ 1 \in Nat
    <2>1. \A k \in 1 .. Len(t) : 1 + k - 1 = k
      BY <1>7
    <2>2. \A k \in 1 .. Len(t) : t[1 + k - 1] = t[k]
      BY <2>1
    <2>3. 1 \in Nat \ {0} /\ 1 + Len(t) <= Len(t) + 1
      BY <1>7
    <2> QED BY <1>7, <2>2, <2>3 DEF At
  <1>9. Fits(t, 1 + Len(t))
    BY <1>8 DEF Fits
  <1>10. Tokenize(t)[1] = all \o Tokenize(t)[1 + Len(t)]
    BY <1>1, <1>6, <1>8, <1>9 DEF Reads
  <1>11. Tokenize(t)[1 + Len(t)] = <<>>
    BY <1>1, <1>8, TokenizeIs
  <1>12. all \o <<>> = all
    BY <1>2, ConcatEmptySeq
  <1> QED BY <1>1, <1>10, <1>11, <1>12 DEF t, all, ws

\* Sequences of one each.
LEMMA FlatOnes ==
    ASSUME NEW S, NEW s \in Seq(S), NEW ones, ones = [i \in DOMAIN s |-> <<s[i]>>]
    PROVE  FlattenSeq(ones) = s
  <1> DEFINE n == Len(s)
             f == [i \in 0 .. n |-> SubSeq(s, 1, i)]
  <1>1. DOMAIN s = 1 .. n /\ n \in Nat /\ \A i \in 1 .. n : s[i] \in S
    OBVIOUS
  <1>2. \A i \in 1 .. n : ones[i] = <<s[i]>> /\ ones[i] \in Seq(S)
    BY <1>1, Singleton
  <1>3. ones \in Seq(Seq(S)) /\ Len(ones) = n
    <2>1. ones \in [1 .. n -> Seq(S)]
      BY <1>1, <1>2
    <2> QED BY <1>1, <2>1, FunctionIsSeq
  <1>4. f \in [0 .. n -> Seq(S)] /\ \A i \in 0 .. n : f[i] = SubSeq(s, 1, i)
    <2>1. \A i \in 0 .. n : SubSeq(s, 1, i) \in Seq(S)
      BY <1>1, SubSeqType
    <2> QED BY <2>1
  <1> HIDE DEF f
  <1>5. f[0] = <<>>
    <2>1. 0 \in 0 .. n
      BY <1>1
    <2>2. SubSeq(s, 1, 0) = <<>>
      BY SubSeqEmpty
    <2> QED BY <1>4, <2>1, <2>2
  <1>6. \A i \in 1 .. n : f[i] = f[i - 1] \o ones[i]
    <2> TAKE i \in 1 .. n
    <2>1. i \in 0 .. n /\ i - 1 \in 0 .. n
      BY <1>1
    <2>2. SubSeq(s, 1, i) = SubSeq(s, 1, i - 1) \o <<s[i]>>
      BY <1>1, SubSeqRecursiveSecond
    <2> QED BY <1>2, <1>4, <2>1, <2>2
  <1>7. f[n] = s
    <2>1. n \in 0 .. n /\ SubSeq(s, 1, n) = s
      BY <1>1, SubSeqFull
    <2> QED BY <1>4, <2>1
  <1>8. /\ f \in [0 .. Len(ones) -> Seq(S)]
        /\ \A i \in 1 .. Len(ones) : f[i] = f[i - 1] \o ones[i]
    BY <1>3, <1>4, <1>6
  <1>9. FlattenSeq(ones) = f[Len(ones)]
    BY <1>3, <1>5, <1>8, FlattenSteps, Zenon
  <1> QED BY <1>3, <1>7, <1>9

-----------------------------------------------------------------------------
(* The nodes of tokens *)

\* The values end somewhere.
LEMMA ValuesEndIs ==
    ASSUME NEW toks, Len(toks) \in Nat, NEW pos \in 1 .. Len(toks) + 1
    PROVE  /\ ValuesEnd(toks, pos) \in pos .. Len(toks) + 1
           /\ ValuesEnd(toks, pos) <= Len(toks) => toks[ValuesEnd(toks, pos)][1] # "VAL"
           /\ \A q \in pos .. ValuesEnd(toks, pos) - 1 : toks[q][1] = "VAL"
  <1> DEFINE n == Len(toks)
             Is(p) == /\ p <= n => toks[p][1] # "VAL"
                      /\ \A q \in pos .. p - 1 : toks[q][1] = "VAL"
             T == {p \in pos .. n + 1 : p <= n => toks[p][1] # "VAL"}
  <1>1. n \in Nat /\ pos \in 1 .. n + 1
    OBVIOUS
  <1>2. ValuesEnd(toks, pos) = CHOOSE p \in pos .. n + 1 : Is(p)
    BY DEF ValuesEnd
  <1> HIDE DEF n
  <1>3. T \subseteq Nat /\ n + 1 \in T
    BY <1>1
  <1>4. PICK p \in T : \A q \in T : p <= q
    <2> HIDE DEF T
    <2> QED BY <1>3, LeastNumber
  <1>5. p \in pos .. n + 1 /\ Is(p)
    <2>1. ASSUME NEW q \in pos .. p - 1 PROVE toks[q][1] = "VAL"
      <3>1. q \in pos .. n + 1 /\ ~(p <= q)
        BY <1>1, <1>4
      <3> QED BY <1>4, <3>1
    <2> QED BY <1>4, <2>1
  <1> DEFINE first == CHOOSE x \in pos .. n + 1 : Is(x)
  <1>6. first \in pos .. n + 1 /\ Is(first)
    <2> HIDE DEF Is
    <2> QED BY <1>5
  <1> QED BY <1>2, <1>6 DEF n

\* There is no other such place.
LEMMA ValuesEndAt ==
    ASSUME NEW toks, Len(toks) \in Nat, NEW pos \in 1 .. Len(toks) + 1,
           NEW end \in pos .. Len(toks) + 1, end <= Len(toks) => toks[end][1] # "VAL",
           \A q \in pos .. end - 1 : toks[q][1] = "VAL"
    PROVE  ValuesEnd(toks, pos) = end
  <1> DEFINE e == ValuesEnd(toks, pos)
             n == Len(toks)
  <1>1. /\ e \in pos .. n + 1 /\ (e <= n => toks[e][1] # "VAL")
        /\ \A q \in pos .. e - 1 : toks[q][1] = "VAL"
    BY ValuesEndIs
  <1>2. n \in Nat /\ pos \in 1 .. n + 1 /\ end \in pos .. n + 1
    OBVIOUS
  <1>3. end <= n => toks[end][1] # "VAL"
    OBVIOUS
  <1> HIDE DEF e, n
  <1>4. ~(e < end)
    <2> SUFFICES ASSUME e < end PROVE FALSE
      OBVIOUS
    <2>1. e \in pos .. end - 1 /\ e <= n
      BY <1>1, <1>2
    <2> QED BY <1>1, <2>1
  <1>5. ~(end < e)
    <2> SUFFICES ASSUME end < e PROVE FALSE
      OBVIOUS
    <2>1. end \in pos .. e - 1 /\ end <= n
      BY <1>1, <1>2
    <2> QED BY <1>1, <1>3, <2>1
  <1> QED BY <1>1, <1>2, <1>4, <1>5 DEF e

HasBlock(toks, pos) ==
    ValuesEnd(toks, pos) <= Len(toks) /\ toks[ValuesEnd(toks, pos)][1] = "LB"

ParsedNode(toks, pos, depth) ==
    [depth |-> depth, name |-> toks[pos][2][2],
     args |-> [i \in 1 .. ValuesEnd(toks, pos) - pos - 1 |-> toks[pos + i][2]]]

\* Where parsing goes on.
ParseNext(toks, pos) ==
    IF toks[pos][1] # "VAL" THEN pos + 1
    ELSE IF HasBlock(toks, pos) THEN ValuesEnd(toks, pos) + 1 ELSE ValuesEnd(toks, pos)

\* The nodes from pos on, when r has those from there on.
ParseStep(toks, pos, r, depth) ==
    CASE toks[pos][1] = "NL" -> r[depth]
      [] toks[pos][1] = "RB" -> IF depth = 0 THEN Failed ELSE r[depth - 1]
      [] toks[pos][1] \in {"LB", "ERR"} -> Failed
      [] OTHER ->
            LET rest == IF HasBlock(toks, pos) THEN r[depth + 1] ELSE r[depth]
            IN  IF \/ toks[pos][2][1] # "text"
                   \/ HasBlock(toks, pos) /\ depth >= MaxDepth
                   \/ ~rest.ok
                THEN Failed
                ELSE [ok |-> TRUE, nodes |-> <<ParsedNode(toks, pos, depth)>> \o rest.nodes]

ParsedEnd(depth) == [ok |-> depth = 0, nodes |-> <<>>]

ParseBody(toks, parse, pos, depth) ==
            IF pos > Len(toks) THEN [ok |-> depth = 0, nodes |-> <<>>]
            ELSE CASE toks[pos][1] = "NL" -> parse[pos + 1][depth]
                   [] toks[pos][1] = "RB" -> IF depth = 0 THEN Failed ELSE parse[pos + 1][depth - 1]
                   [] toks[pos][1] \in {"LB", "ERR"} -> Failed
                   [] OTHER ->
                        LET end == ValuesEnd(toks, pos)
                            args == [i \in 1 .. end - pos - 1 |-> toks[pos + i][2]]
                            block == end <= Len(toks) /\ toks[end][1] = "LB"
                            node == [depth |-> depth, name |-> toks[pos][2][2], args |-> args]
                            rest == IF block THEN parse[end + 1][depth + 1] ELSE parse[end][depth]
                        IN  IF toks[pos][2][1] # "text" \/ (block /\ depth >= MaxDepth) \/ ~rest.ok
                            THEN Failed
                            ELSE [ok |-> TRUE, nodes |-> <<node>> \o rest.nodes]

Parses(f, toks) ==
    f = [pos \in 1 .. Len(toks) + 1 |-> [depth \in 0 .. MaxDepth |-> ParseBody(toks, f, pos, depth)]]

\* There are five kinds of tokens.
LEMMA TokenIs ==
    ASSUME NEW toks \in Seq(AnyToken), NEW pos \in 1 .. Len(toks)
    PROVE  toks[pos][1] \in {"NL", "LB", "RB", "ERR", "VAL"}
  <1>1. toks[pos] \in AnyToken
    OBVIOUS
  <1> QED BY <1>1 DEF AnyToken

\* What is parsed at a token depends on one later place ...
LEMMA ParseBodyIs ==
    ASSUME NEW toks \in Seq(AnyToken), NEW pos \in 1 .. Len(toks), NEW f, NEW depth
    PROVE  ParseBody(toks, f, pos, depth) = ParseStep(toks, pos, f[ParseNext(toks, pos)], depth)
  <1> DEFINE r == f[ParseNext(toks, pos)]
  <1>1. ~(pos > Len(toks))
    OBVIOUS
  <1>2. CASE toks[pos][1] = "NL"
    <2>1. r = f[pos + 1]
      BY <1>2 DEF ParseNext
    <2>2. ParseBody(toks, f, pos, depth) = f[pos + 1][depth]
      BY <1>1, <1>2 DEF ParseBody
    <2>3. ParseStep(toks, pos, r, depth) = r[depth]
      BY <1>2 DEF ParseStep
    <2> QED BY <2>1, <2>2, <2>3
  <1>3. CASE toks[pos][1] = "RB"
    <2>1. r = f[pos + 1]
      BY <1>3 DEF ParseNext
    <2>2. ParseBody(toks, f, pos, depth) = IF depth = 0 THEN Failed ELSE f[pos + 1][depth - 1]
      BY <1>1, <1>3 DEF ParseBody
    <2>3. ParseStep(toks, pos, r, depth) = IF depth = 0 THEN Failed ELSE r[depth - 1]
      BY <1>3 DEF ParseStep
    <2> QED BY <2>1, <2>2, <2>3
  <1>4. CASE toks[pos][1] \in {"LB", "ERR"}
    <2>1. ParseBody(toks, f, pos, depth) = Failed
      BY <1>1, <1>4 DEF ParseBody
    <2>2. ParseStep(toks, pos, r, depth) = Failed
      BY <1>4 DEF ParseStep
    <2> QED BY <2>1, <2>2
  <1>5. CASE toks[pos][1] = "VAL"
    <2> DEFINE end == ValuesEnd(toks, pos)
               node == ParsedNode(toks, pos, depth)
               rest(b) == IF b THEN f[end + 1][depth + 1] ELSE f[end][depth]
               Result(b, x) == IF \/ toks[pos][2][1] # "text" \/ (b /\ depth >= MaxDepth) \/ ~x.ok
                               THEN Failed
                               ELSE [ok |-> TRUE, nodes |-> <<node>> \o x.nodes]
    <2>1. ParseBody(toks, f, pos, depth) = Result(HasBlock(toks, pos), rest(HasBlock(toks, pos)))
      BY <1>1, <1>5 DEF ParseBody, HasBlock, ParsedNode
    <2>2. ParseStep(toks, pos, r, depth)
            = Result(HasBlock(toks, pos), IF HasBlock(toks, pos) THEN r[depth + 1] ELSE r[depth])
      BY <1>5 DEF ParseStep
    <2>3. r = f[IF HasBlock(toks, pos) THEN end + 1 ELSE end]
      BY <1>5 DEF ParseNext
    <2>4. (IF HasBlock(toks, pos) THEN r[depth + 1] ELSE r[depth]) = rest(HasBlock(toks, pos))
      BY <2>3
    <2> HIDE DEF Result, rest, r
    <2> QED BY <2>1, <2>2, <2>4 DEF r
  <1> QED BY <1>2, <1>3, <1>4, <1>5, TokenIs

\* ... which is really later.
LEMMA ParseNextIs ==
    ASSUME NEW toks \in Seq(AnyToken), NEW pos \in 1 .. Len(toks)
    PROVE  ParseNext(toks, pos) \in pos + 1 .. Len(toks) + 1
  <1> DEFINE n == Len(toks)
             end == ValuesEnd(toks, pos)
  <1>1. n \in Nat /\ pos \in 1 .. n + 1 /\ pos \in 1 .. n
    OBVIOUS
  <1>2. end \in pos .. n + 1 /\ (end <= n => toks[end][1] # "VAL")
    BY <1>1, ValuesEndIs
  <1>3. CASE toks[pos][1] # "VAL"
    BY <1>1, <1>3 DEF ParseNext
  <1>4. CASE toks[pos][1] = "VAL"
    <2>1. end # pos
      BY <1>1, <1>2, <1>4
    <2>2. ParseNext(toks, pos) = IF end <= n /\ toks[end][1] = "LB" THEN end + 1 ELSE end
      BY <1>4 DEF ParseNext, HasBlock
    <2> HIDE DEF end, n
    <2>3. CASE end <= n /\ toks[end][1] = "LB"
      BY <1>1, <1>2, <2>1, <2>2, <2>3 DEF n
    <2>4. CASE ~(end <= n /\ toks[end][1] = "LB")
      BY <1>1, <1>2, <2>1, <2>2, <2>4 DEF n
    <2> QED BY <2>3, <2>4
  <1> QED BY <1>3, <1>4

ParsedNodes(toks) ==
    {ParsedNode(toks, pos, depth) : pos \in 1 .. Len(toks), depth \in 0 .. MaxDepth}

Outcome(toks) == [ok : BOOLEAN, nodes : Seq(ParsedNodes(toks))]

\* What is parsed is a sequence of nodes, or failed.
LEMMA ParseStepType ==
    ASSUME NEW toks \in Seq(AnyToken), NEW pos \in 1 .. Len(toks),
           NEW r \in [0 .. MaxDepth -> Outcome(toks)], NEW depth \in 0 .. MaxDepth
    PROVE  ParseStep(toks, pos, r, depth) \in Outcome(toks)
  <1>1. Failed \in Outcome(toks)
    BY DEF Failed, Outcome
  <1>2. MaxDepth \in Nat \ {0}
    BY KdlAssumption
  <1>3. CASE toks[pos][1] = "NL"
    BY <1>3 DEF ParseStep
  <1>4. CASE toks[pos][1] = "RB"
    <2>1. ParseStep(toks, pos, r, depth) = IF depth = 0 THEN Failed ELSE r[depth - 1]
      BY <1>4 DEF ParseStep
    <2>2. depth # 0 => depth - 1 \in 0 .. MaxDepth
      BY <1>2
    <2>3. depth # 0 => r[depth - 1] \in Outcome(toks)
      BY <2>2
    <2> QED BY <1>1, <2>1, <2>3
  <1>5. CASE toks[pos][1] \in {"LB", "ERR"}
    BY <1>1, <1>5 DEF ParseStep
  <1>6. CASE toks[pos][1] = "VAL"
    <2> DEFINE block == HasBlock(toks, pos)
               rest == IF block THEN r[depth + 1] ELSE r[depth]
               node == ParsedNode(toks, pos, depth)
               step == ParseStep(toks, pos, r, depth)
    <2>1. step = IF toks[pos][2][1] # "text" \/ (block /\ depth >= MaxDepth) \/ ~rest.ok
                 THEN Failed
                 ELSE [ok |-> TRUE, nodes |-> <<node>> \o rest.nodes]
      BY <1>6 DEF ParseStep
    <2>2. node \in ParsedNodes(toks)
      BY DEF ParsedNodes
    <2>3. CASE block /\ depth >= MaxDepth
      BY <1>1, <2>1, <2>3
    <2>4. CASE ~(block /\ depth >= MaxDepth)
      <3>1. block => depth + 1 \in 0 .. MaxDepth
        BY <1>2, <2>4
      <3>2. rest \in Outcome(toks)
        BY <3>1
      <3>3. rest.nodes \in Seq(ParsedNodes(toks))
        BY <3>2 DEF Outcome
      <3> HIDE DEF rest, node, block, step
      <3>4. <<node>> \in Seq(ParsedNodes(toks))
        BY <2>2, Singleton
      <3>5. <<node>> \o rest.nodes \in Seq(ParsedNodes(toks))
        BY <3>3, <3>4, ConcatProperties
      <3>6. [ok |-> TRUE, nodes |-> <<node>> \o rest.nodes] \in Outcome(toks)
        BY <3>5 DEF Outcome
      <3>7. step \in Outcome(toks)
        BY <1>1, <2>1, <3>6
      <3> QED BY <3>7 DEF step
    <2> QED BY <2>3, <2>4
  <1> QED BY <1>3, <1>4, <1>5, <1>6, TokenIs

\* The parser goes node by node, at any token and depth.
LEMMA ParseNodesIs ==
    ASSUME NEW toks \in Seq(AnyToken)
    PROVE  /\ \A depth \in 0 .. MaxDepth :
                 ParseNodes(toks)[Len(toks) + 1][depth] = ParsedEnd(depth)
           /\ \A pos \in 1 .. Len(toks), depth \in 0 .. MaxDepth :
                 ParseNodes(toks)[pos][depth]
                   = ParseStep(toks, pos, ParseNodes(toks)[ParseNext(toks, pos)], depth)
  <1> DEFINE n == Len(toks)
             D == 0 .. MaxDepth
             V == [D -> Outcome(toks)]
             parse == CHOOSE f : Parses(f, toks)
             base == [depth \in D |-> ParsedEnd(depth)]
             g == [pos \in 1 .. n |-> [r \in V |-> [depth \in D |-> ParseStep(toks, pos, r, depth)]]]
             next == [pos \in 1 .. n |-> ParseNext(toks, pos)]
  <1>1. ParseNodes(toks) = parse
    BY DEF ParseNodes, Parses, ParseBody
  <1>2. n \in Nat
    OBVIOUS
  <1>3. base \in V
    BY DEF ParsedEnd, Outcome
  <1>4. /\ g \in [1 .. n -> [V -> V]]
        /\ \A pos \in 1 .. n : \A r \in V : \A depth \in D :
              g[pos][r][depth] = ParseStep(toks, pos, r, depth)
    <2>1. \A pos \in 1 .. n : \A r \in V :
             [depth \in D |-> ParseStep(toks, pos, r, depth)] \in V
      BY ParseStepType
    <2> HIDE DEF V
    <2> QED BY <2>1
  <1>5. next \in [1 .. n -> 1 .. n + 1] /\ \A i \in 1 .. n : next[i] = ParseNext(toks, i) /\ next[i] > i
    <2>1. \A i \in 1 .. n : ParseNext(toks, i) \in 1 .. n + 1 /\ ParseNext(toks, i) > i
      BY <1>2, ParseNextIs
    <2> QED BY <2>1
  <1> HIDE DEF n, V, g, next, base
  <1>6. PICK f : RecursDown(f, n, V, base, g, next)
    BY <1>2, <1>3, <1>4, <1>5, RecursionDown
  <1>7. /\ f \in [1 .. n + 1 -> V] /\ f[n + 1] = base
        /\ \A i \in 1 .. n : f[i] = g[i][f[next[i]]]
    BY <1>6 DEF RecursDown
  <1>8. Parses(f, toks)
    <2>1. ASSUME NEW pos \in 1 .. n + 1, NEW depth \in D
          PROVE  f[pos][depth] = ParseBody(toks, f, pos, depth)
      <3>1. CASE pos = n + 1
        <4>1. f[pos][depth] = ParsedEnd(depth)
          BY <1>7, <3>1 DEF base
        <4>2. pos > Len(toks)
          BY <1>2, <3>1 DEF n
        <4> QED BY <4>1, <4>2 DEF ParseBody, ParsedEnd
      <3>2. CASE pos # n + 1
        <4>1. pos \in 1 .. n
          BY <1>2, <3>2
        <4>2. next[pos] = ParseNext(toks, pos) /\ next[pos] \in 1 .. n + 1
          BY <1>5, <4>1
        <4>3. f[next[pos]] \in V
          BY <1>7, <4>2
        <4>4. f[pos][depth] = ParseStep(toks, pos, f[next[pos]], depth)
          BY <1>4, <1>7, <4>1, <4>3
        <4>5. ParseBody(toks, f, pos, depth) = ParseStep(toks, pos, f[ParseNext(toks, pos)], depth)
          BY <4>1, ParseBodyIs DEF n
        <4> QED BY <4>2, <4>4, <4>5
      <3> QED BY <3>1, <3>2
    <2>2. \A pos \in 1 .. n + 1 : f[pos] = [depth \in D |-> ParseBody(toks, f, pos, depth)]
      <3> TAKE pos \in 1 .. n + 1
      <3>1. f[pos] = [depth \in D |-> f[pos][depth]]
        BY <1>7 DEF V
      <3>2. \A depth \in D : f[pos][depth] = ParseBody(toks, f, pos, depth)
        BY <2>1
      <3> QED BY <3>1, <3>2
    <2>3. f = [pos \in 1 .. n + 1 |-> f[pos]]
      BY <1>7
    <2>4. f = [pos \in 1 .. n + 1 |-> [depth \in D |-> ParseBody(toks, f, pos, depth)]]
      BY <2>2, <2>3
    <2> QED BY <2>4 DEF Parses, n
  <1>9. Parses(parse, toks)
    BY <1>8
  <1> HIDE DEF parse
  <1>10. \A pos \in 1 .. n + 1, depth \in D : parse[pos][depth] = ParseBody(toks, parse, pos, depth)
    <2> DEFINE body(pos, depth) == ParseBody(toks, parse, pos, depth)
    <2>1. parse = [pos \in 1 .. n + 1 |-> [depth \in D |-> body(pos, depth)]]
      BY <1>9 DEF Parses, n
    <2> HIDE DEF body
    <2>2. \A pos \in 1 .. n + 1, depth \in D : parse[pos][depth] = body(pos, depth)
      BY <2>1
    <2> QED BY <2>2 DEF body
  <1>11. \A depth \in D : parse[n + 1][depth] = ParsedEnd(depth)
    <2>1. n + 1 \in 1 .. n + 1 /\ n + 1 > Len(toks)
      BY <1>2 DEF n
    <2> QED BY <1>10, <2>1 DEF ParseBody, ParsedEnd
  <1>12. \A pos \in 1 .. n, depth \in D :
            parse[pos][depth] = ParseStep(toks, pos, parse[ParseNext(toks, pos)], depth)
    <2>1. \A pos \in 1 .. n : pos \in 1 .. n + 1
      BY <1>2
    <2>2. \A pos \in 1 .. n, depth \in D :
            ParseBody(toks, parse, pos, depth) = ParseStep(toks, pos, parse[ParseNext(toks, pos)], depth)
      BY ParseBodyIs DEF n
    <2> QED BY <1>10, <2>1, <2>2
  <1> QED BY <1>1, <1>11, <1>12 DEF n

\* Line ends are passed over ...
LEMMA LineEndParses ==
    ASSUME NEW toks \in Seq(AnyToken), NEW pos \in 1 .. Len(toks), toks[pos] = <<"NL">>,
           NEW depth \in 0 .. MaxDepth
    PROVE  ParseNodes(toks)[pos][depth] = ParseNodes(toks)[pos + 1][depth]
  <1>1. toks[pos][1] = "NL"
    OBVIOUS
  <1>2. ParseNext(toks, pos) = pos + 1
    BY <1>1 DEF ParseNext
  <1>3. ParseNodes(toks)[pos][depth]
          = ParseStep(toks, pos, ParseNodes(toks)[ParseNext(toks, pos)], depth)
    BY ParseNodesIs
  <1> QED BY <1>1, <1>2, <1>3 DEF ParseStep

\* ... and a closing brace leaves a block.
LEMMA ClosedParses ==
    ASSUME NEW toks \in Seq(AnyToken), NEW pos \in 1 .. Len(toks), toks[pos] = <<"RB">>,
           NEW depth \in 1 .. MaxDepth
    PROVE  ParseNodes(toks)[pos][depth] = ParseNodes(toks)[pos + 1][depth - 1]
  <1>1. toks[pos][1] = "RB" /\ depth # 0 /\ depth \in 0 .. MaxDepth
    BY KdlAssumption
  <1>2. ParseNext(toks, pos) = pos + 1
    BY <1>1 DEF ParseNext
  <1>3. ParseNodes(toks)[pos][depth]
          = ParseStep(toks, pos, ParseNodes(toks)[ParseNext(toks, pos)], depth)
    BY <1>1, ParseNodesIs
  <1> QED BY <1>1, <1>2, <1>3 DEF ParseStep

\* The tokens that end m blocks.
Ends(m) == FlattenSeq([j \in 1 .. m |-> EndToken])

\* The ends of so many blocks.
LEMMA EndsAre ==
    /\ Ends(0) = <<>>
    /\ \A m \in Nat : Ends(m) \in Seq(AnyToken) /\ Ends(m + 1) = Ends(m) \o EndToken
    /\ EndToken \in Seq(AnyToken)
  <1> DEFINE ws(m) == [j \in 1 .. m |-> EndToken]
  <1>1. EndToken \in Seq(AnyToken)
    BY TokenTypes, ConcatProperties DEF EndToken
  <1>2. Ends(0) = <<>>
    <2>1. ws(0) = <<>>
      OBVIOUS
    <2> QED BY <2>1, FlattenNothing DEF Ends
  <1>3. ASSUME NEW m \in Nat
        PROVE  ws(m) \in Seq(Seq(AnyToken)) /\ Len(ws(m)) = m /\ \A j \in 1 .. m : ws(m)[j] = EndToken
    <2>1. ws(m) \in [1 .. m -> Seq(AnyToken)] /\ \A j \in 1 .. m : ws(m)[j] = EndToken
      BY <1>1
    <2> HIDE DEF ws
    <2> QED BY <2>1, FunctionIsSeq
  <1>4. ASSUME NEW m \in Nat PROVE Ends(m) \in Seq(AnyToken) /\ Ends(m + 1) = Ends(m) \o EndToken
    <2> DEFINE a == ws(m)
               b == ws(m + 1)
    <2>1. /\ a \in Seq(Seq(AnyToken)) /\ Len(a) = m /\ \A j \in 1 .. m : a[j] = EndToken
      BY <1>3
    <2>2. /\ b \in Seq(Seq(AnyToken)) /\ Len(b) = m + 1 /\ \A j \in 1 .. m + 1 : b[j] = EndToken
      BY <1>3
    <2>3. Ends(m) = FlattenSeq(a) /\ Ends(m + 1) = FlattenSeq(b)
      BY DEF Ends
    <2> HIDE DEF ws, a, b
    <2>4. Len(b) = Len(a) + 1 /\ \A j \in 1 .. Len(a) : b[j] = a[j]
      <3>1. Len(b) = Len(a) + 1
        BY <2>1, <2>2
      <3>2. ASSUME NEW j \in 1 .. m PROVE b[j] = a[j]
        <4>1. j \in 1 .. m + 1
          OBVIOUS
        <4> QED BY <2>1, <2>2, <4>1
      <3> QED BY <2>1, <3>1, <3>2
    <2>5. b = Append(a, b[Len(b)])
      BY <2>1, <2>2, <2>4, FrontAndOne
    <2>6. b[Len(b)] = EndToken
      BY <2>2
    <2>7. FlattenSeq(Append(a, EndToken)) = FlattenSeq(a) \o EndToken
      BY <1>1, <2>1, FlattenAppend
    <2>8. FlattenSeq(a) \in Seq(AnyToken)
      BY <2>1, FlattenType
    <2> QED BY <2>3, <2>5, <2>6, <2>7, <2>8
  <1> QED BY <1>1, <1>2, <1>4

\* One block ends.
LEMMA EndParses ==
    ASSUME NEW toks \in Seq(AnyToken), NEW pos \in Nat, At(toks, pos, EndToken),
           NEW depth \in 1 .. MaxDepth
    PROVE  /\ ParseNodes(toks)[pos][depth] = ParseNodes(toks)[pos + 2][depth - 1]
           /\ pos \in 1 .. Len(toks) /\ toks[pos] = <<"NL">>
  <1>1. Len(EndOfLine) = 1 /\ Len(toks) \in Nat
    BY DEF EndOfLine
  <1>2. EndOfLine \in Seq(AnyToken) /\ Closed \in Seq(AnyToken)
    BY TokenTypes
  <1>3. At(toks, pos, EndOfLine) /\ At(toks, pos + Len(EndOfLine), Closed)
    BY <1>2, AtBoth DEF EndToken
  <1>4. At(toks, pos + 1, Closed)
    BY <1>1, <1>3
  <1>5. pos \in 1 .. Len(toks) /\ toks[pos] = <<"NL">>
    BY <1>1, <1>3, AtOne DEF EndOfLine
  <1>6. pos + 1 \in 1 .. Len(toks) /\ toks[pos + 1] = <<"RB">>
    BY <1>1, <1>4, AtOne DEF Closed
  <1>7. depth \in 0 .. MaxDepth /\ (pos + 1) + 1 = pos + 2
    BY KdlAssumption
  <1>8. ParseNodes(toks)[pos][depth] = ParseNodes(toks)[pos + 1][depth]
    BY <1>5, <1>7, LineEndParses
  <1>9. ParseNodes(toks)[pos + 1][depth] = ParseNodes(toks)[(pos + 1) + 1][depth - 1]
    BY <1>6, ClosedParses
  <1> QED BY <1>5, <1>7, <1>8, <1>9

\* So many closing braces leave so many blocks.
LEMMA EndsParse ==
    ASSUME NEW toks \in Seq(AnyToken), NEW pos \in Nat, NEW depth \in 0 .. MaxDepth,
           NEW m \in 0 .. depth, At(toks, pos, Ends(m))
    PROVE  /\ ParseNodes(toks)[pos][depth] = ParseNodes(toks)[pos + Len(Ends(m))][depth - m]
           /\ m # 0 => pos \in 1 .. Len(toks) /\ toks[pos] = <<"NL">>
  <1> DEFINE T == {i \in 0 .. m : At(toks, pos, Ends(i)) =>
                      /\ ParseNodes(toks)[pos][depth] = ParseNodes(toks)[pos + Len(Ends(i))][depth - i]
                      /\ i # 0 => pos \in 1 .. Len(toks) /\ toks[pos] = <<"NL">>}
  <1>1. m \in Nat /\ depth \in Nat /\ m <= depth /\ depth <= MaxDepth /\ MaxDepth \in Nat
    BY KdlAssumption
  <1>2. 0 \in T
    <2>1. Len(Ends(0)) = 0
      BY EndsAre
    <2>2. pos + 0 = pos /\ depth - 0 = depth /\ 0 \in 0 .. m
      BY <1>1
    <2> QED BY <2>1, <2>2
  <1>3. ASSUME NEW i \in 1 .. m, i - 1 \in T PROVE i \in T
    <2> DEFINE before == Ends(i - 1)
               j == pos + Len(before)
    <2>1. SUFFICES ASSUME At(toks, pos, Ends(i))
                   PROVE  /\ ParseNodes(toks)[pos][depth] = ParseNodes(toks)[pos + Len(Ends(i))][depth - i]
                          /\ pos \in 1 .. Len(toks) /\ toks[pos] = <<"NL">>
      BY <1>1
    <2>2. i - 1 \in Nat /\ (i - 1) + 1 = i /\ i \in Nat
      BY <1>1
    <2>3. before \in Seq(AnyToken) /\ Ends(i) = before \o EndToken /\ EndToken \in Seq(AnyToken)
      BY <2>2, EndsAre
    <2>4. At(toks, pos, before) /\ At(toks, j, EndToken)
      BY <2>1, <2>3, AtBoth
    <2>5. Len(Ends(i)) = Len(before) + 2
      <3>1. Len(EndOfLine \o Closed) = 2
        BY DEF EndOfLine, Closed
      <3>2. Len(before \o EndToken) = Len(before) + Len(EndToken)
        BY <2>3, ConcatProperties
      <3> QED BY <2>3, <3>1, <3>2 DEF EndToken
    <2>6. /\ ParseNodes(toks)[pos][depth] = ParseNodes(toks)[j][depth - (i - 1)]
          /\ i - 1 # 0 => pos \in 1 .. Len(toks) /\ toks[pos] = <<"NL">>
      BY <1>3, <2>4
    <2>7. depth - (i - 1) \in 1 .. MaxDepth /\ j \in Nat /\ Len(before) \in Nat
      BY <1>1, <2>2, <2>3
    <2> HIDE DEF j
    <2>8. /\ ParseNodes(toks)[j][depth - (i - 1)] = ParseNodes(toks)[j + 2][(depth - (i - 1)) - 1]
          /\ j \in 1 .. Len(toks) /\ toks[j] = <<"NL">>
      BY <2>4, <2>7, EndParses
    <2>9. j + 2 = pos + Len(Ends(i)) /\ (depth - (i - 1)) - 1 = depth - i
      BY <1>1, <2>2, <2>5, <2>7 DEF j
    <2>10. i - 1 = 0 => j = pos
      <3>1. Ends(0) = <<>> /\ Len(<<>>) = 0
        BY EndsAre
      <3> QED BY <3>1 DEF j
    <2> QED BY <2>6, <2>8, <2>9, <2>10
  <1>4. m \in T
    <2> HIDE DEF T
    <2>1. HandedUp(T, m)
      BY <1>2, <1>3 DEF HandedUp
    <2>2. m \in 0 .. m
      BY <1>1
    <2> QED BY <1>1, <2>1, <2>2, Upwards
  <1> QED BY <1>4

HeadTokens(name, args) == ValueToken(<<"text", name>>) \o FlattenSeq(ArgumentTokens(args))

\* Behind a node is the end of the tokens, the end of the line, or its block.
NothingMore(toks, end) == end <= Len(toks) => toks[end][1] # "VAL"

\* The tokens of a name and its arguments.
LEMMA HeadIs ==
    ASSUME NEW name \in AnyString, NEW args \in Seq(AnyValue)
    PROVE  /\ HeadTokens(name, args) \in Seq(AnyToken)
           /\ Len(HeadTokens(name, args)) = Len(args) + 1
           /\ HeadTokens(name, args)[1] = <<"VAL", <<"text", name>>>>
           /\ \A i \in 1 .. Len(args) : HeadTokens(name, args)[i + 1] = <<"VAL", args[i]>>
  <1> DEFINE first == ValueToken(<<"text", name>>)
             values == [i \in DOMAIN args |-> <<"VAL", args[i]>>]
             n == Len(args)
             all == first \o values
  <1>1. first \in Seq(AnyToken)
    <2>1. <<"text", name>> \in AnyValue
      BY DEF AnyValue
    <2> QED BY <2>1, ValueReads
  <1>2. DOMAIN args = 1 .. n /\ n \in Nat /\ \A i \in 1 .. n : args[i] \in AnyValue
    OBVIOUS
  <1>3. \A i \in 1 .. n : <<"VAL", args[i]>> \in AnyToken
    <2>1. \A v \in AnyValue : <<"VAL", v>> \in AnyToken
      <3> TAKE v \in AnyValue
      <3>1. ValueToken(v) \in Seq(AnyToken)
        BY ValueReads
      <3>2. 1 \in 1 .. Len(ValueToken(v)) /\ ValueToken(v)[1] = <<"VAL", v>>
        BY DEF ValueToken
      <3>3. \A i \in 1 .. Len(ValueToken(v)) : ValueToken(v)[i] \in AnyToken
        BY <3>1
      <3>4. ValueToken(v)[1] \in AnyToken
        BY <3>2, <3>3
      <3> QED BY <3>2, <3>4
    <2> QED BY <1>2, <2>1
  <1>4. values \in [1 .. n -> AnyToken] /\ \A i \in 1 .. n : values[i] = <<"VAL", args[i]>>
    BY <1>2, <1>3
  <1>5. values \in Seq(AnyToken) /\ Len(values) = n /\ DOMAIN values = 1 .. n
    BY <1>2, <1>4, FunctionIsSeq
  <1>6. ArgumentTokens(args) = [i \in DOMAIN values |-> <<values[i]>>]
    BY <1>2, <1>4, <1>5 DEF ArgumentTokens, ValueToken
  <1> HIDE DEF values
  <1>7. FlattenSeq(ArgumentTokens(args)) = values
    BY <1>5, <1>6, FlatOnes
  <1>8. Len(first) = 1 /\ first[1] = <<"VAL", <<"text", name>>>>
    BY DEF ValueToken
  <1> HIDE DEF first
  <1>9. /\ all \in Seq(AnyToken) /\ Len(all) = Len(first) + Len(values)
        /\ \A i \in 1 .. Len(first) + Len(values) :
              all[i] = IF i <= Len(first) THEN first[i] ELSE values[i - Len(first)]
    BY <1>1, <1>5, ConcatProperties
  <1>10. HeadTokens(name, args) = all
    BY <1>7 DEF HeadTokens, first
  <1> HIDE DEF all, n
  <1>11. Len(all) = n + 1 /\ \A i \in 1 .. n + 1 : all[i] = IF i <= 1 THEN first[i] ELSE values[i - 1]
    BY <1>2, <1>5, <1>8, <1>9
  <1>12. all[1] = <<"VAL", <<"text", name>>>>
    BY <1>2, <1>8, <1>11
  <1>13. \A i \in 1 .. n : all[i + 1] = <<"VAL", args[i]>>
    <2> TAKE i \in 1 .. n
    <2>1. i + 1 \in 1 .. n + 1 /\ ~(i + 1 <= 1) /\ (i + 1) - 1 = i
      BY <1>2
    <2> QED BY <1>4, <1>11, <2>1
  <1> QED BY <1>9, <1>10, <1>11, <1>12, <1>13 DEF n

HeadAt(toks, pos, name, args, end, depth) ==
    /\ pos \in 1 .. Len(toks) /\ toks[pos] = <<"VAL", <<"text", name>>>>
    /\ ValuesEnd(toks, pos) = end
    /\ ParsedNode(toks, pos, depth) = [depth |-> depth, name |-> name, args |-> args]

\* They are parsed as the node that they were written from.
LEMMA HeadParses ==
    ASSUME NEW toks \in Seq(AnyToken), NEW pos \in Nat, NEW name \in AnyString,
           NEW args \in Seq(AnyValue), At(toks, pos, HeadTokens(name, args)),
           NEW end, end = pos + Len(HeadTokens(name, args)), NothingMore(toks, end), NEW depth
    PROVE  HeadAt(toks, pos, name, args, end, depth)
  <1> DEFINE head == HeadTokens(name, args)
             n == Len(toks)
             a == Len(args)
  <1>1. /\ head \in Seq(AnyToken) /\ Len(head) = a + 1 /\ head[1] = <<"VAL", <<"text", name>>>>
        /\ \A i \in 1 .. a : head[i + 1] = <<"VAL", args[i]>>
    BY HeadIs
  <1>2. n \in Nat /\ a \in Nat /\ DOMAIN args = 1 .. a
    OBVIOUS
  <1>3. /\ pos \in Nat \ {0} /\ pos + Len(head) <= n + 1
        /\ \A k \in 1 .. Len(head) : toks[pos + k - 1] = head[k]
    BY DEF At
  <1>4. end = pos + Len(head) /\ (end <= n => toks[end][1] # "VAL")
    BY DEF NothingMore
  <1> HIDE DEF head, n, a
  <1>5. /\ end = pos + a + 1 /\ pos + a + 1 <= n + 1
        /\ \A k \in 1 .. a + 1 : toks[pos + k - 1] = head[k]
    <2>1. Len(head) = a + 1
      BY <1>1
    <2>2. pos + Len(head) = pos + a + 1
      BY <1>2, <1>3, <2>1
    <2> QED BY <1>3, <1>4, <2>1, <2>2
  <1>6. pos \in 1 .. n /\ toks[pos] = <<"VAL", <<"text", name>>>>
    <2>1. 1 \in 1 .. a + 1 /\ pos + 1 - 1 = pos /\ pos \in 1 .. n
      BY <1>2, <1>3, <1>5
    <2>2. toks[pos + 1 - 1] = head[1]
      BY <1>5, <2>1
    <2> QED BY <1>1, <2>1, <2>2
  <1>7. \A i \in 1 .. a : toks[pos + i] = <<"VAL", args[i]>>
    <2> TAKE i \in 1 .. a
    <2>1. i + 1 \in 1 .. a + 1 /\ pos + (i + 1) - 1 = pos + i
      BY <1>2, <1>3
    <2>2. toks[pos + (i + 1) - 1] = head[i + 1]
      BY <1>5, <2>1
    <2> QED BY <1>1, <2>1, <2>2
  <1>8. ValuesEnd(toks, pos) = end
    <2>1. ASSUME NEW q \in pos .. end - 1 PROVE toks[q][1] = "VAL"
      <3>1. CASE q = pos
        BY <1>6, <3>1
      <3>2. CASE q # pos
        <4>1. q - pos \in 1 .. a /\ pos + (q - pos) = q
          BY <1>2, <1>3, <1>5, <3>2
        <4>2. toks[pos + (q - pos)] = <<"VAL", args[q - pos]>>
          BY <1>7, <4>1
        <4> QED BY <4>1, <4>2
      <3> QED BY <3>1, <3>2
    <2>2. pos \in 1 .. n + 1 /\ end \in pos .. n + 1
      BY <1>2, <1>3, <1>5
    <2> QED BY <1>2, <1>4, <2>1, <2>2, ValuesEndAt DEF n
  <1>9. ParsedNode(toks, pos, depth) = [depth |-> depth, name |-> name, args |-> args]
    <2>1. end - pos - 1 = a
      BY <1>2, <1>3, <1>5
    <2>2. toks[pos][2][2] = name
      BY <1>6
    <2>3. \A i \in 1 .. a : toks[pos + i][2] = args[i]
      BY <1>7
    <2>4. [i \in 1 .. a |-> toks[pos + i][2]] = args
      <3>1. args = [i \in 1 .. a |-> args[i]]
        BY <1>2
      <3> QED BY <2>3, <3>1
    <2> QED BY <1>8, <2>1, <2>2, <2>4 DEF ParsedNode
  <1> QED BY <1>6, <1>8, <1>9 DEF n, HeadAt

\* The tokens from node k on.
Rest(nodes, k) == FlattenSeq(SubSeq(TokensOf(nodes), k, Len(nodes)))

MarkTokens(k) == IF k = 1 THEN NoTokens ELSE EndOfLine

BraceTokens(nodes, k) == IF Opens(nodes, k) THEN Opening ELSE NoTokens

\* The tokens from a node on are its own and those from the next node on.
LEMMA RestIs ==
    ASSUME NEW nodes \in Seq(BareNode), NEW k \in 1 .. Len(nodes)
    PROVE  /\ Rest(nodes, k) = PieceTokens(nodes, k) \o Rest(nodes, k + 1)
           /\ Rest(nodes, k + 1) \in Seq(AnyToken) /\ PieceTokens(nodes, k) \in Seq(AnyToken)
  <1>1. /\ TokensOf(nodes) \in Seq(Seq(AnyToken)) /\ Len(TokensOf(nodes)) = Len(nodes)
        /\ TokensOf(nodes)[k] = PieceTokens(nodes, k)
    BY TokensOfType
  <1> DEFINE ws == TokensOf(nodes)
  <1>2. ws \in Seq(Seq(AnyToken)) /\ k \in 1 .. Len(ws)
    BY <1>1
  <1> HIDE DEF ws
  <1>3. /\ FlattenSeq(SubSeq(ws, k, Len(ws))) = ws[k] \o FlattenSeq(SubSeq(ws, k + 1, Len(ws)))
        /\ FlattenSeq(SubSeq(ws, k + 1, Len(ws))) \in Seq(AnyToken) /\ ws[k] \in Seq(AnyToken)
    BY <1>2, FlattenFrom
  <1> QED BY <1>1, <1>3 DEF ws, Rest

\* There are none behind the last node.
LEMMA RestAtEnd ==
    ASSUME NEW nodes \in Seq(BareNode), NEW k, k = Len(nodes) + 1
    PROVE  Rest(nodes, k) = <<>>
  <1>1. Len(nodes) \in Nat /\ k \in Int /\ Len(nodes) \in Int /\ Len(nodes) < k
    OBVIOUS
  <1>2. SubSeq(TokensOf(nodes), k, Len(nodes)) = <<>>
    BY <1>1, SubSeqEmpty
  <1> QED BY <1>2, FlattenNothing, Zenon DEF Rest

\* The tokens of a node are its line end, head and brace, and the ends of blocks behind it.
LEMMA PieceIs ==
    ASSUME NEW nodes \in Seq(BareNode), NEW k \in 1 .. Len(nodes)
    PROVE  /\ PieceTokens(nodes, k)
                = MarkTokens(k) \o (HeadTokens(nodes[k].name, nodes[k].args)
                                       \o (BraceTokens(nodes, k) \o Ends(Ended(nodes, k))))
           /\ MarkTokens(k) \in Seq(AnyToken) /\ BraceTokens(nodes, k) \in Seq(AnyToken)
           /\ HeadTokens(nodes[k].name, nodes[k].args) \in Seq(AnyToken)
           /\ Ends(Ended(nodes, k)) \in Seq(AnyToken)
  <1> DEFINE a == MarkTokens(k)
             b == HeadTokens(nodes[k].name, nodes[k].args)
             c == BraceTokens(nodes, k)
             d == Ends(Ended(nodes, k))
  <1>1. a \in Seq(AnyToken) /\ c \in Seq(AnyToken)
    BY TokenTypes DEF MarkTokens, BraceTokens
  <1>2. b \in Seq(AnyToken)
    BY BareNodeIs, HeadIs
  <1>3. d \in Seq(AnyToken)
    <2>1. Ended(nodes, k) \in Nat
      BY BareNodeIs DEF Ended, Opens
    <2> QED BY <2>1, EndsAre
  <1>4. PieceTokens(nodes, k) = (a \o (b \o c)) \o d
    BY DEF PieceTokens, LineTokens, ClosingTokens, Ends, MarkTokens, HeadTokens, BraceTokens
  <1> HIDE DEF a, b, c, d
  <1>5. b \o c \in Seq(AnyToken)
    BY <1>1, <1>2, ConcatProperties
  <1>6. (a \o (b \o c)) \o d = a \o ((b \o c) \o d)
    <2> DEFINE bc == b \o c
    <2>1. bc \in Seq(AnyToken)
      BY <1>5
    <2> HIDE DEF bc
    <2>2. (a \o bc) \o d = a \o (bc \o d)
      BY <1>1, <1>3, <2>1, TokensAssociative
    <2> QED BY <2>2 DEF bc
  <1>7. (b \o c) \o d = b \o (c \o d)
    BY <1>1, <1>2, <1>3, TokensAssociative
  <1>8. PieceTokens(nodes, k) = a \o (b \o (c \o d))
    BY <1>4, <1>6, <1>7
  <1> QED BY <1>1, <1>2, <1>3, <1>8 DEF a, b, c, d

\* Where the parts of a piece stand.
PartsAt(toks, nodes, k, pos, p1, p2, p3, p4) ==
    /\ At(toks, pos, MarkTokens(k)) /\ p1 = pos + Len(MarkTokens(k))
    /\ At(toks, p1, HeadTokens(nodes[k].name, nodes[k].args))
    /\ p2 = p1 + Len(HeadTokens(nodes[k].name, nodes[k].args))
    /\ At(toks, p2, BraceTokens(nodes, k)) /\ p3 = p2 + Len(BraceTokens(nodes, k))
    /\ At(toks, p3, Ends(Ended(nodes, k))) /\ p4 = p3 + Len(Ends(Ended(nodes, k)))
    /\ At(toks, p4, Rest(nodes, k + 1)) /\ p4 + Len(Rest(nodes, k + 1)) = Len(toks) + 1

FiveAt(t, i, a, b, c, d, e, i1, i2, i3, i4) ==
    /\ At(t, i, a) /\ i1 = i + Len(a) /\ At(t, i1, b) /\ i2 = i1 + Len(b)
    /\ At(t, i2, c) /\ i3 = i2 + Len(c) /\ At(t, i3, d) /\ i4 = i3 + Len(d)
    /\ At(t, i4, e)
    /\ i4 + Len(e) = i + Len((a \o (b \o (c \o d))) \o e)

\* Five parts in a row stand where they begin.
LEMMA AtFive ==
    ASSUME NEW S, NEW t \in Seq(S), NEW i \in Nat, NEW a \in Seq(S), NEW b \in Seq(S), NEW c \in Seq(S),
           NEW d \in Seq(S), NEW e \in Seq(S), At(t, i, (a \o (b \o (c \o d))) \o e)
    PROVE  \E i1, i2, i3, i4 \in Nat :
              FiveAt(t, i, a, b, c, d, e, i1, i2, i3, i4)
  <1> DEFINE cd == c \o d
             bcd == b \o cd
             abcd == a \o bcd
             i1 == i + Len(a)
             i2 == i1 + Len(b)
             i3 == i2 + Len(c)
             i4 == i3 + Len(d)
  <1>1. cd \in Seq(S) /\ Len(cd) = Len(c) + Len(d)
    BY ConcatProperties
  <1>2. bcd \in Seq(S) /\ Len(bcd) = Len(b) + Len(cd)
    <2> HIDE DEF cd
    <2> QED BY <1>1, ConcatProperties
  <1>3. abcd \in Seq(S) /\ Len(abcd) = Len(a) + Len(bcd)
    <2> HIDE DEF bcd
    <2> QED BY <1>2, ConcatProperties
  <1>4. Len(abcd \o e) = Len(abcd) + Len(e)
    <2> HIDE DEF abcd
    <2> QED BY <1>3, ConcatProperties
  <1>5. Len(a) \in Nat /\ Len(b) \in Nat /\ Len(c) \in Nat /\ Len(d) \in Nat /\ Len(e) \in Nat
    OBVIOUS
  <1>6. At(t, i, abcd) /\ At(t, i + Len(abcd), e)
    <2> HIDE DEF abcd
    <2> QED BY <1>3, AtBoth DEF abcd
  <1>7. At(t, i, a) /\ At(t, i1, bcd)
    <2> HIDE DEF bcd
    <2> QED BY <1>2, <1>6, AtBoth
  <1>8. At(t, i1, b) /\ At(t, i2, cd)
    <2> HIDE DEF cd, i1
    <2> QED BY <1>1, <1>7, AtBoth
  <1>9. At(t, i2, c) /\ At(t, i3, d)
    <2> HIDE DEF i2
    <2> QED BY <1>8, AtBoth
  <1> HIDE DEF cd, bcd
  <1>10. i + Len(abcd) = i4 /\ i4 + Len(e) = i + Len(abcd \o e)
    <2> HIDE DEF abcd
    <2> QED BY <1>1, <1>2, <1>3, <1>4, <1>5
  <1>11. i1 \in Nat /\ i2 \in Nat /\ i3 \in Nat /\ i4 \in Nat
    BY <1>5
  <1>12. At(t, i4, e)
    BY <1>6, <1>10
  <1>13. i1 = i + Len(a) /\ i2 = i1 + Len(b) /\ i3 = i2 + Len(c) /\ i4 = i3 + Len(d)
    OBVIOUS
  <1>14. At(t, i1, b) /\ At(t, i2, c) /\ At(t, i3, d)
    BY <1>8, <1>9
  <1> HIDE DEF i1, i2, i3, i4
  <1>15. i4 + Len(e) = i + Len((a \o (b \o (c \o d))) \o e)
    BY <1>10 DEF abcd, bcd, cd
  <1>16. FiveAt(t, i, a, b, c, d, e, i1, i2, i3, i4)
    BY <1>7, <1>12, <1>13, <1>14, <1>15 DEF FiveAt
  <1> QED BY <1>11, <1>16

\* Where the tokens from a node on stand, the parts of its own stand, and then the rest.
LEMMA PieceParts ==
    ASSUME NEW nodes \in Seq(BareNode), NEW k \in 1 .. Len(nodes), NEW toks \in Seq(AnyToken),
           NEW pos \in Nat, At(toks, pos, Rest(nodes, k)), pos + Len(Rest(nodes, k)) = Len(toks) + 1
    PROVE  \E p1, p2, p3, p4 \in Nat : PartsAt(toks, nodes, k, pos, p1, p2, p3, p4)
  <1> DEFINE a == MarkTokens(k)
             b == HeadTokens(nodes[k].name, nodes[k].args)
             c == BraceTokens(nodes, k)
             d == Ends(Ended(nodes, k))
             e == Rest(nodes, k + 1)
  <1>1. /\ a \in Seq(AnyToken) /\ b \in Seq(AnyToken) /\ c \in Seq(AnyToken) /\ d \in Seq(AnyToken)
        /\ PieceTokens(nodes, k) = a \o (b \o (c \o d))
    BY PieceIs
  <1>2. e \in Seq(AnyToken) /\ Rest(nodes, k) = PieceTokens(nodes, k) \o e
    BY RestIs
  <1>3. /\ At(toks, pos, (a \o (b \o (c \o d))) \o e)
        /\ pos + Len((a \o (b \o (c \o d))) \o e) = Len(toks) + 1
    BY <1>1, <1>2
  <1> HIDE DEF a, b, c, d, e
  <1>4. PICK p1 \in Nat, p2 \in Nat, p3 \in Nat, p4 \in Nat :
              FiveAt(toks, pos, a, b, c, d, e, p1, p2, p3, p4)
    BY <1>1, <1>2, <1>3, AtFive
  <1>5. p4 + Len(e) = Len(toks) + 1
    BY <1>3, <1>4 DEF FiveAt
  <1>6. PartsAt(toks, nodes, k, pos, p1, p2, p3, p4)
    BY <1>4, <1>5 DEF PartsAt, FiveAt, a, b, c, d, e
  <1> QED BY <1>6

\* How deep node k is, or the end.
Depth(nodes, k) == IF k = Len(nodes) + 1 THEN 0 ELSE nodes[k].depth

ParsesBack(nodes, k) ==
    \A toks \in Seq(AnyToken), pos \in Nat :
        At(toks, pos, Rest(nodes, k)) /\ pos + Len(Rest(nodes, k)) = Len(toks) + 1 =>
            ParseNodes(toks)[pos][Depth(nodes, k)]
              = [ok |-> TRUE, nodes |-> SubSeq(nodes, k, Len(nodes))]

\* Every node but the first begins a line.
LEMMA RestBegins ==
    ASSUME NEW nodes \in Seq(BareNode), NEW k \in 2 .. Len(nodes) + 1, NEW toks \in Seq(AnyToken),
           NEW pos \in Nat, At(toks, pos, Rest(nodes, k)), pos + Len(Rest(nodes, k)) = Len(toks) + 1
    PROVE  NothingMore(toks, pos) /\ (pos <= Len(toks) => toks[pos][1] # "LB")
  <1>1. CASE k = Len(nodes) + 1
    <2>1. Rest(nodes, k) = <<>> /\ Len(<<>>) = 0
      BY <1>1, RestAtEnd
    <2>2. pos + 0 = Len(toks) + 1
      BY <2>1
    <2>3. ~(pos <= Len(toks))
      BY <2>2
    <2> QED BY <2>3 DEF NothingMore
  <1>2. CASE k # Len(nodes) + 1
    <2>1. k \in 1 .. Len(nodes) /\ k # 1
      BY <1>2
    <2>2. PICK p1 \in Nat, p2 \in Nat, p3 \in Nat, p4 \in Nat : PartsAt(toks, nodes, k, pos, p1, p2, p3, p4)
      BY <2>1, PieceParts
    <2>3. At(toks, pos, EndOfLine)
      BY <2>1, <2>2 DEF PartsAt, MarkTokens
    <2>4. toks[pos] = <<"NL">>
      BY <2>3, AtOne DEF EndOfLine
    <2> QED BY <2>4 DEF NothingMore
  <1> QED BY <1>1, <1>2

\* A node opens one block, or ends some: the depth of the next one.
LEMMA DepthIs ==
    ASSUME NEW nodes \in Seq(BareNode), Nested(nodes), NEW k \in 1 .. Len(nodes)
    PROVE  /\ Depth(nodes, k) = nodes[k].depth /\ Depth(nodes, k) \in 0 .. MaxDepth
           /\ Depth(nodes, k + 1) = NextDepth(nodes, k) /\ Depth(nodes, k + 1) \in Nat
           /\ Opens(nodes, k) => /\ Depth(nodes, k + 1) = Depth(nodes, k) + 1
                                 /\ Depth(nodes, k) + 1 \in 0 .. MaxDepth
           /\ ~Opens(nodes, k) => /\ Ended(nodes, k) \in 0 .. Depth(nodes, k)
                                  /\ Depth(nodes, k) - Ended(nodes, k) = Depth(nodes, k + 1)
           /\ Opens(nodes, k) => Ended(nodes, k) = 0
  <1> DEFINE n == Len(nodes)
             d == Depth(nodes, k)
             e == Depth(nodes, k + 1)
  <1>1. n \in Nat /\ k \in 1 .. n /\ DOMAIN nodes = 1 .. n
    OBVIOUS
  <1>2. /\ nodes[k].depth \in 0 .. MaxDepth /\ NextDepth(nodes, k) \in Nat
        /\ \A j \in 1 .. n : nodes[j].depth \in 0 .. MaxDepth
    BY BareNodeIs
  <1>3. MaxDepth \in Nat
    BY KdlAssumption
  <1>4. d = nodes[k].depth
    BY <1>1 DEF Depth
  <1>5. e = NextDepth(nodes, k)
    <2>1. CASE k = n
      BY <2>1 DEF Depth, NextDepth
    <2>2. CASE k # n
      <3>1. k + 1 # n + 1
        <4> HIDE DEF n
        <4> QED BY <1>1, <2>2
      <3> QED BY <2>2, <3>1 DEF Depth, NextDepth
    <2> QED BY <2>1, <2>2
  <1>6. Opens(nodes, k) <=> e > d
    BY <1>4, <1>5 DEF Opens
  <1>7. Ended(nodes, k) = IF Opens(nodes, k) THEN 0 ELSE d - e
    BY <1>4, <1>5 DEF Ended
  <1>8. d \in 0 .. MaxDepth /\ e \in Nat
    BY <1>2, <1>4, <1>5
  <1>9. ASSUME Opens(nodes, k) PROVE e = d + 1 /\ d + 1 \in 0 .. MaxDepth
    <2>1. k # n
      <3> SUFFICES ASSUME k = n PROVE FALSE
        OBVIOUS
      <3>1. NextDepth(nodes, k) = 0
        BY DEF NextDepth
      <3> QED BY <1>5, <1>6, <1>8, <1>9, <3>1
    <2>2. k + 1 \in 1 .. n /\ k + 1 # 1 /\ (k + 1) - 1 = k
      <3> HIDE DEF n
      <3> QED BY <1>1, <2>1
    <2>3. nodes[k + 1].depth <= nodes[(k + 1) - 1].depth + 1
      BY <1>1, <2>2 DEF Nested
    <2>4. e = nodes[k + 1].depth
      BY <1>5, <2>1 DEF NextDepth
    <2>5. e \in 0 .. MaxDepth /\ e <= d + 1
      BY <1>2, <1>4, <2>2, <2>3, <2>4
    <2> HIDE DEF d, e
    <2> QED BY <1>3, <1>6, <1>8, <1>9, <2>5
  <1> HIDE DEF d, e
  <1>10. ~Opens(nodes, k) => Ended(nodes, k) \in 0 .. d /\ d - Ended(nodes, k) = e
    BY <1>6, <1>7, <1>8
  <1>11. Opens(nodes, k) => Ended(nodes, k) = 0
    BY <1>7
  <1> QED BY <1>4, <1>5, <1>8, <1>9, <1>10, <1>11 DEF d, e

\* A node and those behind it.
LEMMA NodeIs ==
    ASSUME NEW nodes \in Seq(BareNode), NEW k \in 1 .. Len(nodes)
    PROVE  /\ nodes[k] = [depth |-> nodes[k].depth, name |-> nodes[k].name, args |-> nodes[k].args]
           /\ <<nodes[k]>> \o SubSeq(nodes, k + 1, Len(nodes)) = SubSeq(nodes, k, Len(nodes))
  <1>1. nodes[k] \in BareNode
    OBVIOUS
  <1>2. nodes[k] = [depth |-> nodes[k].depth, name |-> nodes[k].name, args |-> nodes[k].args]
    BY <1>1 DEF BareNode
  <1>3. Len(nodes) \in k .. Len(nodes)
    OBVIOUS
  <1> QED BY <1>2, <1>3, SubSeqRecursiveFirst

\* When the nodes behind a node are parsed back, those from it on are.
LEMMA NodeParsesBack ==
    ASSUME NEW nodes \in Seq(BareNode), Nested(nodes), NEW k \in 1 .. Len(nodes),
           ParsesBack(nodes, k + 1)
    PROVE  ParsesBack(nodes, k)
  <1> DEFINE d == Depth(nodes, k)
             name == nodes[k].name
             args == nodes[k].args
             m == Ended(nodes, k)
             behind == SubSeq(nodes, k + 1, Len(nodes))
             whole == SubSeq(nodes, k, Len(nodes))
  <1> SUFFICES ASSUME NEW toks \in Seq(AnyToken), NEW pos \in Nat, At(toks, pos, Rest(nodes, k)),
                      pos + Len(Rest(nodes, k)) = Len(toks) + 1
               PROVE  ParseNodes(toks)[pos][d] = [ok |-> TRUE, nodes |-> whole]
    BY DEF ParsesBack
  <1>1. PICK p1 \in Nat, p2 \in Nat, p3 \in Nat, p4 \in Nat : PartsAt(toks, nodes, k, pos, p1, p2, p3, p4)
    BY PieceParts
  <1>2. /\ At(toks, pos, MarkTokens(k)) /\ p1 = pos + Len(MarkTokens(k))
        /\ At(toks, p1, HeadTokens(name, args)) /\ p2 = p1 + Len(HeadTokens(name, args))
        /\ At(toks, p2, BraceTokens(nodes, k)) /\ p3 = p2 + Len(BraceTokens(nodes, k))
        /\ At(toks, p3, Ends(m)) /\ p4 = p3 + Len(Ends(m))
        /\ At(toks, p4, Rest(nodes, k + 1)) /\ p4 + Len(Rest(nodes, k + 1)) = Len(toks) + 1
    BY <1>1 DEF PartsAt
  <1>3. name \in AnyString /\ args \in Seq(AnyValue) /\ d = nodes[k].depth /\ d \in 0 .. MaxDepth
    BY BareNodeIs, DepthIs
  <1>4. ParseNodes(toks)[p4][Depth(nodes, k + 1)] = [ok |-> TRUE, nodes |-> behind]
    BY <1>2 DEF ParsesBack
  <1>5. nodes[k] = [depth |-> d, name |-> name, args |-> args] /\ <<nodes[k]>> \o behind = whole
    BY <1>3, NodeIs
  <1>6. Len(toks) \in Nat
    OBVIOUS
  <1> HIDE DEF d, behind, whole
  <1>7. ParseNodes(toks)[pos][d] = ParseNodes(toks)[p1][d]
    <2>1. CASE k = 1
      <3>1. MarkTokens(k) = <<>> /\ Len(<<>>) = 0
        BY <2>1 DEF MarkTokens, NoTokens
      <3>2. p1 = pos
        BY <1>2, <3>1
      <3> QED BY <3>2
    <2>2. CASE k # 1
      <3>1. MarkTokens(k) = EndOfLine /\ Len(EndOfLine) = 1
        BY <2>2 DEF MarkTokens, EndOfLine
      <3>2. p1 = pos + 1 /\ At(toks, pos, EndOfLine)
        BY <1>2, <3>1
      <3>3. pos \in 1 .. Len(toks) /\ toks[pos] = <<"NL">>
        BY <1>6, <3>2, AtOne DEF EndOfLine
      <3> QED BY <1>3, <3>2, <3>3, LineEndParses
    <2> QED BY <2>1, <2>2
  <1>8. CASE Opens(nodes, k)
    <2>1. BraceTokens(nodes, k) = Opening /\ Len(Opening) = 1
      BY <1>8 DEF BraceTokens, Opening
    <2>2. p3 = p2 + 1 /\ At(toks, p2, Opening)
      BY <1>2, <2>1
    <2>3. p2 \in 1 .. Len(toks) /\ toks[p2] = <<"LB">>
      BY <1>6, <2>2, AtOne DEF Opening
    <2>4. p4 = p3
      <3>1. m = 0 /\ Ends(0) = <<>> /\ Len(<<>>) = 0
        BY <1>8, DepthIs, EndsAre
      <3> QED BY <1>2, <3>1
    <2>5. Depth(nodes, k + 1) = d + 1 /\ d + 1 \in 0 .. MaxDepth
      BY <1>8, DepthIs DEF d
    <2>6. NothingMore(toks, p2)
      BY <2>3 DEF NothingMore
    <2>7. /\ p1 \in 1 .. Len(toks) /\ toks[p1] = <<"VAL", <<"text", name>>>>
          /\ ValuesEnd(toks, p1) = p2
          /\ ParsedNode(toks, p1, d) = [depth |-> d, name |-> name, args |-> args]
      <3>1. HeadAt(toks, p1, name, args, p2, d)
        BY <1>2, <1>3, <2>6, HeadParses, Zenon
      <3> QED BY <3>1 DEF HeadAt
    <2>8. HasBlock(toks, p1)
      BY <2>3, <2>7 DEF HasBlock
    <2>9. ParseNext(toks, p1) = p2 + 1
      BY <2>7, <2>8 DEF ParseNext
    <2>10. ParseNodes(toks)[p2 + 1][d + 1] = [ok |-> TRUE, nodes |-> behind]
      BY <1>4, <2>2, <2>4, <2>5
    <2>11. ParseNodes(toks)[p1][d] = ParseStep(toks, p1, ParseNodes(toks)[p2 + 1], d)
      BY <1>3, <2>7, <2>9, ParseNodesIs
    <2> DEFINE r == ParseNodes(toks)[p2 + 1]
    <2>12. ~(d >= MaxDepth)
      BY <1>3, <2>5, KdlAssumption
    <2>13. r[d + 1].ok /\ r[d + 1].nodes = behind
      BY <2>10
    <2>14. toks[p1][1] = "VAL" /\ toks[p1][2][1] = "text"
      BY <2>7
    <2> HIDE DEF r
    <2>15. ParseStep(toks, p1, r, d) = [ok |-> TRUE, nodes |-> <<ParsedNode(toks, p1, d)>> \o behind]
      BY <2>8, <2>12, <2>13, <2>14 DEF ParseStep
    <2> QED BY <1>5, <1>7, <2>7, <2>11, <2>15 DEF r
  <1>9. CASE ~Opens(nodes, k)
    <2>1. BraceTokens(nodes, k) = <<>> /\ Len(<<>>) = 0
      BY <1>9 DEF BraceTokens, NoTokens
    <2>2. p3 = p2
      BY <1>2, <2>1
    <2>3. m \in 0 .. d /\ d - m = Depth(nodes, k + 1)
      BY <1>9, DepthIs DEF d
    <2>4. /\ ParseNodes(toks)[p2][d] = ParseNodes(toks)[p4][d - m]
          /\ m # 0 => p2 \in 1 .. Len(toks) /\ toks[p2] = <<"NL">>
      <3>1. At(toks, p2, Ends(m)) /\ p4 = p2 + Len(Ends(m))
        BY <1>2, <2>2
      <3> HIDE DEF m
      <3>2. /\ ParseNodes(toks)[p2][d] = ParseNodes(toks)[p2 + Len(Ends(m))][d - m]
            /\ m # 0 => p2 \in 1 .. Len(toks) /\ toks[p2] = <<"NL">>
        <4>1. m \in 0 .. d /\ d \in 0 .. MaxDepth /\ At(toks, p2, Ends(m))
          BY <1>3, <2>3, <3>1
        <4> QED BY <4>1, EndsParse, Zenon
      <3> QED BY <3>1, <3>2
    <2>5. m = 0 => p4 = p2
      <3>1. Ends(0) = <<>> /\ Len(<<>>) = 0
        BY EndsAre
      <3> QED BY <1>2, <2>2, <3>1
    <2>6. NothingMore(toks, p2) /\ (p2 <= Len(toks) => toks[p2][1] # "LB")
      <3>1. CASE m # 0
        BY <2>4, <3>1 DEF NothingMore
      <3>2. CASE m = 0
        <4>1. k + 1 \in 2 .. Len(nodes) + 1
          OBVIOUS
        <4>2. NothingMore(toks, p4) /\ (p4 <= Len(toks) => toks[p4][1] # "LB")
          BY <1>2, <4>1, RestBegins
        <4> QED BY <2>5, <3>2, <4>2
      <3> QED BY <3>1, <3>2
    <2>7. /\ p1 \in 1 .. Len(toks) /\ toks[p1] = <<"VAL", <<"text", name>>>>
          /\ ValuesEnd(toks, p1) = p2
          /\ ParsedNode(toks, p1, d) = [depth |-> d, name |-> name, args |-> args]
      <3>1. HeadAt(toks, p1, name, args, p2, d)
        BY <1>2, <1>3, <2>6, HeadParses, Zenon
      <3> QED BY <3>1 DEF HeadAt
    <2>8. ~HasBlock(toks, p1)
      BY <2>6, <2>7 DEF HasBlock
    <2>9. ParseNext(toks, p1) = p2
      BY <2>7, <2>8 DEF ParseNext
    <2>10. ParseNodes(toks)[p2][d] = [ok |-> TRUE, nodes |-> behind]
      BY <1>4, <2>3, <2>4
    <2>11. ParseNodes(toks)[p1][d] = ParseStep(toks, p1, ParseNodes(toks)[p2], d)
      BY <1>3, <2>7, <2>9, ParseNodesIs
    <2> DEFINE r == ParseNodes(toks)[p2]
    <2>12. r[d].ok /\ r[d].nodes = behind
      BY <2>10
    <2>13. toks[p1][1] = "VAL" /\ toks[p1][2][1] = "text"
      BY <2>7
    <2> HIDE DEF r
    <2>14. ParseStep(toks, p1, r, d) = [ok |-> TRUE, nodes |-> <<ParsedNode(toks, p1, d)>> \o behind]
      BY <2>8, <2>12, <2>13 DEF ParseStep
    <2> QED BY <1>5, <1>7, <2>7, <2>11, <2>14 DEF r
  <1> QED BY <1>8, <1>9

\* So all nodes are parsed back, from the last one to the first.
LEMMA AllParseBack ==
    ASSUME NEW nodes \in Seq(BareNode), Nested(nodes)
    PROVE  ParsesBack(nodes, 1)
  <1> DEFINE n == Len(nodes)
             T == {k \in 1 .. n + 1 : ParsesBack(nodes, k)}
  <1>1. n \in Nat
    OBVIOUS
  <1>2. ASSUME NEW k, k = n + 1 PROVE ParsesBack(nodes, k)
    <2> SUFFICES ASSUME NEW toks \in Seq(AnyToken), NEW pos \in Nat, At(toks, pos, Rest(nodes, k)),
                        pos + Len(Rest(nodes, k)) = Len(toks) + 1
                 PROVE  ParseNodes(toks)[pos][Depth(nodes, k)]
                          = [ok |-> TRUE, nodes |-> SubSeq(nodes, k, Len(nodes))]
      BY DEF ParsesBack
    <2>1. Rest(nodes, k) = <<>> /\ Len(<<>>) = 0
      BY <1>2, RestAtEnd
    <2>2. pos = Len(toks) + 1
      BY <2>1
    <2>3. Depth(nodes, k) = 0
      BY <1>2 DEF Depth
    <2>4. 0 \in 0 .. MaxDepth
      BY KdlAssumption
    <2>5. ParseNodes(toks)[pos][0] = ParsedEnd(0)
      BY <2>2, <2>4, ParseNodesIs
    <2>6. ParsedEnd(0) = [ok |-> TRUE, nodes |-> <<>>]
      BY DEF ParsedEnd
    <2>7. SubSeq(nodes, k, Len(nodes)) = <<>>
      <3>1. k \in Int /\ Len(nodes) \in Int /\ Len(nodes) < k
        BY <1>1, <1>2
      <3> QED BY <3>1, SubSeqEmpty
    <2> QED BY <2>3, <2>5, <2>6, <2>7
  <1>3. ASSUME NEW k \in 1 .. n + 1, \A j \in k + 1 .. n + 1 : j \in T PROVE k \in T
    <2>1. CASE k = n + 1
      BY <1>2, <2>1
    <2>2. CASE k # n + 1
      <3>1. k \in 1 .. Len(nodes) /\ k + 1 \in k + 1 .. n + 1
        BY <1>1, <2>2
      <3>2. ParsesBack(nodes, k + 1)
        BY <1>3, <3>1
      <3>3. ParsesBack(nodes, k)
        BY <3>1, <3>2, NodeParsesBack
      <3> QED BY <3>3
    <2> QED BY <2>1, <2>2
  <1>4. 1 \in T
    <2> HIDE DEF T
    <2>1. HandedDown(T, n)
      BY <1>3 DEF HandedDown
    <2>2. 1 \in 1 .. n + 1
      BY <1>1
    <2> HIDE DEF n
    <2> QED BY <1>1, <2>1, <2>2, Downwards
  <1> QED BY <1>4

\* Whatever message serialize writes, of whatever values and blocks, tokenize and parse
\* read the same nodes from its text: for keywords, numbers and names without quotes,
\* and for texts in quotes with escapes.
THEOREM TextIsReadBack ==
    ASSUME NEW nodes \in Seq(BareNode), Nested(nodes)
    PROVE  Parse(Serialize(nodes)) = [ok |-> TRUE, nodes |-> nodes]
  <1> DEFINE toks == Tokenize(Serialize(nodes))[1]
  <1>1. toks = Rest(nodes, 1) /\ toks \in Seq(AnyToken)
    <2>1. /\ toks = FlattenSeq(TokensOf(nodes)) /\ FlattenSeq(TokensOf(nodes)) \in Seq(AnyToken)
          /\ TokensOf(nodes) \in Seq(Seq(AnyToken)) /\ Len(TokensOf(nodes)) = Len(nodes)
      BY SerializeReads, TokensOfType
    <2>2. SubSeq(TokensOf(nodes), 1, Len(TokensOf(nodes))) = TokensOf(nodes)
      BY <2>1, SubSeqFull
    <2> QED BY <2>1, <2>2 DEF Rest
  <1>2. Parse(Serialize(nodes)) = ParseNodes(toks)[1][0]
    BY DEF Parse
  <1> HIDE DEF toks
  <1>3. At(toks, 1, toks) /\ 1 + Len(toks) = Len(toks) + 1
    <2>1. Len(toks) \in Nat
      BY <1>1
    <2>2. \A k \in 1 .. Len(toks) : 1 + k - 1 = k
      BY <2>1
    <2>3. \A k \in 1 .. Len(toks) : toks[1 + k - 1] = toks[k]
      BY <2>2
    <2> QED BY <2>1, <2>3 DEF At
  <1>4. ParsesBack(nodes, 1)
    BY AllParseBack
  <1>5. 1 \in Nat
    OBVIOUS
  <1>6. ParseNodes(toks)[1][Depth(nodes, 1)] = [ok |-> TRUE, nodes |-> SubSeq(nodes, 1, Len(nodes))]
    BY <1>1, <1>3, <1>4, <1>5 DEF ParsesBack
  <1>7. SubSeq(nodes, 1, Len(nodes)) = nodes
    BY SubSeqFull
  <1>8. Depth(nodes, 1) = 0
    <2>1. CASE Len(nodes) = 0
      BY <2>1 DEF Depth
    <2>2. CASE Len(nodes) # 0
      <3>1. 1 \in DOMAIN nodes /\ 1 \in 1 .. Len(nodes)
        BY <2>2
      <3>2. nodes[1].depth <= 0
        BY <3>1 DEF Nested
      <3>3. nodes[1].depth \in Nat /\ Depth(nodes, 1) = nodes[1].depth
        BY <3>1, BareNodeIs, DepthIs
      <3> QED BY <3>2, <3>3
    <2> QED BY <2>1, <2>2
  <1> QED BY <1>2, <1>6, <1>7, <1>8

-----------------------------------------------------------------------------
(* Signing *)

\* The auth block is a block with one entry.
LEMMA AuthNodeIs ==
    /\ AuthNode \in Seq(BareNode) /\ Len(AuthNode) = 2
    /\ AuthNode[1].depth = 0 /\ AuthNode[1].name = Auth /\ AuthNode[2].depth = 1
  <1> DEFINE e1 == <<"e", "1", "-">>
             a1 == <<<<"text", e1>>>>
             n1 == [depth |-> 0, name |-> Auth, args |-> <<>>]
             n2 == [depth |-> 1, name |-> <<"s">>, args |-> a1]
  <1>1. Auth \in AnyString /\ IsBare(Auth)
    <2>1. Auth \in Seq(AnyCharacter)
      BY LettersAre DEF Auth
    <2>2. "a" \in Letters /\ "u" \in Letters /\ "t" \in Letters
      BY KdlAssumption
    <2>3. Auth # <<>> /\ Head(Auth) = "a" /\ ToSet(Auth) = {"a", "u", "t"}
      BY DEF Auth, ToSet
    <2>4. \A k \in DOMAIN Keywords : Auth # Keywords[k]
      <3>1. Auth[1] = "a"
        BY DEF Auth
      <3>2. \A k \in DOMAIN Keywords : Keywords[k][1] # "a"
        BY DEF Keywords
      <3> QED BY <3>1, <3>2
    <2> QED BY <2>1, <2>2, <2>3, <2>4, TextsAre DEF IsBare
  <1>2. <<"s">> \in AnyString /\ IsBare(<<"s">>)
    <2> DEFINE s == <<"s">>
    <2>1. s \in Seq(AnyCharacter)
      BY LettersAre
    <2>2. "s" \in Letters
      BY KdlAssumption
    <2>3. s # <<>> /\ Head(s) = "s" /\ ToSet(s) = {"s"}
      BY DEF ToSet
    <2>4. \A k \in DOMAIN Keywords : s # Keywords[k]
      <3>1. s[1] = "s"
        OBVIOUS
      <3>2. \A k \in DOMAIN Keywords : Keywords[k][1] # "s"
        BY DEF Keywords
      <3> QED BY <3>1, <3>2
    <2> HIDE DEF s
    <2>5. s \in AnyString /\ IsBare(s)
      BY <2>1, <2>2, <2>3, <2>4, TextsAre DEF IsBare
    <2> QED BY <2>5 DEF s
  <1>3. a1 \in Seq(AnyValue)
    <2>1. "1" \in AnyCharacter /\ "-" \in AnyCharacter
      BY CharactersAre, DigitsAre DEF Marks
    <2>2. e1 \in Seq(AnyCharacter)
      BY <2>1, LettersAre
    <2> HIDE DEF e1
    <2>3. <<"text", e1>> \in AnyValue
      BY <2>2, TextsAre DEF AnyValue
    <2> QED BY <2>3, Singleton
  <1>4. <<>> \in Seq(AnyValue)
    OBVIOUS
  <1>5. 0 \in 0 .. MaxDepth /\ 1 \in 0 .. MaxDepth
    BY KdlAssumption
  <1>6. AuthNode = <<n1, n2>>
    BY DEF AuthNode
  <1> HIDE DEF a1
  <1>7. n1 \in BareNode /\ n1.depth = 0 /\ n1.name = Auth
    BY <1>1, <1>4, <1>5 DEF BareNode
  <1>8. n2 \in BareNode /\ n2.depth = 1
    BY <1>2, <1>3, <1>5 DEF BareNode
  <1> HIDE DEF n1, n2
  <1>9. AuthNode \in Seq(BareNode)
    BY <1>6, <1>7, <1>8, Pair
  <1>10. Len(AuthNode) = 2 /\ AuthNode[1] = n1 /\ AuthNode[2] = n2
    BY <1>6
  <1> QED BY <1>7, <1>8, <1>9, <1>10

\* A message and its auth block.
LEMMA SignedNodes ==
    ASSUME NEW nodes \in Seq(BareNode)
    PROVE  /\ nodes \o AuthNode \in Seq(BareNode) /\ Len(nodes \o AuthNode) = Len(nodes) + 2
           /\ \A k \in 1 .. Len(nodes) : (nodes \o AuthNode)[k] = nodes[k]
           /\ (nodes \o AuthNode)[Len(nodes) + 1] = AuthNode[1]
           /\ (nodes \o AuthNode)[Len(nodes) + 2] = AuthNode[2]
  <1> DEFINE n == Len(nodes)
             all == nodes \o AuthNode
  <1>1. n \in Nat
    OBVIOUS
  <1>2. AuthNode \in Seq(BareNode) /\ Len(AuthNode) = 2
    BY AuthNodeIs
  <1>3. AuthNode \in Seq(BareNode)
    BY <1>2
  <1>4. /\ all \in Seq(BareNode) /\ Len(all) = Len(nodes) + Len(AuthNode)
        /\ \A k \in 1 .. Len(nodes) + Len(AuthNode) :
              all[k] = IF k <= Len(nodes) THEN nodes[k] ELSE AuthNode[k - Len(nodes)]
    BY <1>3, ConcatProperties
  <1> HIDE DEF all, n
  <1>5. Len(all) = n + 2 /\ \A k \in 1 .. n + 2 : all[k] = IF k <= n THEN nodes[k] ELSE AuthNode[k - n]
    BY <1>2, <1>4 DEF n
  <1>6. \A k \in 1 .. n : all[k] = nodes[k]
    <2> TAKE k \in 1 .. n
    <2>1. k \in 1 .. n + 2 /\ k <= n
      BY <1>1
    <2> QED BY <1>5, <2>1
  <1>7. all[n + 1] = AuthNode[1]
    <2>1. n + 1 \in 1 .. n + 2 /\ ~(n + 1 <= n) /\ (n + 1) - n = 1
      BY <1>1
    <2> QED BY <1>5, <2>1
  <1>8. all[n + 2] = AuthNode[2]
    <2>1. n + 2 \in 1 .. n + 2 /\ ~(n + 2 <= n) /\ (n + 2) - n = 2
      BY <1>1
    <2> QED BY <1>5, <2>1
  <1> QED BY <1>4, <1>5, <1>6, <1>7, <1>8 DEF all, n

\* The auth block does not get inside of another.
LEMMA SignedIsNested ==
    ASSUME NEW nodes \in Seq(BareNode), Nested(nodes)
    PROVE  Nested(nodes \o AuthNode)
  <1> DEFINE n == Len(nodes)
             all == nodes \o AuthNode
  <1>1. n \in Nat /\ DOMAIN nodes = 1 .. n
    OBVIOUS
  <1>2. /\ all \in Seq(BareNode) /\ Len(all) = n + 2 /\ \A k \in 1 .. n : all[k] = nodes[k]
        /\ all[n + 1].depth = 0 /\ all[n + 2].depth = 1
    BY SignedNodes, AuthNodeIs
  <1>3. \A k \in 1 .. n : nodes[k].depth \in Nat
    BY BareNodeIs
  <1>4. \A k \in 1 .. n : nodes[k].depth <= IF k = 1 THEN 0 ELSE nodes[k - 1].depth + 1
    BY <1>1 DEF Nested
  <1>5. DOMAIN all = 1 .. Len(all)
    BY <1>2
  <1> HIDE DEF n, all
  <1>6. ASSUME NEW k \in 1 .. n + 2
        PROVE  all[k].depth <= IF k = 1 THEN 0 ELSE all[k - 1].depth + 1
    <2>1. CASE k <= n
      <3>1. k \in 1 .. n /\ (k # 1 => k - 1 \in 1 .. n)
        BY <1>1, <2>1
      <3> QED BY <1>2, <1>4, <3>1
    <2>2. CASE k = n + 1
      <3>1. k # 1 => k - 1 \in 1 .. n
        BY <1>1, <2>2
      <3>2. k # 1 => all[k - 1].depth \in Nat
        BY <1>2, <1>3, <3>1
      <3>3. all[k].depth = 0
        BY <1>2, <2>2
      <3> QED BY <3>2, <3>3
    <2>3. CASE k = n + 2
      <3>1. k # 1 /\ k - 1 = n + 1
        BY <1>1, <2>3
      <3> QED BY <1>2, <2>3, <3>1
    <2> QED BY <1>1, <2>1, <2>2, <2>3
  <1>7. DOMAIN all = 1 .. n + 2
    BY <1>2, <1>5
  <1> QED BY <1>6, <1>7 DEF Nested, all

\* The auth block is taken out again, and nothing else.
LEMMA AuthIsTakenOut ==
    ASSUME NEW nodes \in Seq(BareNode), Unsigned(nodes)
    PROVE  WithoutAuth(nodes \o AuthNode) = nodes
  <1> DEFINE n == Len(nodes)
             all == nodes \o AuthNode
             auths == {k \in DOMAIN all : all[k].depth = 0 /\ all[k].name = Auth}
             auth == CHOOSE k \in auths : \A j \in auths : k <= j
             Is(k) == /\ k <= Len(all) => all[k].depth = 0
                      /\ \A j \in auth + 1 .. k - 1 : all[j].depth > 0
             end == CHOOSE k \in auth + 1 .. Len(all) + 1 : Is(k)
  <1>1. n \in Nat /\ DOMAIN nodes = 1 .. n
    OBVIOUS
  <1>2. /\ all \in Seq(BareNode) /\ Len(all) = n + 2 /\ \A k \in 1 .. n : all[k] = nodes[k]
        /\ all[n + 1].depth = 0 /\ all[n + 1].name = Auth /\ all[n + 2].depth = 1
    BY SignedNodes, AuthNodeIs
  <1>3. DOMAIN all = 1 .. Len(all)
    BY <1>2
  <1>4. \A k \in 1 .. n : ~(nodes[k].depth = 0 /\ nodes[k].name = Auth)
    BY <1>1 DEF Unsigned
  <1>5. WithoutAuth(all) = IF auths = {} THEN all ELSE SubSeq(all, 1, auth - 1) \o From(all, end)
    BY DEF WithoutAuth
  <1>6. SubSeq(all, 1, n) = nodes
    <2>1. 1 \in 1 .. Len(all) + 1 /\ n \in 1 - 1 .. Len(all) /\ n - 1 + 1 = n
      <3> HIDE DEF n, all
      <3> QED BY <1>1, <1>2
    <2> DEFINE first == SubSeq(all, 1, n)
    <2>2. first \in Seq(BareNode) /\ Len(first) = n - 1 + 1
      <3> HIDE DEF n, all
      <3> QED BY <1>2, <2>1, SubSeqType
    <2>3. \A k \in 1 .. n - 1 + 1 : first[k] = all[1 + k - 1]
      <3> HIDE DEF n, all
      <3> QED BY <1>2, <2>1, SubSeqType
    <2> HIDE DEF first
    <2>4. \A k \in 1 .. n : first[k] = nodes[k]
      <3> TAKE k \in 1 .. n
      <3>1. 1 + k - 1 = k /\ k \in 1 .. n - 1 + 1
        <4> HIDE DEF n
        <4> QED BY <1>1
      <3>2. first[k] = all[k]
        BY <2>3, <3>1
      <3> QED BY <1>2, <3>2
    <2>5. Len(first) = Len(nodes)
      BY <2>1, <2>2
    <2>6. first = nodes
      <3>1. \A k \in 1 .. Len(first) : first[k] = nodes[k]
        BY <2>4, <2>5
      <3> QED BY <2>2, <2>5, <3>1, SeqEqual
    <2> QED BY <2>6 DEF first
  <1> HIDE DEF n, all
  <1>7. auths = {n + 1}
    <2>1. \A k \in 1 .. n + 2 : k \in 1 .. n \/ k = n + 1 \/ k = n + 2
      BY <1>1
    <2>2. n + 1 \in 1 .. n + 2
      BY <1>1
    <2> QED BY <1>2, <1>3, <1>4, <2>1, <2>2
  <1> HIDE DEF auths
  <1>8. auth = n + 1
    BY <1>1, <1>7
  <1> HIDE DEF auth
  <1>9. end = n + 3
    <2>1. n + 3 \in auth + 1 .. Len(all) + 1 /\ Is(n + 3)
      <3>1. n + 3 \in auth + 1 .. Len(all) + 1 /\ ~(n + 3 <= Len(all))
        BY <1>1, <1>2, <1>8
      <3>2. \A j \in auth + 1 .. (n + 3) - 1 : j = n + 2
        BY <1>1, <1>8
      <3>3. \A j \in auth + 1 .. (n + 3) - 1 : all[j].depth > 0
        BY <1>2, <3>2
      <3> QED BY <3>1, <3>3
    <2>2. \A k \in auth + 1 .. Len(all) + 1 : k = n + 3 \/ k = n + 2
      BY <1>1, <1>2, <1>8
    <2>3. ~Is(n + 2)
      <3>1. n + 2 <= Len(all)
        BY <1>1, <1>2
      <3> QED BY <1>2, <3>1
    <2> HIDE DEF Is
    <2>4. end \in auth + 1 .. Len(all) + 1 /\ Is(end)
      BY <2>1
    <2> QED BY <2>2, <2>3, <2>4
  <1> HIDE DEF end
  <1>10. From(all, end) = <<>>
    <2>1. end \in Int /\ Len(all) \in Int /\ Len(all) < end
      BY <1>1, <1>2, <1>9
    <2> QED BY <2>1, SubSeqEmpty DEF From
  <1>11. SubSeq(all, 1, auth - 1) = nodes
    <2>1. auth - 1 = n
      BY <1>1, <1>8
    <2> QED BY <1>6, <2>1
  <1>12. nodes \o <<>> = nodes
    BY ConcatEmptySeq
  <1>13. auths # {}
    BY <1>7
  <1>14. WithoutAuth(all) = SubSeq(all, 1, auth - 1) \o From(all, end)
    BY <1>5, <1>13 DEF end, Is
  <1> QED BY <1>10, <1>11, <1>12, <1>14 DEF all

\* What the receiver recomputes the signature over is the text that was signed, for
\* every message that can be sent: parsing the body, taking out the auth block and
\* writing the rest again changes nothing.
THEOREM SignedTextIsAlwaysReadBack ==
    ASSUME sample \in AnyMessage
    PROVE  SignedTextIsReadBack
  <1> DEFINE nodes == sample.nodes
             all == nodes \o AuthNode
  <1>1. nodes \in Seq(BareNode) /\ Nested(nodes) /\ Unsigned(nodes)
    BY DEF AnyMessage
  <1> HIDE DEF nodes
  <1>2. all \in Seq(BareNode) /\ Nested(all)
    BY <1>1, SignedNodes, SignedIsNested
  <1>3. WithoutAuth(all) = nodes
    BY <1>1, AuthIsTakenOut
  <1> HIDE DEF all
  <1>4. Parse(Serialize(all)) = [ok |-> TRUE, nodes |-> all]
    BY <1>2, TextIsReadBack
  <1>5. Parse(SignedBody(nodes)) = [ok |-> TRUE, nodes |-> all]
    BY <1>4 DEF SignedBody, all
  <1>6. Canonical(SignedBody(nodes)) = {Serialize(nodes)}
    BY <1>3, <1>5 DEF Canonical
  <1>7. WithoutAuth(Parse(SignedBody(nodes)).nodes) = nodes
    BY <1>3, <1>5
  <1> QED BY <1>6, <1>7 DEF SignedTextIsReadBack, nodes

-----------------------------------------------------------------------------
(* Lengths, as frames begin with them *)

\* The number that a digit stands for.
DigitValue(c) == CHOOSE d \in 0 .. 9 : Decimals[d + 1] = c

\* Each digit stands for one number.
LEMMA DigitValues ==
    /\ \A d \in 0 .. 9 : Decimals[d + 1] \in Digits /\ DigitValue(Decimals[d + 1]) = d
    /\ \A c \in Digits : DigitValue(c) \in 0 .. 9
  <1>1. /\ DOMAIN Decimals = 1 .. 10
        /\ Decimals[1] = "0" /\ Decimals[2] = "1" /\ Decimals[3] = "2" /\ Decimals[4] = "3"
        /\ Decimals[5] = "4" /\ Decimals[6] = "5" /\ Decimals[7] = "6" /\ Decimals[8] = "7"
        /\ Decimals[9] = "8" /\ Decimals[10] = "9"
    BY DEF Decimals
  <1>2. \A d, e \in 0 .. 9 : Decimals[d + 1] = Decimals[e + 1] => d = e
    BY <1>1
  <1>3. Digits = {Decimals[i] : i \in 1 .. 10}
    BY <1>1 DEF Digits, ToSet
  <1>4. ASSUME NEW d \in 0 .. 9
        PROVE  Decimals[d + 1] \in Digits /\ DigitValue(Decimals[d + 1]) = d
    <2>1. Decimals[d + 1] \in Digits
      BY <1>3
    <2>2. \A e \in 0 .. 9 : Decimals[e + 1] = Decimals[d + 1] => e = d
      BY <1>2
    <2> QED BY <2>1, <2>2 DEF DigitValue
  <1>5. ASSUME NEW c \in Digits PROVE DigitValue(c) \in 0 .. 9
    <2>1. PICK i \in 1 .. 10 : c = Decimals[i]
      BY <1>3
    <2>2. i - 1 \in 0 .. 9 /\ Decimals[(i - 1) + 1] = c
      BY <2>1
    <2> QED BY <2>2 DEF DigitValue
  <1> QED BY <1>4, <1>5

\* What Number chooses: the number of each beginning of the numeral.
Reckons(f, ds) ==
    /\ f \in [0 .. Len(ds) -> Nat] /\ f[0] = 0
    /\ \A k \in 1 .. Len(ds) : f[k] = 10 * f[k - 1] + DigitValue(ds[k])

\* It exists.
LEMMA NumberDef ==
    ASSUME NEW ds \in Seq(Digits)
    PROVE  \E f : Reckons(f, ds) /\ Number(ds) = f[Len(ds)]
  <1> DEFINE n == Len(ds)
             Is(f) == f = [k \in 0 .. n |-> IF k = 0 THEN 0 ELSE 10 * f[k - 1] + DigitValue(ds[k])]
             read == CHOOSE f : Is(f)
             g == [k \in 1 .. n |-> [x \in Nat |-> 10 * x + DigitValue(ds[k])]]
  <1>1. n \in Nat /\ \A k \in 1 .. n : DigitValue(ds[k]) \in 0 .. 9
    BY DigitValues
  <1>2. Number(ds) = read[n]
    BY DEF Number, DigitValue
  <1> HIDE DEF n
  <1>3. g \in [1 .. n -> [Nat -> Nat]]
    BY <1>1
  <1>4. \A k \in 1 .. n : \A x \in Nat : g[k][x] = 10 * x + DigitValue(ds[k])
    OBVIOUS
  <1> HIDE DEF g
  <1>5. PICK f : RecursUp(f, n, Nat, 0, g)
    BY <1>1, <1>3, RecursionUp
  <1>6. f \in [0 .. n -> Nat] /\ f[0] = 0
    BY <1>5 DEF RecursUp
  <1>7. ASSUME NEW k \in 1 .. n PROVE f[k] = 10 * f[k - 1] + DigitValue(ds[k])
    <2>1. f[k] = g[k][f[k - 1]]
      BY <1>5 DEF RecursUp
    <2>2. k - 1 \in 0 .. n
      BY <1>1
    <2> QED BY <1>4, <1>6, <2>1, <2>2
  <1>8. Is(f)
    <2>1. \A k \in 0 .. n : f[k] = IF k = 0 THEN 0 ELSE 10 * f[k - 1] + DigitValue(ds[k])
      BY <1>1, <1>6, <1>7
    <2>2. f = [k \in 0 .. n |-> f[k]]
      BY <1>6
    <2> QED BY <2>1, <2>2
  <1>9. Is(read)
    <2> HIDE DEF Is
    <2> QED BY <1>8
  <1> HIDE DEF read
  <1>10. read[0] = 0 /\ \A k \in 1 .. n : read[k] = 10 * read[k - 1] + DigitValue(ds[k])
    BY <1>1, <1>9
  <1>11. \A k \in 0 .. n : read[k] \in Nat
    <2> DEFINE T == {k \in 0 .. n : read[k] \in Nat}
    <2>1. 0 \in T
      BY <1>1, <1>10
    <2>2. ASSUME NEW k \in 1 .. n, k - 1 \in T PROVE k \in T
      <3>1. read[k] = 10 * read[k - 1] + DigitValue(ds[k]) /\ DigitValue(ds[k]) \in 0 .. 9
        BY <1>1, <1>10
      <3>2. read[k - 1] \in Nat
        BY <2>2
      <3> HIDE DEF T
      <3>3. read[k] \in Nat
        <4>1. \A x \in Nat : \A e \in 0 .. 9 : 10 * x + e \in Nat
          OBVIOUS
        <4> QED BY <3>1, <3>2, <4>1, Zenon
      <3>4. k \in 0 .. n
        BY <1>1
      <3> QED BY <3>3, <3>4 DEF T
    <2> HIDE DEF T
    <2>3. \A k \in 0 .. n : k \in T
      BY <1>1, <2>1, <2>2, Upwards DEF HandedUp
    <2> QED BY <2>3 DEF T
  <1>12. read \in [0 .. n -> Nat]
    <2>1. read = [k \in 0 .. n |-> read[k]]
      BY <1>1, <1>9
    <2> QED BY <1>11, <2>1
  <1> QED BY <1>2, <1>10, <1>12 DEF Reckons, n

\* One digit more.
LEMMA NumberAppend ==
    ASSUME NEW ds \in Seq(Digits), NEW d \in 0 .. 9
    PROVE  /\ Number(ds) \in Nat /\ Append(ds, Decimals[d + 1]) \in Seq(Digits)
           /\ Number(Append(ds, Decimals[d + 1])) = 10 * Number(ds) + d
  <1> DEFINE c == Decimals[d + 1]
             n == Len(ds)
             longer == Append(ds, c)
  <1>1. c \in Digits /\ DigitValue(c) = d /\ n \in Nat
    BY DigitValues
  <1> HIDE DEF c
  <1>2. /\ longer \in Seq(Digits) /\ Len(longer) = n + 1 /\ longer[n + 1] = c
        /\ \A k \in 1 .. n : longer[k] = ds[k]
    BY <1>1, AppendOne
  <1> HIDE DEF longer, n
  <1>3. PICK f : Reckons(f, ds) /\ Number(ds) = f[Len(ds)]
    BY NumberDef
  <1>4. PICK h : Reckons(h, longer) /\ Number(longer) = h[Len(longer)]
    BY <1>2, NumberDef
  <1>5. /\ f \in [0 .. n -> Nat] /\ f[0] = 0 /\ Number(ds) = f[n]
        /\ \A k \in 1 .. n : f[k] = 10 * f[k - 1] + DigitValue(ds[k])
    BY <1>3 DEF Reckons, n
  <1>6. /\ h \in [0 .. n + 1 -> Nat] /\ h[0] = 0 /\ Number(longer) = h[n + 1]
        /\ \A k \in 1 .. n + 1 : h[k] = 10 * h[k - 1] + DigitValue(longer[k])
    BY <1>2, <1>4 DEF Reckons
  <1>7. h[n] = f[n]
    <2> DEFINE T == {k \in 0 .. n : h[k] = f[k]}
    <2>1. 0 \in T
      BY <1>1, <1>5, <1>6
    <2>2. ASSUME NEW k \in 1 .. n, k - 1 \in T PROVE k \in T
      <3>1. f[k] = 10 * f[k - 1] + DigitValue(ds[k])
        BY <1>5
      <3>2. h[k] = 10 * h[k - 1] + DigitValue(longer[k])
        <4>1. k \in 1 .. n + 1
          BY <1>1
        <4> QED BY <1>6, <4>1
      <3>3. longer[k] = ds[k]
        BY <1>2
      <3>4. h[k - 1] = f[k - 1] /\ k \in 0 .. n
        BY <1>1, <2>2
      <3> QED BY <3>1, <3>2, <3>3, <3>4
    <2> HIDE DEF T
    <2>3. \A k \in 0 .. n : k \in T
      BY <1>1, <2>1, <2>2, Upwards DEF HandedUp
    <2> QED BY <1>1, <2>3 DEF T
  <1>8. h[n + 1] = 10 * h[n] + d
    <2>1. h[n + 1] = 10 * h[(n + 1) - 1] + DigitValue(longer[n + 1])
      BY <1>1, <1>6
    <2>2. (n + 1) - 1 = n
      BY <1>1
    <2> QED BY <1>1, <1>2, <2>1, <2>2
  <1>9. f[n] \in Nat
    BY <1>1, <1>5
  <1> QED BY <1>2, <1>5, <1>6, <1>7, <1>8, <1>9 DEF longer, c

\* No digits are nothing, and one digit is its number.
LEMMA NumberOfOne ==
    ASSUME NEW d \in 0 .. 9
    PROVE  <<Decimals[d + 1]>> \in Seq(Digits) /\ Number(<<Decimals[d + 1]>>) = d
  <1>1. <<>> \in Seq(Digits) /\ Len(<<>>) = 0 /\ Append(<<>>, Decimals[d + 1]) = <<Decimals[d + 1]>>
    OBVIOUS
  <1>2. Number(<<>>) = 0
    <2>1. PICK f : Reckons(f, <<>>) /\ Number(<<>>) = f[Len(<<>>)]
      BY <1>1, NumberDef
    <2> QED BY <1>1, <2>1 DEF Reckons
  <1> DEFINE none == <<>>
  <1>3. none \in Seq(Digits) /\ Append(none, Decimals[d + 1]) = <<Decimals[d + 1]>>
    BY <1>1
  <1>4. Number(none) = 0
    BY <1>2
  <1> HIDE DEF none
  <1>5. /\ Append(none, Decimals[d + 1]) \in Seq(Digits)
        /\ Number(Append(none, Decimals[d + 1])) = 10 * Number(none) + d
    BY <1>3, NumberAppend, Zenon
  <1> QED BY <1>3, <1>4, <1>5

\* What something is appended to is not empty.
LEMMA NotEmptied ==
    ASSUME NEW S, NEW s \in Seq(S), NEW c \in S
    PROVE  Append(s, c) # <<>>
  <1>1. Len(Append(s, c)) = Len(s) + 1 /\ Len(s) \in Nat
    OBVIOUS
  <1>2. Len(Append(s, c)) # 0
    BY <1>1
  <1> DEFINE longer == Append(s, c)
  <1> HIDE DEF longer
  <1>3. Len(<<>>) = 0
    OBVIOUS
  <1>4. longer # <<>>
    BY <1>2, <1>3, Zenon DEF longer
  <1> QED BY <1>4 DEF longer

\* A number is ten times another one and a digit.
LEMMA TensAndDigit ==
    ASSUME NEW m \in Nat
    PROVE  /\ m % 10 \in 0 .. 9 /\ m \div 10 \in Nat /\ m = 10 * (m \div 10) + (m % 10)
           /\ m >= 10 => m \div 10 < m
  <1>1. m % 10 \in 0 .. 9
    OBVIOUS
  <1>2. m \div 10 \in Nat
    OBVIOUS
  <1>3. m = 10 * (m \div 10) + (m % 10)
    OBVIOUS
  <1>4. m >= 10 => m \div 10 < m
    BY <1>1, <1>2, <1>3
  <1> QED BY <1>1, <1>2, <1>3, <1>4

\* What Decimal chooses: the numeral of each number up to n.
Writes(f, n) ==
    /\ f \in [0 .. n -> Seq(Digits)]
    /\ \A m \in 0 .. n :
          f[m] = IF m < 10 THEN <<Decimals[m + 1]>>
                 ELSE Append(f[m \div 10], Decimals[(m % 10) + 1])

\* It exists.
LEMMA DecimalDef ==
    ASSUME NEW n \in Nat
    PROVE  \E f : Writes(f, n) /\ Decimal(n) = f[n]
  <1> DEFINE Body(f, m) == IF m < 10 THEN <<Decimals[m + 1]>>
                           ELSE Append(f[m \div 10], Decimals[(m % 10) + 1])
             Is(f) == f = [m \in 0 .. n |-> Body(f, m)]
             written == CHOOSE f : Is(f)
             V == Seq(Digits)
             step(m, p) == IF m < 10 THEN <<Decimals[m + 1]>> ELSE Append(p, Decimals[(m % 10) + 1])
             g == [i \in 1 .. n |-> [p \in V |-> step(n + 1 - i, p)]]
             next == [i \in 1 .. n |-> n + 1 - ((n + 1 - i) \div 10)]
             base == <<Decimals[1]>>
  <1>1. Decimal(n) = written[n]
    BY DEF Decimal
  <1>2. ASSUME NEW m \in 0 .. n, NEW p \in V PROVE step(m, p) \in V
    <2>1. CASE m < 10
      <3>1. <<Decimals[m + 1]>> \in Seq(Digits)
        BY <2>1, NumberOfOne
      <3> QED BY <2>1, <3>1
    <2>2. CASE ~(m < 10)
      <3>1. m % 10 \in 0 .. 9
        BY TensAndDigit
      <3>2. Decimals[(m % 10) + 1] \in Digits
        BY <3>1, DigitValues
      <3>3. Append(p, Decimals[(m % 10) + 1]) \in Seq(Digits)
        BY <3>2
      <3> QED BY <2>2, <3>3
    <2> QED BY <2>1, <2>2
  <1>3. base \in V
    <2>1. 0 \in 0 .. 9 /\ 0 + 1 = 1
      OBVIOUS
    <2> QED BY <2>1, NumberOfOne
  <1> HIDE DEF V, step, base
  <1>4. g \in [1 .. n -> [V -> V]]
    <2>1. ASSUME NEW i \in 1 .. n, NEW p \in V PROVE step(n + 1 - i, p) \in V
      BY <1>2
    <2> QED BY <2>1
  <1>5. \A i \in 1 .. n : \A p \in V : g[i][p] = step(n + 1 - i, p)
    OBVIOUS
  <1>6. ASSUME NEW i \in 1 .. n
        PROVE  /\ next[i] = n + 1 - ((n + 1 - i) \div 10)
               /\ next[i] \in 1 .. n + 1 /\ next[i] > i
    <2> DEFINE m == n + 1 - i
    <2>1. m \in 1 .. n /\ next[i] = n + 1 - (m \div 10)
      OBVIOUS
    <2>2. m \div 10 \in 0 .. m - 1
      BY <2>1
    <2>3. i = n + 1 - m
      OBVIOUS
    <2> HIDE DEF m, next
    <2> QED BY <2>1, <2>2, <2>3
  <1>7. next \in [1 .. n -> 1 .. n + 1]
    BY <1>6
  <1> HIDE DEF g, next
  <1>8. PICK f : RecursDown(f, n, V, base, g, next)
    BY <1>3, <1>4, <1>6, <1>7, RecursionDown
  <1>9. /\ f \in [1 .. n + 1 -> V] /\ f[n + 1] = base
        /\ \A i \in 1 .. n : f[i] = g[i][f[next[i]]]
    BY <1>8 DEF RecursDown
  <1> DEFINE h == [m \in 0 .. n |-> f[n + 1 - m]]
  <1>10. h \in [0 .. n -> V]
    BY <1>9
  <1>11. h[0] = base
    BY <1>9
  <1>12. ASSUME NEW m \in 1 .. n PROVE h[m] = step(m, h[m \div 10])
    <2> DEFINE i == n + 1 - m
    <2>1. i \in 1 .. n /\ n + 1 - i = m /\ h[m] = f[i]
      OBVIOUS
    <2>2. m \div 10 \in 0 .. n
      OBVIOUS
    <2>3. h[m \div 10] = f[n + 1 - (m \div 10)]
      BY <2>2
    <2> HIDE DEF i, h
    <2>4. f[i] = g[i][f[next[i]]] /\ next[i] = n + 1 - (m \div 10) /\ next[i] \in 1 .. n + 1
      BY <1>6, <1>9, <2>1
    <2>5. f[next[i]] \in V
      BY <1>9, <2>4
    <2>6. g[i][f[next[i]]] = step(m, f[next[i]])
      BY <1>5, <2>1, <2>5
    <2> QED BY <2>1, <2>3, <2>4, <2>6
  <1> HIDE DEF h
  <1>13. ASSUME NEW m \in 0 .. n PROVE h[m] = Body(h, m)
    <2>1. CASE m = 0
      BY <1>11, <2>1 DEF base
    <2>2. CASE m # 0
      <3>1. h[m] = step(m, h[m \div 10])
        BY <1>12, <2>2
      <3> QED BY <3>1 DEF step
    <2> QED BY <2>1, <2>2
  <1>14. Is(h)
    <2>1. h = [m \in 0 .. n |-> h[m]]
      BY <1>10
    <2> HIDE DEF Body
    <2> QED BY <1>13, <2>1
  <1>15. Is(written)
    <2> HIDE DEF Is
    <2> QED BY <1>14
  <1> HIDE DEF written
  <1>16. \A m \in 0 .. n : written[m] = Body(written, m)
    BY <1>15
  <1>17. \A m \in 0 .. n : written[m] \in V
    <2> DEFINE wrong == {m \in 0 .. n : written[m] \notin V}
    <2> SUFFICES ASSUME wrong # {} PROVE FALSE
      OBVIOUS
    <2>1. wrong \subseteq Nat
      OBVIOUS
    <2> HIDE DEF wrong
    <2>2. PICK m \in wrong : \A k \in wrong : m <= k
      BY <2>1, LeastNumber
    <2>3. m \in 0 .. n /\ written[m] \notin V
      BY DEF wrong
    <2>4. CASE m < 10
      <3>1. written[m] = <<Decimals[m + 1]>>
        BY <1>16, <2>3, <2>4
      <3>2. m \in 0 .. 9
        BY <2>3, <2>4
      <3> QED BY <2>3, <3>1, <3>2, NumberOfOne DEF V
    <2>5. CASE ~(m < 10)
      <3>1. written[m] = Append(written[m \div 10], Decimals[(m % 10) + 1])
        BY <1>16, <2>3, <2>5
      <3>2. m \div 10 \in 0 .. n /\ m \div 10 < m /\ m % 10 \in 0 .. 9
        BY <2>3, <2>5
      <3>3. written[m \div 10] \in V
        BY <2>2, <3>2 DEF wrong
      <3> QED BY <2>3, <3>1, <3>2, <3>3, NumberAppend DEF V
    <2> QED BY <2>4, <2>5
  <1>18. Writes(written, n)
    <2>1. written = [m \in 0 .. n |-> written[m]]
      BY <1>15
    <2> QED BY <1>16, <1>17, <2>1 DEF Writes, V
  <1> QED BY <1>1, <1>18

\* A length, as encode_frame writes it in front of a frame, is a numeral that is not
\* empty, and int reads it back as the length, for every length: what FramesAssumption
\* says of str and int holds of decimals.
THEOREM LengthIsReadBack ==
    ASSUME NEW n \in Nat
    PROVE  Decimal(n) \in Seq(Digits) \ {<<>>} /\ Number(Decimal(n)) = n
  <1>1. PICK f : Writes(f, n) /\ Decimal(n) = f[n]
    BY DecimalDef
  <1> DEFINE Right(m) == f[m] \in Seq(Digits) \ {<<>>} /\ Number(f[m]) = m
             wrong == {m \in 0 .. n : ~Right(m)}
  <1>2. wrong = {}
    <2> SUFFICES ASSUME wrong # {} PROVE FALSE
      OBVIOUS
    <2>1. wrong \subseteq Nat
      OBVIOUS
    <2> HIDE DEF wrong
    <2>2. PICK m \in wrong : \A k \in wrong : m <= k
      BY <2>1, LeastNumber
    <2>3. m \in 0 .. n /\ ~Right(m)
      BY DEF wrong
    <2>4. CASE m < 10
      <3>1. f[m] = <<Decimals[m + 1]>>
        BY <1>1, <2>3, <2>4 DEF Writes
      <3>2. m \in 0 .. 9
        BY <2>3, <2>4
      <3>3. <<Decimals[m + 1]>> \in Seq(Digits) /\ Number(<<Decimals[m + 1]>>) = m
        BY <3>2, NumberOfOne
      <3> QED BY <2>3, <3>1, <3>3
    <2>5. CASE ~(m < 10)
      <3> DEFINE q == m \div 10
                 d == m % 10
      <3>1. f[m] = Append(f[q], Decimals[d + 1])
        BY <1>1, <2>3, <2>5 DEF Writes
      <3>2. q \in 0 .. n /\ q < m /\ d \in 0 .. 9 /\ m = 10 * q + d
        BY <2>3, <2>5
      <3> HIDE DEF q, d
      <3>3. f[q] \in Seq(Digits) /\ Number(f[q]) = q
        BY <2>2, <2>3, <3>2 DEF wrong
      <3>4. /\ Append(f[q], Decimals[d + 1]) \in Seq(Digits)
            /\ Number(Append(f[q], Decimals[d + 1])) = 10 * Number(f[q]) + d
        BY <3>2, <3>3, NumberAppend
      <3>5. Append(f[q], Decimals[d + 1]) # <<>>
        <4>1. Decimals[d + 1] \in Digits
          BY <3>2, DigitValues
        <4> QED BY <3>3, <4>1, NotEmptied, Zenon
      <3>6. Number(f[m]) = m
        <4>1. Number(f[m]) = 10 * Number(f[q]) + d
          BY <3>1, <3>4, Zenon
        <4>2. 10 * Number(f[q]) + d = 10 * q + d
          BY <3>3, Zenon
        <4> QED BY <3>2, <4>1, <4>2
      <3>7. f[m] \in Seq(Digits) \ {<<>>}
        BY <3>1, <3>4, <3>5, Zenon
      <3> QED BY <2>3, <3>6, <3>7, Zenon
    <2> QED BY <2>4, <2>5
  <1> QED BY <1>1, <1>2
=============================================================================
