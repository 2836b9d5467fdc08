---------------------------- MODULE PagesProofs ----------------------------
(***************************************************************************)
(* Theorems about Pages: page, menu and cursors are well formed, the menu  *)
(* never refuses an index, who browses to the end has read every line, and *)
(* every page that a node or the page before or after offers can be shown  *)
(* if the lines of the node fit.                                           *)
(*                                                                         *)
(* That all is read rests on JoinSinkOrder: the pages have all lines, once *)
(* and in order, and on what PagesInv says of the pages read so far.       *)
(*                                                                         *)
(* The last one says that what Page.joinSink reserves is enough. It rests  *)
(* on JoinSinkFits: the lines put on a page never take more than its room, *)
(* by induction over the lines (as a least counterexample, for the library *)
(* theorems of induction cannot be instantiated here). What is taken at a  *)
(* page is then compared with the limit (RoomyFits), and the invariant     *)
(* PagesInv carries from step to step that the next Flush has what the     *)
(* node gave it, and that a page is offered only where there is one.       *)
(***************************************************************************)
EXTENDS Pages, SumLemmas, SequenceTheorems

-----------------------------------------------------------------------------
(* Lengths.                                                                *)

\* Nothing appended takes nothing.
LEMMA AppendedEmpty == Appended(<<>>) = 0
  <1>1. DOMAIN <<>> = {} /\ Len(<<>>) = 0
    OBVIOUS
  <1>2. SumFunctionOnSet(<<>>, {}) = 0
    BY SumOfPick, FS_EmptySet
  <1>3. QED BY <1>1, <1>2 DEF Appended, SumFunction

\* The length of lines is a number.
LEMMA AppendedType ==
  ASSUME NEW ls \in Seq(Nat)
  PROVE  Appended(ls) \in Nat
  <1>1. DOMAIN ls = 1 .. Len(ls) /\ Len(ls) \in Nat /\ \A i \in 1 .. Len(ls) : ls[i] \in Nat
    OBVIOUS
  <1>2. IsFiniteSet(1 .. Len(ls))
    BY <1>1, FS_Interval
  <1>3. SumFunctionOnSet(ls, 1 .. Len(ls)) \in Nat
    BY <1>1, <1>2, SumType
  <1>4. QED BY <1>1, <1>3 DEF Appended, SumFunction

\* One line more takes its length and a newline.
LEMMA AppendedAppend ==
  ASSUME NEW ls \in Seq(Nat), NEW l \in Nat
  PROVE  Appended(Append(ls, l)) = Appended(ls) + l + 1
  <1> DEFINE ms == Append(ls, l)
             n  == Len(ls) + 1
  <1>1. /\ Len(ms) = n /\ DOMAIN ms = 1 .. n /\ DOMAIN ls = 1 .. Len(ls) /\ Len(ls) \in Nat
        /\ ms[n] = l /\ \A i \in 1 .. Len(ls) : ms[i] = ls[i]
        /\ \A i \in 1 .. n : ms[i] \in Nat
    OBVIOUS
  <1> HIDE DEF ms
  <1>2. IsFiniteSet(1 .. n) /\ IsFiniteSet(1 .. Len(ls))
    BY <1>1, FS_Interval
  <1>3. n \in 1 .. n /\ (1 .. n) \ {n} = 1 .. Len(ls)
    BY <1>1
  <1>4. SumFunctionOnSet(ms, 1 .. n) = l + SumFunctionOnSet(ms, 1 .. Len(ls))
    BY <1>1, <1>2, <1>3, SumOfRest
  <1>5. SumFunctionOnSet(ms, 1 .. Len(ls)) = SumFunctionOnSet(ls, 1 .. Len(ls))
    BY <1>1, <1>2, SumOfEqual
  <1>6. SumFunctionOnSet(ls, 1 .. Len(ls)) \in Nat
    BY <1>1, <1>2, SumType
  <1>7. QED BY <1>1, <1>4, <1>5, <1>6 DEF Appended, SumFunction, ms

-----------------------------------------------------------------------------
(* Joining lines to pages.                                                 *)

\* g has the state of joining ls before and after each of the first n lines.
Joins(g, ls, start, back, n) ==
  g = [k \in 0 .. n |-> IF k = 0 THEN start ELSE Joining(g[k - 1], k, ls[k], back)]

\* The recursion defines a function.
LEMMA JoinsExist ==
  ASSUME NEW ls, NEW start, NEW back, NEW n \in Nat
  PROVE  \E g : Joins(g, ls, start, back, n)
  <1> DEFINE T == {k \in Nat : ~ \E g : Joins(g, ls, start, back, k)}
  <1>1. SUFFICES ASSUME T # {} PROVE FALSE
    OBVIOUS
  <1>2. PICK k \in T : \A j \in T : k <= j
    <2>1. T \subseteq Nat
      OBVIOUS
    <2> HIDE DEF T
    <2>2. QED BY <1>1, <2>1, SmallestNumber
  <1>3. k # 0
    <2> DEFINE h == [j \in 0 .. 0 |-> start]
    <2>1. h = [j \in 0 .. 0 |-> IF j = 0 THEN start ELSE Joining(h[j - 1], j, ls[j], back)]
      OBVIOUS
    <2> HIDE DEF h
    <2>2. Joins(h, ls, start, back, 0)
      BY <2>1 DEF Joins
    <2>3. QED BY <2>2
  <1>4. k - 1 \in Nat /\ k - 1 \notin T
    BY <1>2, <1>3
  <1>5. PICK g : Joins(g, ls, start, back, k - 1)
    BY <1>4
  <1> DEFINE next == Joining(g[k - 1], k, ls[k], back)
             h    == [j \in 0 .. k |-> IF j = k THEN next ELSE g[j]]
  <1>6. ASSUME NEW j \in 0 .. k
        PROVE  h[j] = IF j = 0 THEN start ELSE Joining(h[j - 1], j, ls[j], back)
    <2>1. CASE j = k
      <3>1. h[j] = next /\ h[j - 1] = g[j - 1]
        BY <1>3, <1>4, <2>1
      <3>2. QED BY <1>3, <2>1, <3>1
    <2>2. CASE j # k
      <3>1. j \in 0 .. k - 1
        BY <1>4, <2>2
      <3>2. g[j] = IF j = 0 THEN start ELSE Joining(g[j - 1], j, ls[j], back)
        BY <1>5, <3>1 DEF Joins
      <3>3. h[j] = g[j] /\ (j # 0 => h[j - 1] = g[j - 1])
        BY <1>4, <3>1
      <3> HIDE DEF h
      <3>4. QED BY <3>2, <3>3
    <2>3. QED BY <2>1, <2>2
  <1>7. h = [j \in 0 .. k |-> h[j]]
    OBVIOUS
  <1> HIDE DEF h
  <1>8. Joins(h, ls, start, back, k)
    BY <1>6, <1>7 DEF Joins
  <1>9. QED BY <1>2, <1>8

\* What there is before the first line, and the state after all of them.
JoinStart(ls, remaining, fwd) ==
  [pages |-> <<>>, open |-> <<>>, len |-> 0, ok |-> TRUE,
   net |-> IF Len(ls) > 1 THEN Sub32(Sub32(remaining, 1), fwd)
           ELSE Sub32(remaining, 1)]

\* JoinSink gives the last state of such a function.
LEMMA JoinSinkIs ==
  ASSUME NEW ls \in Seq(Nat), NEW remaining, NEW fwd, NEW back
  PROVE  \E g : /\ Joins(g, ls, JoinStart(ls, remaining, fwd), back, Len(ls))
                /\ JoinSink(ls, remaining, fwd, back) =
                     [ok     |-> g[Len(ls)].ok,
                      closed |-> Len(g[Len(ls)].pages),
                      pages  |-> IF g[Len(ls)].open = <<>> THEN g[Len(ls)].pages
                                 ELSE Append(g[Len(ls)].pages, g[Len(ls)].open)]
  <1> DEFINE g == CHOOSE h : Joins(h, ls, JoinStart(ls, remaining, fwd), back, Len(ls))
  <1>1. Len(ls) \in Nat
    OBVIOUS
  <1>2. Joins(g, ls, JoinStart(ls, remaining, fwd), back, Len(ls))
    BY <1>1, JoinsExist
  <1>3. JoinSink(ls, remaining, fwd, back) =
          [ok     |-> g[Len(ls)].ok,
           closed |-> Len(g[Len(ls)].pages),
           pages  |-> IF g[Len(ls)].open = <<>> THEN g[Len(ls)].pages
                      ELSE Append(g[Len(ls)].pages, g[Len(ls)].open)]
    BY DEF JoinSink, Joins, JoinStart
  <1>4. QED BY <1>2, <1>3

\* Small differences do not wrap.
LEMMA Sub32Small ==
  ASSUME NEW a \in Int, NEW b \in Int, U32 \in Nat, 0 <= a - b, a - b < U32
  PROVE  Sub32(a, b) = a - b
  BY DEF Sub32

\* A difference is a number.
LEMMA Sub32Type ==
  ASSUME NEW a \in Int, NEW b \in Int, U32 \in Nat \ {0}
  PROVE  Sub32(a, b) \in Nat
  BY DEF Sub32

\* The lines that a page shows.
LinesOf(ls, ns) == [j \in DOMAIN ns |-> ls[ns[j]]]

\* They are lines, as many as there are numbers.
LEMMA LinesOfType ==
  ASSUME NEW ls \in Seq(Nat), NEW ns \in Seq(1 .. Len(ls))
  PROVE  /\ LinesOf(ls, ns) \in Seq(Nat) /\ Len(LinesOf(ls, ns)) = Len(ns)
         /\ \A j \in 1 .. Len(ns) : LinesOf(ls, ns)[j] = ls[ns[j]]
  <1>1. DOMAIN ns = 1 .. Len(ns) /\ Len(ns) \in Nat /\ \A i \in DOMAIN ns : ls[ns[i]] \in Nat
    OBVIOUS
  <1>2. QED BY <1>1 DEF LinesOf

\* One line more is shown after the others.
LEMMA LinesOfAppend ==
  ASSUME NEW ls \in Seq(Nat), NEW ns \in Seq(1 .. Len(ls)), NEW i \in 1 .. Len(ls)
  PROVE  LinesOf(ls, Append(ns, i)) = Append(LinesOf(ls, ns), ls[i])
  <1> DEFINE ms   == Append(ns, i)
             then == LinesOf(ls, ms)
             now  == LinesOf(ls, ns)
             n    == Len(ns)
  <1>1. ms \in Seq(1 .. Len(ls)) /\ Len(ms) = n + 1 /\ n \in Nat /\ ls[i] \in Nat
    OBVIOUS
  <1>2. ms[n + 1] = i /\ \A j \in 1 .. n : ms[j] = ns[j]
    OBVIOUS
  <1>3. then \in Seq(Nat) /\ Len(then) = n + 1 /\ now \in Seq(Nat) /\ Len(now) = n
    <2> HIDE DEF ms
    <2>1. QED BY <1>1, LinesOfType
  <1>4. /\ \A j \in 1 .. n + 1 : then[j] = ls[ms[j]]
        /\ \A j \in 1 .. n : now[j] = ls[ns[j]]
    <2> HIDE DEF ms
    <2>1. QED BY <1>1, LinesOfType
  <1> DEFINE l    == ls[i]
             more == Append(now, l)
  <1> HIDE DEF then, now, ms, n, l
  <1>5. l \in Nat
    BY <1>1 DEF l
  <1>6. /\ more \in Seq(Nat) /\ Len(more) = n + 1 /\ more[n + 1] = l
        /\ \A j \in 1 .. n : more[j] = now[j]
    BY ONLY <1>3, <1>5, AppendProperties
  <1> HIDE DEF more
  <1>7. ASSUME NEW j \in 1 .. n + 1 PROVE then[j] = more[j]
    <2>1. CASE j = n + 1
      BY ONLY <1>1, <1>2, <1>4, <1>6, <2>1 DEF l
    <2>2. CASE j # n + 1
      <3>1. j \in 1 .. n
        BY <1>1, <2>2
      <3>2. then[j] = ls[ms[j]] /\ ms[j] = ns[j] /\ now[j] = ls[ns[j]] /\ more[j] = now[j]
        BY <1>2, <1>4, <1>6, <3>1
      <3>3. QED BY <3>2
    <2>3. QED BY <2>1, <2>2
  <1>8. then = more
    BY <1>3, <1>6, <1>7, SeqEqual
  <1>9. QED BY <1>8 DEF then, now, ms, more, l

\* The length of a page, with one line more.
LEMMA JoinedAppend ==
  ASSUME NEW ls \in Seq(Nat), NEW ns \in Seq(1 .. Len(ls)), NEW i \in 1 .. Len(ls)
  PROVE  /\ Joined(ls, ns) \in Nat
         /\ Joined(ls, Append(ns, i)) = Joined(ls, ns) + ls[i] + (IF ns = <<>> THEN 0 ELSE 1)
  <1> DEFINE now == LinesOf(ls, ns)
  <1>1. now \in Seq(Nat) /\ Len(now) = Len(ns) /\ Len(ns) \in Nat /\ ls[i] \in Nat
    BY LinesOfType
  <1>2. Joined(ls, ns) = IF ns = <<>> THEN 0 ELSE Appended(now) - 1
    BY DEF Joined, LinesOf
  <1>3. Joined(ls, Append(ns, i)) = Appended(Append(now, ls[i])) - 1
    <2>1. Append(ns, i) # <<>>
      BY AppendProperties
    <2>2. QED BY <2>1, LinesOfAppend DEF Joined, LinesOf
  <1> HIDE DEF now
  <1>4. Appended(Append(now, ls[i])) = Appended(now) + ls[i] + 1
    BY <1>1, AppendedAppend
  <1>5. Appended(now) \in Nat /\ Appended(now) >= Len(now)
    <2>1. DOMAIN now = 1 .. Len(now) /\ \A j \in DOMAIN now : now[j] \in Nat
      <3>1. DOMAIN now = 1 .. Len(now)
        BY <1>1, LenProperties, Zenon
      <3>2. \A j \in 1 .. Len(now) : now[j] \in Nat
        BY <1>1, ElementOfSeq, Zenon
      <3>3. QED BY <3>1, <3>2, Zenon
    <2>2. IsFiniteSet(DOMAIN now)
      BY <1>1, <2>1, FS_Interval
    <2>3. SumFunction(now) \in Nat
      BY <2>1, <2>2, SumType DEF SumFunction
    <2>4. QED BY <1>1, <2>3 DEF Appended
  <1>6. CASE ns = <<>>
    <2>1. now = <<>>
      BY <1>1, <1>6
    <2>2. Appended(now) = 0
      BY <2>1, AppendedEmpty
    <2> DEFINE l    == ls[i]
               more == Append(now, ls[i])
               all  == Joined(ls, Append(ns, i))
    <2>3. l \in Nat /\ Joined(ls, ns) = 0 /\ all = Appended(more) - 1 /\ Appended(more) = l + 1
      BY <1>1, <1>2, <1>3, <1>4, <1>6, <2>2
    <2> HIDE DEF l, more, all
    <2>4. QED BY <1>6, <2>3 DEF l, all
  <1>7. CASE ns # <<>>
    <2>1. Len(ns) > 0
      BY <1>7
    <2> DEFINE l    == ls[i]
               more == Append(now, ls[i])
               all  == Joined(ls, Append(ns, i))
               was  == Joined(ls, ns)
               long == Appended(now)
    <2>2. l \in Nat /\ long \in Nat /\ long >= 1 /\ was = long - 1
      BY <1>1, <1>2, <1>5, <1>7, <2>1
    <2>3. all = Appended(more) - 1 /\ Appended(more) = long + l + 1
      BY <1>3, <1>4
    <2> HIDE DEF l, more, all, was, long
    <2>4. was \in Nat /\ all = was + l + 1
      BY <2>2, <2>3
    <2>5. QED BY <1>7, <2>4 DEF was, all, l
  <1>8. QED BY <1>6, <1>7

\* States of joining are records, of pages P with lines O.
JoinRecord(P, O) == [pages : P, open : O, len : Nat, ok : BOOLEAN, net : Int]

\* The states of joining ls, and how many pages they have begun.
JoinState(ls) == JoinRecord(Seq(Seq(1 .. Len(ls))), Seq(1 .. Len(ls)))

Started(s) == Len(s.pages) + (IF s.open = <<>> THEN 0 ELSE 1)

\* What such a state has.
LEMMA JoinStateFields ==
  ASSUME NEW ls, NEW s \in JoinState(ls)
  PROVE  /\ s.pages \in Seq(Seq(1 .. Len(ls))) /\ s.open \in Seq(1 .. Len(ls))
         /\ s.len \in Nat /\ s.ok \in BOOLEAN /\ s.net \in Int
         /\ Len(s.pages) \in Nat /\ Started(s) \in Nat
         /\ Len(s.pages) <= Started(s) /\ Started(s) <= Len(s.pages) + 1
  <1>1. /\ s.pages \in Seq(Seq(1 .. Len(ls))) /\ s.open \in Seq(1 .. Len(ls))
        /\ s.len \in Nat /\ s.ok \in BOOLEAN /\ s.net \in Int
    <2> DEFINE P == Seq(Seq(1 .. Len(ls)))
               O == Seq(1 .. Len(ls))
    <2> HIDE DEF P, O
    <2>1. QED BY DEF JoinState, JoinRecord, P, O
  <1>2. Len(s.pages) \in Nat
    BY <1>1
  <1>3. /\ Started(s) \in Nat
        /\ Len(s.pages) <= Started(s) /\ Started(s) <= Len(s.pages) + 1
    <2>1. CASE s.open = <<>>
      BY <1>2, <2>1 DEF Started
    <2>2. CASE s.open # <<>>
      BY <1>2, <2>2 DEF Started
    <2>3. QED BY <2>1, <2>2
  <1>4. QED BY <1>1, <1>2, <1>3

\* A page closed.
LEMMA ClosedIs ==
  ASSUME NEW ls, NEW s \in JoinState(ls), NEW back \in Int, U32 \in Nat \ {0}
  PROVE  /\ Closed(s, back) \in JoinState(ls)
         /\ Closed(s, back).pages = Append(s.pages, s.open)
         /\ Closed(s, back).open = <<>> /\ Closed(s, back).len = 0
         /\ Closed(s, back).ok = s.ok
         /\ Closed(s, back).net = IF s.pages = <<>> THEN Sub32(s.net, back) ELSE s.net
  <1> DEFINE P == Seq(Seq(1 .. Len(ls)))
             O == Seq(1 .. Len(ls))
             p == Append(s.pages, s.open)
             n == IF s.pages = <<>> THEN Sub32(s.net, back) ELSE s.net
  <1>1. p \in P
    <2>1. s.pages \in Seq(Seq(1 .. Len(ls))) /\ s.open \in Seq(1 .. Len(ls))
      BY JoinStateFields
    <2>2. QED BY <2>1, AppendProperties
  <1>2. n \in Int
    <2>1. s.net \in Int
      BY JoinStateFields
    <2>2. Sub32(s.net, back) \in Nat
      BY ONLY <2>1, back \in Int, U32 \in Nat \ {0}, Sub32Type
    <2>3. QED BY ONLY <2>1, <2>2
  <1>3. Closed(s, back) = [s EXCEPT !.pages = p, !.open = <<>>, !.len = 0, !.net = n]
    BY DEF Closed
  <1>4. <<>> \in O /\ s \in JoinRecord(P, O)
    BY DEF JoinState
  <1> DEFINE t == Closed(s, back)
  <1> HIDE DEF p, n, t, P, O
  <1>5. /\ t \in JoinRecord(P, O)
        /\ t.pages = p /\ t.open = <<>> /\ t.len = 0 /\ t.ok = s.ok /\ t.net = n
    <2>1. t = [s EXCEPT !.pages = p, !.open = <<>>, !.len = 0, !.net = n]
      BY <1>3 DEF t
    <2>2. QED BY ONLY <1>1, <1>2, <1>4, <2>1 DEF JoinRecord
  <1>6. Closed(s, back) \in JoinState(ls)
    BY <1>5 DEF JoinState, P, O, t
  <1>7. QED BY <1>5, <1>6 DEF p, n, t

\* A line put.
LEMMA PutIs ==
  ASSUME NEW ls \in Seq(Nat), NEW s \in JoinState(ls), NEW k \in 1 .. Len(ls)
  PROVE  /\ Put(s, k, ls[k]) \in JoinState(ls)
         /\ Put(s, k, ls[k]).pages = s.pages /\ Put(s, k, ls[k]).ok = s.ok
         /\ Put(s, k, ls[k]).net = s.net
         /\ IF s.open = <<>> /\ ls[k] = 0
            THEN Put(s, k, ls[k]).open = s.open /\ Put(s, k, ls[k]).len = s.len
            ELSE /\ Put(s, k, ls[k]).open = Append(s.open, k)
                 /\ Put(s, k, ls[k]).len = s.len + ls[k] + (IF s.open = <<>> THEN 0 ELSE 1)
  <1>1. CASE s.open = <<>> /\ ls[k] = 0
    BY <1>1 DEF Put
  <1>2. CASE ~(s.open = <<>> /\ ls[k] = 0)
    <2> DEFINE P == Seq(Seq(1 .. Len(ls)))
               O == Seq(1 .. Len(ls))
               o == Append(s.open, k)
               n == s.len + ls[k] + (IF s.open = <<>> THEN 0 ELSE 1)
    <2>1. s.open \in Seq(1 .. Len(ls)) /\ s.len \in Nat /\ ls[k] \in Nat /\ s.pages \in P
      BY JoinStateFields
    <2>2. o \in O
      BY <2>1, AppendProperties
    <2>3. n \in Nat
      BY <2>1
    <2>4. Put(s, k, ls[k]) = [s EXCEPT !.open = o, !.len = n]
      BY <1>2 DEF Put
    <2>5. s \in JoinRecord(P, O)
      BY DEF JoinState
    <2> DEFINE t == Put(s, k, ls[k])
    <2> HIDE DEF o, n, P, O, t
    <2>6. /\ t \in JoinRecord(P, O)
          /\ t.pages = s.pages /\ t.open = o /\ t.len = n /\ t.ok = s.ok /\ t.net = s.net
      <3>1. t = [s EXCEPT !.open = o, !.len = n]
        BY <2>4 DEF t
      <3>2. QED BY ONLY <2>2, <2>3, <2>5, <3>1 DEF JoinRecord
    <2>7. Put(s, k, ls[k]) \in JoinState(ls)
      BY <2>6 DEF JoinState, P, O, t
    <2>8. QED BY <1>2, <2>6, <2>7 DEF o, n, t
  <1>3. QED BY <1>1, <1>2

\* A line that does not fit an empty page.
LEMMA FailedIs ==
  ASSUME NEW ls, NEW s \in JoinState(ls)
  PROVE  /\ [s EXCEPT !.ok = FALSE] \in JoinState(ls)
         /\ Started([s EXCEPT !.ok = FALSE]) = Started(s)
  <1> DEFINE P == Seq(Seq(1 .. Len(ls)))
             O == Seq(1 .. Len(ls))
             t == [s EXCEPT !.ok = FALSE]
  <1>1. s \in JoinRecord(P, O)
    BY DEF JoinState
  <1>2. t = [s EXCEPT !.ok = FALSE]
    OBVIOUS
  <1> HIDE DEF P, O, t
  <1>3. t \in JoinRecord(P, O) /\ t.pages = s.pages /\ t.open = s.open
    BY ONLY <1>1, <1>2 DEF JoinRecord
  <1>4. QED BY <1>3 DEF JoinState, P, O, t, Started

\* A line joined: nothing fits after one that did not, or it is put on a new page, or on
\* the one open.
LEMMA JoiningIs ==
  ASSUME NEW s, NEW k, NEW l, NEW back
  PROVE  LET over == s.len + l > Sub32(s.net, 1)
         IN  \/ /\ ~s.ok \/ (over /\ s.open = <<>>)
                /\ Joining(s, k, l, back) = [s EXCEPT !.ok = FALSE]
             \/ /\ s.ok /\ over /\ s.open # <<>>
                /\ Joining(s, k, l, back) = Put(Closed(s, back), k, l)
             \/ s.ok /\ ~over /\ Joining(s, k, l, back) = Put(s, k, l)
  BY DEF Joining

\* Joining keeps the state well formed, and k lines begin at most k pages.
LEMMA JoiningType ==
  ASSUME NEW ls \in Seq(Nat), NEW s \in JoinState(ls), NEW k \in 1 .. Len(ls),
         NEW back \in Int, U32 \in Nat \ {0}, Started(s) <= k - 1
  PROVE  /\ Joining(s, k, ls[k], back) \in JoinState(ls)
         /\ Started(Joining(s, k, ls[k], back)) <= k
  <1> DEFINE c == Closed(s, back)
             f == [s EXCEPT !.ok = FALSE]
             j == Joining(s, k, ls[k], back)
  <1>1. k \in Int /\ Len(s.pages) \in Nat /\ Started(s) \in Nat /\ Len(s.pages) <= Started(s)
    BY JoinStateFields
  <1>2. Len(s.pages) <= k - 1 /\ Started(s) <= k
    BY ONLY <1>1, Started(s) <= k - 1
  <1>3. ASSUME NEW t \in JoinState(ls), Len(t.pages) <= k - 1
        PROVE  Put(t, k, ls[k]) \in JoinState(ls) /\ Started(Put(t, k, ls[k])) <= k
    <2> DEFINE p == Put(t, k, ls[k])
    <2>1. p \in JoinState(ls) /\ p.pages = t.pages
      BY PutIs
    <2> HIDE DEF p
    <2>2. Started(p) <= Len(p.pages) + 1 /\ Len(p.pages) \in Nat /\ Started(p) \in Nat
      BY <2>1, JoinStateFields
    <2>3. Started(p) <= k
      BY ONLY <1>1, <1>3, <2>1, <2>2
    <2>4. QED BY <2>1, <2>3 DEF p
  <1>4. f \in JoinState(ls) /\ Started(f) <= k
    BY <1>2, FailedIs
  <1>5. Put(s, k, ls[k]) \in JoinState(ls) /\ Started(Put(s, k, ls[k])) <= k
    BY <1>2, <1>3
  <1>6. ASSUME s.open # <<>>
        PROVE  Put(c, k, ls[k]) \in JoinState(ls) /\ Started(Put(c, k, ls[k])) <= k
    <2>1. s.pages \in Seq(Seq(1 .. Len(ls))) /\ s.open \in Seq(1 .. Len(ls))
      BY JoinStateFields
    <2>2. c \in JoinState(ls) /\ c.pages = Append(s.pages, s.open)
      BY ClosedIs
    <2>3. Len(c.pages) = Len(s.pages) + 1
      BY ONLY <2>1, <2>2, AppendProperties
    <2>4. Started(s) = Len(s.pages) + 1
      BY <1>6 DEF Started
    <2> HIDE DEF c
    <2>5. Len(c.pages) <= k - 1
      BY ONLY <1>1, <2>3, <2>4, Started(s) <= k - 1
    <2>6. QED BY <1>3, <2>2, <2>5
  <1>7. j = f \/ (s.open # <<>> /\ j = Put(c, k, ls[k])) \/ j = Put(s, k, ls[k])
    BY JoiningIs
  <1> HIDE DEF c, f, j
  <1>8. j \in JoinState(ls) /\ Started(j) <= k
    BY <1>4, <1>5, <1>6, <1>7
  <1>9. QED BY <1>8 DEF j

\* Every page so far has its room: the first one net, the others, which have a way back
\* to the page before, net - back.
Fits(s, ls, net, back) ==
  /\ s.ok
  /\ s.len = Joined(ls, s.open) /\ s.len <= s.net
  /\ s.net = IF s.pages = <<>> THEN net ELSE net - back
  /\ \A j \in 1 .. Len(s.pages) :
       Joined(ls, s.pages[j]) <= IF j = 1 THEN net ELSE net - back

\* A line put where there is room.
LEMMA PutFits ==
  ASSUME NEW ls \in Seq(Nat), NEW s \in JoinState(ls), NEW k \in 1 .. Len(ls),
         NEW net, NEW back, Fits(s, ls, net, back),
         s.len + ls[k] + (IF s.open = <<>> THEN 0 ELSE 1) <= s.net
  PROVE  Fits(Put(s, k, ls[k]), ls, net, back)
  <1> DEFINE p == Put(s, k, ls[k])
             l == ls[k]
             o == s.open
  <1>1. p.pages = s.pages /\ p.ok = s.ok /\ p.net = s.net
    BY PutIs
  <1>2. p.len = Joined(ls, p.open) /\ p.len <= p.net
    <2>1. CASE o = <<>> /\ l = 0
      <3>1. p.open = s.open /\ p.len = s.len
        BY <2>1, PutIs
      <3>2. QED BY <1>1, <3>1 DEF Fits
    <2>2. CASE ~(o = <<>> /\ l = 0)
      <3>1. p.open = Append(s.open, k) /\ p.len = s.len + l + (IF s.open = <<>> THEN 0 ELSE 1)
        BY <2>2, PutIs
      <3>2. Joined(ls, Append(s.open, k)) =
              Joined(ls, s.open) + l + (IF s.open = <<>> THEN 0 ELSE 1)
        <4>1. s.open \in Seq(1 .. Len(ls))
          BY JoinStateFields
        <4>2. QED BY <4>1, JoinedAppend
      <3>3. s.len = Joined(ls, s.open)
        BY DEF Fits
      <3> HIDE DEF p, l
      <3>4. p.len = Joined(ls, p.open)
        BY ONLY <3>1, <3>2, <3>3
      <3>5. p.len <= p.net
        BY <1>1, <3>1 DEF l
      <3>6. QED BY <3>4, <3>5
    <2>3. QED BY <2>1, <2>2
  <1> HIDE DEF p
  <1>3. Fits(p, ls, net, back)
    BY <1>1, <1>2 DEF Fits
  <1>4. QED BY <1>3 DEF p

\* An empty page has no length.
LEMMA JoinedNone == \A ls : Joined(ls, <<>>) = 0
  BY DEF Joined

\* A page closed.
LEMMA ClosedFits ==
  ASSUME NEW ls \in Seq(Nat), NEW s \in JoinState(ls), NEW net \in Nat, NEW back \in Nat,
         U32 \in Nat \ {0}, net < U32, back < net, Fits(s, ls, net, back)
  PROVE  /\ Fits(Closed(s, back), ls, net, back)
         /\ Closed(s, back).len = 0 /\ Closed(s, back).open = <<>>
         /\ Closed(s, back).net = net - back
  <1> DEFINE c == Closed(s, back)
             n == Len(s.pages)
  <1>1. /\ s.pages \in Seq(Seq(1 .. Len(ls))) /\ s.open \in Seq(1 .. Len(ls)) /\ n \in Nat
    BY JoinStateFields
  <1>2. /\ c.pages = Append(s.pages, s.open) /\ c.open = <<>> /\ c.len = 0 /\ c.ok = s.ok
        /\ c.net = IF s.pages = <<>> THEN Sub32(s.net, back) ELSE s.net
    <2>1. back \in Int
      OBVIOUS
    <2>2. QED BY <2>1, ClosedIs
  <1> HIDE DEF c
  <1>3. c.net = net - back
    <2>1. Sub32(net, back) = net - back
      BY Sub32Small
    <2>2. QED BY <1>2, <2>1 DEF Fits
  <1>4. /\ Len(c.pages) = n + 1 /\ c.pages # <<>> /\ c.pages[n + 1] = s.open
        /\ \A j \in 1 .. n : c.pages[j] = s.pages[j]
    <2> DEFINE S == Seq(1 .. Len(ls))
               p == s.pages
               o == s.open
    <2>1. p \in Seq(S) /\ o \in S /\ c.pages = Append(p, o)
      BY <1>1, <1>2
    <2> HIDE DEF S, p, o, n
    <2>2. /\ Len(c.pages) = Len(p) + 1 /\ c.pages # <<>> /\ c.pages[Len(p) + 1] = o
          /\ \A j \in 1 .. Len(p) : c.pages[j] = p[j]
      BY ONLY <2>1, AppendProperties
    <2>3. QED BY <2>2 DEF n, p, o
  <1>5. Joined(ls, s.open) <= IF n + 1 = 1 THEN net ELSE net - back
    <2>1. s.pages = <<>> <=> n = 0
      BY <1>1
    <2> HIDE DEF n
    <2>2. QED BY <1>1, <2>1 DEF Fits
  <1>6. ASSUME NEW j \in 1 .. n + 1
        PROVE  Joined(ls, c.pages[j]) <= IF j = 1 THEN net ELSE net - back
    <2>1. CASE j = n + 1
      BY <1>4, <1>5, <2>1
    <2>2. CASE j \in 1 .. n
      BY <1>4, <2>2 DEF Fits
    <2>3. j = n + 1 \/ j \in 1 .. n
      <3> HIDE DEF n
      <3>1. QED BY ONLY <1>1
    <2>4. QED BY <2>1, <2>2, <2>3
  <1>7. c.ok /\ c.len = Joined(ls, c.open) /\ c.len <= c.net
    <2>1. 0 <= net - back
      OBVIOUS
    <2>2. QED BY <1>2, <1>3, <2>1, JoinedNone DEF Fits
  <1>8. Fits(c, ls, net, back)
    BY <1>3, <1>4, <1>6, <1>7 DEF Fits
  <1>9. QED BY <1>2, <1>3, <1>8 DEF c

\* A line joined, which would fit on a page of its own.
LEMMA JoiningFits ==
  ASSUME NEW ls \in Seq(Nat), NEW s \in JoinState(ls), NEW k \in 1 .. Len(ls),
         NEW net \in Nat, NEW back \in Nat, U32 \in Nat \ {0}, net < U32, back < net,
         ls[k] < net - back, Fits(s, ls, net, back)
  PROVE  Fits(Joining(s, k, ls[k], back), ls, net, back)
  <1> DEFINE c == Closed(s, back)
             l == ls[k]
             j == Joining(s, k, ls[k], back)
  <1>1. s.len \in Nat /\ l \in Nat /\ s.net \in {net, net - back}
    <2>1. s.len \in Nat
      BY JoinStateFields
    <2>2. QED BY <2>1 DEF Fits
  <1>2. Sub32(s.net, 1) = s.net - 1
    <2>1. s.net \in Int /\ 0 <= s.net - 1 /\ s.net - 1 < U32
      BY <1>1
    <2>2. QED BY ONLY <2>1, U32 \in Nat \ {0}, Sub32Small
  <1>3. s.open = <<>> => s.len = 0
    BY JoinedNone DEF Fits
  <1>4. CASE s.len + l > Sub32(s.net, 1)
    <2>1. s.open # <<>> /\ s.ok
      <3>1. l <= s.net - 1 /\ s.ok
        BY <1>1 DEF Fits
      <3> HIDE DEF l
      <3>2. QED BY ONLY <1>1, <1>2, <1>3, <1>4, <3>1
    <2>2. j = Put(c, k, ls[k])
      BY <1>4, <2>1, JoiningIs
    <2>3. Fits(c, ls, net, back) /\ c.len = 0 /\ c.open = <<>> /\ c.net = net - back
      BY ClosedFits
    <2>4. c \in JoinState(ls)
      <3>1. back \in Int
        OBVIOUS
      <3>2. QED BY <3>1, ClosedIs
    <2> HIDE DEF c, j
    <2>5. c.len + ls[k] + (IF c.open = <<>> THEN 0 ELSE 1) <= c.net
      BY <1>1, <2>3
    <2>6. Fits(Put(c, k, ls[k]), ls, net, back)
      BY <2>3, <2>4, <2>5, PutFits
    <2>7. QED BY <2>2, <2>6 DEF j
  <1>5. CASE ~(s.len + l > Sub32(s.net, 1))
    <2>1. s.ok
      BY DEF Fits
    <2>2. j = Put(s, k, ls[k])
      BY <1>5, <2>1, JoiningIs
    <2>3. s.len + ls[k] + (IF s.open = <<>> THEN 0 ELSE 1) <= s.net
      BY <1>1, <1>2, <1>5
    <2>4. Fits(Put(s, k, ls[k]), ls, net, back)
      BY <2>3, PutFits
    <2>5. QED BY <2>2, <2>4
  <1>6. QED BY <1>4, <1>5

\* What joining starts with.
LEMMA JoinStartType ==
  ASSUME NEW ls \in Seq(Nat), NEW remaining \in Int, NEW fwd \in Nat,
         U32 \in Nat \ {0}
  PROVE  /\ JoinStart(ls, remaining, fwd) \in JoinState(ls)
         /\ Started(JoinStart(ls, remaining, fwd)) = 0
  <1> DEFINE P == Seq(Seq(1 .. Len(ls)))
             O == Seq(1 .. Len(ls))
             n == IF Len(ls) > 1 THEN Sub32(Sub32(remaining, 1), fwd)
                  ELSE Sub32(remaining, 1)
             s == JoinStart(ls, remaining, fwd)
  <1>1. n \in Int
    <2>1. fwd \in Int
      OBVIOUS
    <2>2. Sub32(remaining, 1) \in Nat
      <3>1. remaining \in Int /\ 1 \in Int
        OBVIOUS
      <3>2. QED BY <3>1, Sub32Type
    <2> DEFINE a == Sub32(remaining, 1)
    <2> HIDE DEF a
    <2>3. Sub32(a, fwd) \in Nat
      <3>1. a \in Int
        BY <2>2 DEF a
      <3>2. QED BY <2>1, <3>1, Sub32Type
    <2>4. QED BY ONLY <2>2, <2>3 DEF a
  <1>2. <<>> \in P /\ <<>> \in O
    OBVIOUS
  <1>3. s = [pages |-> <<>>, open |-> <<>>, len |-> 0, ok |-> TRUE, net |-> n]
    BY DEF JoinStart
  <1> HIDE DEF n, P, O, s
  <1>4. s \in JoinRecord(P, O)
    BY <1>1, <1>2, <1>3 DEF JoinRecord
  <1>5. Len(s.pages) = 0 /\ s.open = <<>>
    BY <1>3
  <1>6. QED BY <1>4, <1>5 DEF JoinState, Started, P, O, s

\* The states on the way are well formed.
LEMMA JoinsType ==
  ASSUME NEW ls \in Seq(Nat), NEW start \in JoinState(ls), Started(start) = 0,
         NEW back \in Int, U32 \in Nat \ {0}, NEW g, Joins(g, ls, start, back, Len(ls))
  PROVE  \A k \in 0 .. Len(ls) : g[k] \in JoinState(ls) /\ Started(g[k]) <= k
  <1> DEFINE T == {k \in 0 .. Len(ls) : ~(g[k] \in JoinState(ls) /\ Started(g[k]) <= k)}
  <1>1. SUFFICES ASSUME T # {} PROVE FALSE
    OBVIOUS
  <1>2. PICK k \in T : \A j \in T : k <= j
    <2>1. T \subseteq Nat
      OBVIOUS
    <2> HIDE DEF T
    <2>2. QED BY <1>1, <2>1, SmallestNumber
  <1>3. Len(ls) \in Nat /\ k \in 0 .. Len(ls)
    OBVIOUS
  <1>4. g[k] = IF k = 0 THEN start ELSE Joining(g[k - 1], k, ls[k], back)
    BY <1>3 DEF Joins
  <1>5. k # 0
    <2>1. k = 0 => g[k] \in JoinState(ls) /\ Started(g[k]) <= k
      BY <1>4
    <2>2. QED BY <2>1
  <1>6. k - 1 \in 0 .. Len(ls) /\ k \in 1 .. Len(ls) /\ k - 1 \notin T
    BY <1>2, <1>3, <1>5
  <1>7. g[k - 1] \in JoinState(ls) /\ Started(g[k - 1]) <= k - 1
    BY <1>6
  <1> HIDE DEF T
  <1>8. /\ Joining(g[k - 1], k, ls[k], back) \in JoinState(ls)
        /\ Started(Joining(g[k - 1], k, ls[k], back)) <= k
    BY <1>6, <1>7, JoiningType
  <1>9. QED BY <1>2, <1>4, <1>5, <1>8 DEF T

\* The states on the way have room for every page.
LEMMA JoinsFit ==
  ASSUME NEW ls \in Seq(Nat), NEW start \in JoinState(ls), Started(start) = 0,
         NEW net \in Nat, NEW back \in Nat, U32 \in Nat \ {0}, net < U32, back < net,
         \A i \in 1 .. Len(ls) : ls[i] < net - back, Fits(start, ls, net, back),
         NEW g, Joins(g, ls, start, back, Len(ls))
  PROVE  \A k \in 0 .. Len(ls) : Fits(g[k], ls, net, back)
  <1> DEFINE T == {k \in 0 .. Len(ls) : ~Fits(g[k], ls, net, back)}
  <1>1. SUFFICES ASSUME T # {} PROVE FALSE
    OBVIOUS
  <1>2. PICK k \in T : \A j \in T : k <= j
    <2>1. T \subseteq Nat
      OBVIOUS
    <2> HIDE DEF T
    <2>2. QED BY <1>1, <2>1, SmallestNumber
  <1>3. Len(ls) \in Nat /\ k \in 0 .. Len(ls)
    OBVIOUS
  <1>4. g[k] = IF k = 0 THEN start ELSE Joining(g[k - 1], k, ls[k], back)
    BY <1>3 DEF Joins
  <1>5. k # 0
    BY <1>4
  <1>6. k - 1 \in 0 .. Len(ls) /\ k \in 1 .. Len(ls) /\ k - 1 \notin T
    BY <1>2, <1>3, <1>5
  <1>7. Fits(g[k - 1], ls, net, back)
    BY <1>6
  <1> HIDE DEF T
  <1>8. g[k - 1] \in JoinState(ls)
    <2>1. back \in Int
      OBVIOUS
    <2>2. QED BY <1>6, <2>1, JoinsType
  <1>9. Fits(Joining(g[k - 1], k, ls[k], back), ls, net, back)
    BY <1>6, <1>7, <1>8, JoiningFits
  <1>10. QED BY <1>2, <1>4, <1>5, <1>9 DEF T

\* What JoinSink gives, whether or not the lines fit.
LEMMA JoinSinkType ==
  ASSUME NEW ls \in Seq(Nat), NEW remaining \in Int, NEW fwd \in Nat, NEW back \in Nat,
         U32 \in Nat \ {0}
  PROVE  LET j == JoinSink(ls, remaining, fwd, back)
         IN  /\ j.ok \in BOOLEAN /\ j.closed \in Nat /\ j.pages \in Seq(Seq(1 .. Len(ls)))
             /\ Len(j.pages) \in {j.closed, j.closed + 1} /\ Len(j.pages) <= Len(ls)
  <1> DEFINE start == JoinStart(ls, remaining, fwd)
             j     == JoinSink(ls, remaining, fwd, back)
             n     == Len(ls)
  <1>1. PICK g : /\ Joins(g, ls, start, back, n)
                 /\ j = [ok     |-> g[n].ok,
                         closed |-> Len(g[n].pages),
                         pages  |-> IF g[n].open = <<>> THEN g[n].pages
                                    ELSE Append(g[n].pages, g[n].open)]
    BY JoinSinkIs
  <1>2. start \in JoinState(ls) /\ Started(start) = 0
    BY JoinStartType
  <1>3. back \in Int /\ n \in Nat
    OBVIOUS
  <1> HIDE DEF start, j
  <1>4. g[n] \in JoinState(ls) /\ Started(g[n]) <= n
    BY <1>1, <1>2, <1>3, JoinsType
  <1> DEFINE s == g[n]
             S == Seq(1 .. n)
  <1>5. s.pages \in Seq(S) /\ s.open \in S /\ s.ok \in BOOLEAN /\ Len(s.pages) \in Nat
    BY <1>4, JoinStateFields
  <1>6. j.ok = s.ok /\ j.closed = Len(s.pages)
        /\ j.pages = IF s.open = <<>> THEN s.pages ELSE Append(s.pages, s.open)
    BY <1>1
  <1> HIDE DEF s, S, n
  <1>7. j.pages \in Seq(S) /\ Len(j.pages) = Started(s) /\ Started(s) \in {j.closed, j.closed + 1}
    <2>1. CASE s.open = <<>>
      BY ONLY <1>5, <1>6, <2>1 DEF Started
    <2>2. CASE s.open # <<>>
      <3>1. /\ Append(s.pages, s.open) \in Seq(S)
            /\ Len(Append(s.pages, s.open)) = Len(s.pages) + 1
        BY ONLY <1>5, AppendProperties
      <3>2. QED BY ONLY <1>5, <1>6, <2>2, <3>1 DEF Started
    <2>3. QED BY <2>1, <2>2
  <1>8. QED BY <1>4, <1>5, <1>6, <1>7 DEF j, s, S, n

\* Where every line fits on a page with both browse items, there is an answer, and
\* every page has its room.
LEMMA JoinSinkFits ==
  ASSUME NEW ls \in Seq(Nat), NEW remaining \in Nat, NEW fwd \in Nat, NEW back \in Nat,
         U32 \in Nat \ {0}, remaining < U32,
         remaining - 1 - fwd - back > 0,
         \A i \in 1 .. Len(ls) : ls[i] < remaining - 1 - fwd - back
  PROVE  LET j   == JoinSink(ls, remaining, fwd, back)
             net == IF Len(ls) > 1 THEN remaining - 1 - fwd ELSE remaining - 1
         IN  /\ j.ok
             /\ \A i \in 1 .. Len(j.pages) :
                  Joined(ls, j.pages[i]) <= IF i = 1 THEN net ELSE net - back
  <1> DEFINE start == JoinStart(ls, remaining, fwd)
             j     == JoinSink(ls, remaining, fwd, back)
             n     == Len(ls)
             net   == IF n > 1 THEN remaining - 1 - fwd ELSE remaining - 1
  <1>1. PICK g : /\ Joins(g, ls, start, back, n)
                 /\ j = [ok     |-> g[n].ok,
                         closed |-> Len(g[n].pages),
                         pages  |-> IF g[n].open = <<>> THEN g[n].pages
                                    ELSE Append(g[n].pages, g[n].open)]
    BY JoinSinkIs
  <1>2. start \in JoinState(ls) /\ Started(start) = 0
    <2>1. remaining \in Int
      OBVIOUS
    <2>2. QED BY <2>1, JoinStartType
  <1>3. back \in Nat /\ fwd \in Nat /\ n \in Nat /\ \A i \in 1 .. n : ls[i] \in Nat
    OBVIOUS
  <1>4. start.pages = <<>> /\ start.open = <<>> /\ start.len = 0 /\ start.ok
        /\ start.net = IF n > 1 THEN Sub32(Sub32(remaining, 1), fwd) ELSE Sub32(remaining, 1)
    BY DEF JoinStart
  <1>5. remaining - 1 - fwd - back > 0 /\ \A i \in 1 .. n : ls[i] < remaining - 1 - fwd - back
    OBVIOUS
  <1> HIDE DEF start, j, n
  <1>6. net \in Nat /\ net < U32 /\ back < net
    BY <1>3, <1>5
  <1>7. \A i \in 1 .. n : ls[i] < net - back
    BY <1>3, <1>5
  <1>8. start.net = net
    <2>1. Sub32(remaining, 1) = remaining - 1
      BY <1>3, <1>5, Sub32Small
    <2>2. Sub32(remaining - 1, fwd) = remaining - 1 - fwd
      BY <1>3, <1>5, Sub32Small
    <2>3. QED BY <1>4, <2>1, <2>2
  <1> HIDE DEF net
  <1>9. Fits(start, ls, net, back)
    <2>1. Joined(ls, <<>>) = 0 /\ Len(<<>>) = 0
      BY JoinedNone
    <2>2. \A i \in 1 .. Len(start.pages) : FALSE
      BY <1>4
    <2>3. QED BY <1>4, <1>6, <1>8, <2>1, <2>2 DEF Fits
  <1>10. g[n] \in JoinState(ls) /\ Fits(g[n], ls, net, back)
    <2>1. n \in 0 .. n /\ back \in Int
      BY <1>3
    <2>2. g[n] \in JoinState(ls)
      BY <1>1, <1>2, <2>1, JoinsType DEF n
    <2>3. Fits(g[n], ls, net, back)
      BY <1>1, <1>2, <1>3, <1>6, <1>7, <1>9, <2>1, JoinsFit DEF n
    <2>4. QED BY <2>2, <2>3
  <1> DEFINE s == g[n]
             c == Closed(s, back)
  <1>11. j.ok /\ j.pages = IF s.open = <<>> THEN s.pages ELSE c.pages
    <2>1. c.pages = Append(s.pages, s.open)
      <3>1. back \in Int
        BY <1>3
      <3>2. QED BY <1>10, <3>1, ClosedIs
    <2>2. s.ok
      BY <1>10 DEF Fits
    <2> HIDE DEF s, c
    <2>3. QED BY <1>1, <2>1, <2>2 DEF s
  <1>12. Fits(c, ls, net, back)
    BY <1>3, <1>6, <1>10, ClosedFits
  <1>13. \A i \in 1 .. Len(j.pages) :
           Joined(ls, j.pages[i]) <= IF i = 1 THEN net ELSE net - back
    <2> HIDE DEF s, c
    <2>1. QED BY <1>10, <1>11, <1>12 DEF Fits, s
  <1>14. QED BY <1>11, <1>13 DEF j, net, n

-----------------------------------------------------------------------------
(* The lines on the pages.                                                 *)

\* Pages P of the first k of lines ls: every line is once on them, in order, but for
\* blank lines at the top of a page.
InOrder(P, ls, k) ==
  /\ \A p, q \in 1 .. Len(P) : \A i \in DOMAIN P[p], j \in DOMAIN P[q] :
       p < q \/ (p = q /\ i < j) => P[p][i] < P[q][j]
  /\ \A p \in 1 .. Len(P) : \A i \in DOMAIN P[p] : P[p][i] <= k
  /\ \A m \in 1 .. k : ls[m] = 0 \/ \E p \in 1 .. Len(P) : \E i \in DOMAIN P[p] : P[p][i] = m

\* What appending a page to pages of some lines gives.
LEMMA PageAppended ==
  ASSUME NEW N \in Nat, NEW P \in Seq(Seq(1 .. N)), NEW o \in Seq(1 .. N)
  PROVE  /\ Append(P, o) \in Seq(Seq(1 .. N)) /\ Len(P) \in Nat
         /\ Len(Append(P, o)) = Len(P) + 1 /\ Append(P, o)[Len(P) + 1] = o
         /\ \A p \in 1 .. Len(P) : Append(P, o)[p] = P[p]
  <1> DEFINE S == Seq(1 .. N)
  <1>1. P \in Seq(S) /\ o \in S
    OBVIOUS
  <1> HIDE DEF S
  <1>2. /\ Append(P, o) \in Seq(S) /\ Len(P) \in Nat
        /\ Len(Append(P, o)) = Len(P) + 1 /\ Append(P, o)[Len(P) + 1] = o
        /\ \A p \in 1 .. Len(P) : Append(P, o)[p] = P[p]
    BY ONLY <1>1, AppendProperties, LenProperties
  <1>3. QED BY <1>2 DEF S

\* A page begun has no lines.
LEMMA OrderBegun ==
  ASSUME NEW N \in Nat, NEW P \in Seq(Seq(1 .. N)), NEW ls, NEW k \in 0 .. N
  PROVE  InOrder(Append(P, <<>>), ls, k) <=> InOrder(P, ls, k)
  <1> DEFINE Q == Append(P, <<>>)
             n == Len(P)
  <1>1. <<>> \in Seq(1 .. N) /\ DOMAIN <<>> = {}
    OBVIOUS
  <1>2. n \in Nat /\ Len(Q) = n + 1 /\ Q[n + 1] = <<>> /\ \A p \in 1 .. n : Q[p] = P[p]
    BY <1>1, PageAppended
  <1> HIDE DEF Q, n
  <1>3. /\ \A p \in 1 .. n + 1 : \A i \in DOMAIN Q[p] :
             p \in 1 .. n /\ i \in DOMAIN P[p] /\ Q[p][i] = P[p][i]
        /\ \A p \in 1 .. n : \A i \in DOMAIN P[p] :
             p \in 1 .. n + 1 /\ i \in DOMAIN Q[p] /\ Q[p][i] = P[p][i]
    BY <1>1, <1>2
  <1>4. ASSUME InOrder(Q, ls, k) PROVE InOrder(P, ls, k)
    <2>1. ASSUME NEW p \in 1 .. n, NEW q \in 1 .. n, NEW i \in DOMAIN P[p], NEW j \in DOMAIN P[q],
                 p < q \/ (p = q /\ i < j)
          PROVE  P[p][i] < P[q][j]
      <3>1. /\ p \in 1 .. n + 1 /\ i \in DOMAIN Q[p] /\ Q[p][i] = P[p][i]
            /\ q \in 1 .. n + 1 /\ j \in DOMAIN Q[q] /\ Q[q][j] = P[q][j]
        BY <1>3
      <3>2. Q[p][i] < Q[q][j]
        BY <1>2, <1>4, <2>1, <3>1 DEF InOrder
      <3>3. QED BY <3>1, <3>2
    <2>2. \A p \in 1 .. n : \A i \in DOMAIN P[p] : P[p][i] <= k
      BY <1>2, <1>3, <1>4 DEF InOrder
    <2>3. \A m \in 1 .. k : ls[m] = 0 \/ \E p \in 1 .. n : \E i \in DOMAIN P[p] : P[p][i] = m
      <3> SUFFICES ASSUME NEW m \in 1 .. k, ls[m] # 0
                   PROVE  \E p \in 1 .. n : \E i \in DOMAIN P[p] : P[p][i] = m
        OBVIOUS
      <3>1. PICK p \in 1 .. n + 1 : \E i \in DOMAIN Q[p] : Q[p][i] = m
        BY <1>2, <1>4 DEF InOrder
      <3>2. PICK i \in DOMAIN Q[p] : Q[p][i] = m
        BY <3>1
      <3>3. p \in 1 .. n /\ i \in DOMAIN P[p] /\ P[p][i] = m
        BY <1>3, <3>2
      <3>4. QED BY <3>3
    <2>4. QED BY <2>1, <2>2, <2>3 DEF InOrder, n
  <1>5. ASSUME InOrder(P, ls, k) PROVE InOrder(Q, ls, k)
    <2>1. ASSUME NEW p \in 1 .. n + 1, NEW q \in 1 .. n + 1,
                 NEW i \in DOMAIN Q[p], NEW j \in DOMAIN Q[q], p < q \/ (p = q /\ i < j)
          PROVE  Q[p][i] < Q[q][j]
      <3>1. /\ p \in 1 .. n /\ i \in DOMAIN P[p] /\ Q[p][i] = P[p][i]
            /\ q \in 1 .. n /\ j \in DOMAIN P[q] /\ Q[q][j] = P[q][j]
        BY <1>3
      <3>2. P[p][i] < P[q][j]
        BY <1>5, <2>1, <3>1 DEF InOrder, n
      <3>3. QED BY <3>1, <3>2
    <2>2. \A p \in 1 .. n + 1 : \A i \in DOMAIN Q[p] : Q[p][i] <= k
      BY <1>3, <1>5 DEF InOrder, n
    <2>3. \A m \in 1 .. k : ls[m] = 0 \/ \E p \in 1 .. n + 1 : \E i \in DOMAIN Q[p] : Q[p][i] = m
      <3> SUFFICES ASSUME NEW m \in 1 .. k, ls[m] # 0
                   PROVE  \E p \in 1 .. n + 1 : \E i \in DOMAIN Q[p] : Q[p][i] = m
        OBVIOUS
      <3>1. PICK p \in 1 .. n : \E i \in DOMAIN P[p] : P[p][i] = m
        BY <1>5 DEF InOrder, n
      <3>2. PICK i \in DOMAIN P[p] : P[p][i] = m
        BY <3>1
      <3>3. p \in 1 .. n + 1 /\ i \in DOMAIN Q[p] /\ Q[p][i] = m
        BY <1>3, <3>2
      <3>4. QED BY <3>3
    <2>4. QED BY <1>2, <2>1, <2>2, <2>3 DEF InOrder
  <1>6. QED BY <1>4, <1>5 DEF Q

\* The next line is put on the last page.
LEMMA OrderPut ==
  ASSUME NEW N \in Nat, NEW P \in Seq(Seq(1 .. N)), NEW o \in Seq(1 .. N), NEW ls,
         NEW k \in 1 .. N, InOrder(Append(P, o), ls, k - 1)
  PROVE  InOrder(Append(P, Append(o, k)), ls, k)
  <1> DEFINE ok == Append(o, k)
             Q  == Append(P, o)
             R  == Append(P, ok)
             n  == Len(P)
             c  == Len(o)
  <1>1. /\ ok \in Seq(1 .. N) /\ Len(ok) = c + 1 /\ c \in Nat /\ ok[c + 1] = k
        /\ DOMAIN o = 1 .. c /\ DOMAIN ok = 1 .. c + 1 /\ \A i \in 1 .. c : ok[i] = o[i]
        /\ \A i \in 1 .. c : o[i] \in Nat
    BY AppendProperties, LenProperties
  <1>2. n \in Nat /\ Len(Q) = n + 1 /\ Q[n + 1] = o /\ \A p \in 1 .. n : Q[p] = P[p]
    BY PageAppended
  <1>3. Len(R) = n + 1 /\ R[n + 1] = ok /\ \A p \in 1 .. n : R[p] = P[p]
    <2> HIDE DEF ok
    <2>1. QED BY <1>1, PageAppended
  <1>4. InOrder(Q, ls, k - 1)
    OBVIOUS
  <1>5. k \in Nat /\ \A p \in 1 .. n + 1 : \A i \in DOMAIN Q[p] : Q[p][i] \in Nat
    <2>1. Q \in Seq(Seq(1 .. N))
      BY PageAppended
    <2> HIDE DEF Q
    <2>2. \A p \in 1 .. n + 1 : Q[p] \in Seq(1 .. N)
      BY <1>2, <2>1, ElementOfSeq
    <2>3. k \in Nat
      BY ONLY N \in Nat, k \in 1 .. N
    <2>4. QED BY <2>2, <2>3
  <1> HIDE DEF ok, Q, R, n, c
  <1>6. \A p \in 1 .. n + 1 : \A i \in DOMAIN R[p] :
          \/ i \in DOMAIN Q[p] /\ R[p][i] = Q[p][i]
          \/ p = n + 1 /\ i = c + 1 /\ R[p][i] = k
    <2> SUFFICES ASSUME NEW p \in 1 .. n + 1, NEW i \in DOMAIN R[p]
                 PROVE  \/ i \in DOMAIN Q[p] /\ R[p][i] = Q[p][i]
                        \/ p = n + 1 /\ i = c + 1 /\ R[p][i] = k
      OBVIOUS
    <2>1. CASE p = n + 1
      <3>1. R[p] = ok /\ Q[p] = o /\ i \in 1 .. c + 1
        BY <1>1, <1>2, <1>3, <2>1
      <3>2. i = c + 1 \/ i \in 1 .. c
        BY <1>1, <3>1
      <3>3. QED BY <1>1, <2>1, <3>1, <3>2
    <2>2. CASE p # n + 1
      <3>1. p \in 1 .. n
        BY <1>2, <2>2
      <3>2. QED BY <1>2, <1>3, <3>1
    <2>3. QED BY <2>1, <2>2
  <1>7. \A p \in 1 .. n + 1 : \A i \in DOMAIN Q[p] : i \in DOMAIN R[p] /\ R[p][i] = Q[p][i]
    <2> SUFFICES ASSUME NEW p \in 1 .. n + 1, NEW i \in DOMAIN Q[p]
                 PROVE  i \in DOMAIN R[p] /\ R[p][i] = Q[p][i]
      OBVIOUS
    <2>1. CASE p = n + 1
      <3>1. R[p] = ok /\ Q[p] = o /\ i \in 1 .. c
        BY <1>1, <1>2, <1>3, <2>1
      <3>2. i \in 1 .. c + 1
        BY <1>1, <3>1
      <3>3. QED BY <1>1, <3>1, <3>2
    <2>2. CASE p # n + 1
      <3>1. p \in 1 .. n
        BY <1>2, <2>2
      <3>2. QED BY <1>2, <1>3, <3>1
    <2>3. QED BY <2>1, <2>2
  <1>8. \A p \in 1 .. n + 1 : \A i \in DOMAIN Q[p] : Q[p][i] <= k - 1
    BY <1>2, <1>4 DEF InOrder
  <1>9. ASSUME NEW p \in 1 .. n + 1, NEW q \in 1 .. n + 1,
               NEW i \in DOMAIN R[p], NEW j \in DOMAIN R[q], p < q \/ (p = q /\ i < j)
        PROVE  R[p][i] < R[q][j]
    <2>1. CASE j \in DOMAIN Q[q] /\ R[q][j] = Q[q][j]
      <3>1. i \in DOMAIN Q[p] /\ R[p][i] = Q[p][i]
        <4>1. SUFFICES ASSUME p = n + 1, i = c + 1 PROVE FALSE
          BY <1>6
        <4>2. q = n + 1 /\ c + 1 < j
          BY <1>2, <1>9, <4>1
        <4>3. j \in 1 .. c
          BY <1>1, <1>2, <2>1, <4>2
        <4>4. QED BY <1>1, <4>2, <4>3
      <3>2. Q[p][i] < Q[q][j]
        BY <1>2, <1>4, <1>9, <2>1, <3>1 DEF InOrder
      <3>3. QED BY <2>1, <3>1, <3>2
    <2>2. CASE q = n + 1 /\ j = c + 1 /\ R[q][j] = k
      <3>1. ~(p = n + 1 /\ i = c + 1)
        BY <1>1, <1>2, <1>9, <2>2
      <3>2. i \in DOMAIN Q[p] /\ R[p][i] = Q[p][i]
        BY <1>6, <3>1
      <3>3. R[p][i] \in Nat /\ R[p][i] <= k - 1
        BY <1>5, <1>8, <3>2
      <3>4. QED BY <1>5, <2>2, <3>3
    <2>3. QED BY <1>6, <2>1, <2>2
  <1>10. ASSUME NEW p \in 1 .. n + 1, NEW i \in DOMAIN R[p] PROVE R[p][i] <= k
    <2>1. CASE i \in DOMAIN Q[p] /\ R[p][i] = Q[p][i]
      <3>1. R[p][i] \in Nat /\ R[p][i] <= k - 1
        BY <1>5, <1>8, <2>1
      <3>2. QED BY <1>5, <3>1
    <2>2. CASE R[p][i] = k
      BY <1>5, <2>2
    <2>3. QED BY <1>6, <2>1, <2>2
  <1>11. ASSUME NEW m \in 1 .. k
         PROVE  ls[m] = 0 \/ \E p \in 1 .. n + 1 : \E i \in DOMAIN R[p] : R[p][i] = m
    <2>1. CASE m = k
      <3>1. n + 1 \in 1 .. n + 1 /\ c + 1 \in DOMAIN R[n + 1] /\ R[n + 1][c + 1] = k
        BY <1>1, <1>2, <1>3
      <3>2. QED BY <2>1, <3>1
    <2>2. CASE m # k
      <3>1. m \in 1 .. k - 1
        BY <1>5, <2>2
      <3>2. ls[m] = 0 \/ \E p \in 1 .. n + 1 : \E i \in DOMAIN Q[p] : Q[p][i] = m
        BY <1>2, <1>4, <3>1 DEF InOrder
      <3>3. QED BY <1>7, <3>2
    <2>3. QED BY <2>1, <2>2
  <1>12. InOrder(R, ls, k)
    BY <1>3, <1>9, <1>10, <1>11 DEF InOrder
  <1>13. QED BY <1>12 DEF R, ok

\* A blank line need not be put.
LEMMA OrderSkip ==
  ASSUME NEW N \in Nat, NEW P \in Seq(Seq(1 .. N)), NEW ls, NEW k \in 1 .. N,
         InOrder(P, ls, k - 1), ls[k] = 0
  PROVE  InOrder(P, ls, k)
  <1>1. \A p \in 1 .. Len(P) : \A i \in DOMAIN P[p] : P[p][i] \in Nat
    <2>1. \A p \in 1 .. Len(P) : P[p] \in Seq(1 .. N)
      BY ElementOfSeq
    <2>2. QED BY <2>1
  <1>2. \A m \in 1 .. k : m = k \/ m \in 1 .. k - 1
    OBVIOUS
  <1>3. \A p \in 1 .. Len(P) : \A i \in DOMAIN P[p] : P[p][i] <= k
    BY <1>1 DEF InOrder
  <1>4. QED BY <1>2, <1>3 DEF InOrder

\* The pages of s, the open one last, have the first k lines in order.
Ordered(s, ls, k) == s.ok => InOrder(Append(s.pages, s.open), ls, k)

\* A line put keeps the order.
LEMMA PutOrder ==
  ASSUME NEW ls \in Seq(Nat), NEW s \in JoinState(ls), NEW k \in 1 .. Len(ls),
         InOrder(Append(s.pages, s.open), ls, k - 1)
  PROVE  LET p == Put(s, k, ls[k]) IN InOrder(Append(p.pages, p.open), ls, k)
  <1> DEFINE p == Put(s, k, ls[k])
             N == Len(ls)
  <1>1. N \in Nat /\ k \in 1 .. N
    OBVIOUS
  <1>2. s.pages \in Seq(Seq(1 .. N)) /\ s.open \in Seq(1 .. N)
    BY JoinStateFields
  <1>3. CASE s.open = <<>> /\ ls[k] = 0
    <2>1. p.pages = s.pages /\ p.open = s.open
      BY <1>3, PutIs
    <2>2. Append(s.pages, s.open) \in Seq(Seq(1 .. N))
      BY <1>1, <1>2, PageAppended
    <2> HIDE DEF p, N
    <2>3. InOrder(Append(s.pages, s.open), ls, k)
      BY <1>1, <1>3, <2>2, OrderSkip
    <2>4. QED BY <2>1, <2>3 DEF p
  <1>4. CASE ~(s.open = <<>> /\ ls[k] = 0)
    <2>1. p.pages = s.pages /\ p.open = Append(s.open, k)
      BY <1>4, PutIs
    <2> HIDE DEF p, N
    <2>2. InOrder(Append(s.pages, Append(s.open, k)), ls, k)
      BY <1>1, <1>2, OrderPut
    <2>3. QED BY <2>1, <2>2 DEF p
  <1>5. QED BY <1>3, <1>4

\* A line joined keeps the order.
LEMMA JoiningOrder ==
  ASSUME NEW ls \in Seq(Nat), NEW s \in JoinState(ls), NEW k \in 1 .. Len(ls),
         NEW back \in Int, U32 \in Nat \ {0}, Ordered(s, ls, k - 1)
  PROVE  Ordered(Joining(s, k, ls[k], back), ls, k)
  <1> DEFINE c == Closed(s, back)
             j == Joining(s, k, ls[k], back)
             f == [s EXCEPT !.ok = FALSE]
  <1>1. /\ s.pages \in Seq(Seq(1 .. Len(ls))) /\ s.open \in Seq(1 .. Len(ls))
        /\ Len(ls) \in Nat /\ k - 1 \in 0 .. Len(ls)
    BY JoinStateFields
  <1>2. c \in JoinState(ls) /\ c.pages = Append(s.pages, s.open) /\ c.open = <<>>
    BY ClosedIs
  <1>3. s.ok => InOrder(Append(c.pages, c.open), ls, k - 1)
    <2>1. Append(s.pages, s.open) \in Seq(Seq(1 .. Len(ls)))
      BY <1>1, PageAppended
    <2> HIDE DEF c
    <2>2. s.ok => InOrder(Append(s.pages, s.open), ls, k - 1)
      BY DEF Ordered
    <2>3. QED BY <1>1, <1>2, <2>1, <2>2, OrderBegun
  <1>4. f.ok = FALSE
    <2>1. s.ok \in BOOLEAN
      BY JoinStateFields
    <2>2. QED BY FailedIs, JoinStateFields DEF JoinState, JoinRecord
  <1>5. j = f \/ (s.ok /\ (j = Put(c, k, ls[k]) \/ j = Put(s, k, ls[k])))
    <2> DEFINE over == s.len + ls[k] > Sub32(s.net, 1)
    <2>1. \/ (~s.ok \/ (over /\ s.open = <<>>)) /\ j = f
          \/ s.ok /\ over /\ s.open # <<>> /\ j = Put(c, k, ls[k])
          \/ s.ok /\ ~over /\ j = Put(s, k, ls[k])
      BY JoiningIs
    <2> HIDE DEF over, j, f, c
    <2>2. QED BY <2>1
  <1>6. s.ok => InOrder(Append(Put(c, k, ls[k]).pages, Put(c, k, ls[k]).open), ls, k)
    <2> HIDE DEF c
    <2>1. QED BY <1>2, <1>3, PutOrder
  <1>7. s.ok => InOrder(Append(Put(s, k, ls[k]).pages, Put(s, k, ls[k]).open), ls, k)
    BY PutOrder DEF Ordered
  <1> HIDE DEF c, j, f
  <1>8. Ordered(j, ls, k)
    BY <1>4, <1>5, <1>6, <1>7 DEF Ordered
  <1>9. QED BY <1>8 DEF j

\* The states on the way have the lines in order.
LEMMA JoinsOrder ==
  ASSUME NEW ls \in Seq(Nat), NEW start \in JoinState(ls), Started(start) = 0,
         NEW back \in Int, U32 \in Nat \ {0}, Ordered(start, ls, 0),
         NEW g, Joins(g, ls, start, back, Len(ls))
  PROVE  \A k \in 0 .. Len(ls) : Ordered(g[k], ls, k)
  <1> DEFINE T == {k \in 0 .. Len(ls) : ~Ordered(g[k], ls, k)}
  <1>1. SUFFICES ASSUME T # {} PROVE FALSE
    OBVIOUS
  <1>2. PICK k \in T : \A j \in T : k <= j
    <2>1. T \subseteq Nat
      OBVIOUS
    <2> HIDE DEF T
    <2>2. QED BY <1>1, <2>1, SmallestNumber
  <1>3. Len(ls) \in Nat /\ k \in 0 .. Len(ls)
    OBVIOUS
  <1>4. g[k] = IF k = 0 THEN start ELSE Joining(g[k - 1], k, ls[k], back)
    BY <1>3 DEF Joins
  <1>5. k # 0
    BY <1>4
  <1>6. k - 1 \in 0 .. Len(ls) /\ k \in 1 .. Len(ls) /\ k - 1 \notin T
    BY <1>2, <1>3, <1>5
  <1>7. Ordered(g[k - 1], ls, k - 1)
    BY <1>6
  <1> HIDE DEF T
  <1>8. g[k - 1] \in JoinState(ls)
    BY <1>6, JoinsType
  <1>9. Ordered(Joining(g[k - 1], k, ls[k], back), ls, k)
    BY <1>6, <1>7, <1>8, JoiningOrder
  <1>10. QED BY <1>2, <1>4, <1>5, <1>9 DEF T

\* Where there is an answer, the pages have all lines in order.
LEMMA JoinSinkOrder ==
  ASSUME NEW ls \in Seq(Nat), NEW remaining \in Int, NEW fwd \in Nat, NEW back \in Nat,
         U32 \in Nat \ {0}
  PROVE  LET j == JoinSink(ls, remaining, fwd, back)
         IN  j.ok => InOrder(j.pages, ls, Len(ls))
  <1> DEFINE start == JoinStart(ls, remaining, fwd)
             j     == JoinSink(ls, remaining, fwd, back)
             n     == Len(ls)
  <1>1. PICK g : /\ Joins(g, ls, start, back, n)
                 /\ j = [ok     |-> g[n].ok,
                         closed |-> Len(g[n].pages),
                         pages  |-> IF g[n].open = <<>> THEN g[n].pages
                                    ELSE Append(g[n].pages, g[n].open)]
    BY JoinSinkIs
  <1>2. start \in JoinState(ls) /\ Started(start) = 0
    BY JoinStartType
  <1>3. back \in Int /\ n \in Nat /\ n \in 0 .. n
    OBVIOUS
  <1>4. start.pages = <<>> /\ start.open = <<>>
    BY DEF JoinStart
  <1> HIDE DEF start, j, n
  <1>5. Ordered(start, ls, 0)
    <2>1. InOrder(<<>>, ls, 0)
      BY DEF InOrder
    <2>2. <<>> \in Seq(Seq(1 .. n)) /\ 0 \in 0 .. n
      BY <1>3
    <2>3. QED BY <1>3, <1>4, <2>1, <2>2, OrderBegun DEF Ordered
  <1>6. Ordered(g[n], ls, n)
    BY <1>1, <1>2, <1>3, <1>5, JoinsOrder DEF n
  <1>7. g[n] \in JoinState(ls)
    BY <1>1, <1>2, <1>3, JoinsType DEF n
  <1>8. g[n].pages \in Seq(Seq(1 .. n))
    BY <1>7, JoinStateFields DEF n
  <1> DEFINE s == g[n]
  <1> HIDE DEF s
  <1>9. j.ok = s.ok /\ j.pages = IF s.open = <<>> THEN s.pages ELSE Append(s.pages, s.open)
    BY <1>1 DEF s
  <1>10. InOrder(Append(s.pages, <<>>), ls, n) <=> InOrder(s.pages, ls, n)
    BY <1>3, <1>8, OrderBegun DEF s
  <1>11. j.ok => InOrder(j.pages, ls, n)
    BY <1>6, <1>9, <1>10 DEF Ordered, s
  <1>12. QED BY <1>11 DEF j, n

-----------------------------------------------------------------------------
(* Page, menu and cursors, operator by operator.                           *)

PageSet == [content : Lines \cup {None}, extra : BOOLEAN, err : BOOLEAN]
MenuSet == [items : Lines, next : BOOLEAN, prev : BOOLEAN, pageCount : Nat,
            sink : BOOLEAN, keep : BOOLEAN]
Cursors == Seq(Nat \ {0})
Machine == [pg : PageSet, crsrs : Cursors, mn : MenuSet]

\* A machine's parts may be replaced one by one.
LEMMA MachineParts ==
  ASSUME NEW o \in Machine, NEW g \in PageSet, NEW c \in Cursors, NEW m \in MenuSet
  PROVE  /\ o.pg \in PageSet /\ o.crsrs \in Cursors /\ o.mn \in MenuSet
         /\ [pg |-> g, crsrs |-> c, mn |-> m] \in Machine
  BY DEF Machine

\* What a page has.
LEMMA PageFields ==
  ASSUME NEW g \in PageSet
  PROVE  /\ g.content = None \/ g.content \in Lines
         /\ g.extra \in BOOLEAN /\ g.err \in BOOLEAN
  BY DEF PageSet

\* What a menu has.
LEMMA MenuFields ==
  ASSUME NEW m \in MenuSet
  PROVE  /\ m.items \in Lines /\ m.pageCount \in Nat
         /\ m.next \in BOOLEAN /\ m.prev \in BOOLEAN /\ m.sink \in BOOLEAN /\ m.keep \in BOOLEAN
  BY DEF MenuSet

\* What a node has.
LEMMA NodeFields ==
  ASSUME NEW n \in Nodes
  PROVE  /\ n.fixed \in Nat \ {0} /\ n.items \in Lines
         /\ n.content = None \/ (n.content \in Lines /\ n.content # <<>>)
         /\ n.next \in BOOLEAN /\ n.prev \in BOOLEAN /\ n.msink \in BOOLEAN
  <1>1. /\ n.fixed \in Nat \ {0} /\ n.items \in Seq(Nat \ {0})
        /\ n.content = None \/ n.content \in Lines \ {<<>>}
        /\ n.next \in BOOLEAN /\ n.prev \in BOOLEAN /\ n.msink \in BOOLEAN
    BY PagesAssumption
  <1>2. n.items \in Seq(Nat)
    BY <1>1
  <1>3. QED BY <1>1, <1>2 DEF Lines

\* Used up, or not.
LEMMA UsedIs ==
  ASSUME NEW m \in MenuSet
  PROVE  /\ Used(m) \in MenuSet
         /\ Used(m).items = IF m.keep THEN m.items ELSE <<>>
         /\ Used(m).next = m.next /\ Used(m).prev = m.prev
         /\ Used(m).pageCount = m.pageCount /\ Used(m).sink = m.sink /\ Used(m).keep = m.keep
  <1>1. <<>> \in Lines
    BY DEF Lines
  <1>2. CASE m.keep
    BY <1>2 DEF Used
  <1>3. CASE ~m.keep
    <2> DEFINE u == [m EXCEPT !.items = <<>>]
    <2>1. Used(m) = u
      BY <1>3 DEF Used
    <2>2. /\ u \in MenuSet /\ u.items = <<>> /\ u.next = m.next /\ u.prev = m.prev
          /\ u.pageCount = m.pageCount /\ u.sink = m.sink /\ u.keep = m.keep
      BY <1>1 DEF MenuSet
    <2> HIDE DEF u
    <2>3. QED BY <1>3, <2>1, <2>2
  <1>4. QED BY <1>2, <1>3

\* A menu with a number of pages.
LEMMA CountedIs ==
  ASSUME NEW m \in MenuSet, NEW c \in Nat
  PROVE  LET t == [m EXCEPT !.pageCount = c]
         IN  /\ t \in MenuSet /\ t.items = m.items /\ t.next = m.next /\ t.prev = m.prev
             /\ t.pageCount = c /\ t.sink = m.sink /\ t.keep = m.keep
  BY DEF MenuSet

\* The machine prepared.
LEMMA PreparedIs ==
  ASSUME NEW o \in Machine
  PROVE  LET p == Prepared(o)
         IN  /\ p \in Machine /\ p.crsrs = o.crsrs
             /\ p.pg.content = o.pg.content /\ p.pg.err = o.pg.err
             /\ p.pg.extra = (o.pg.extra \/ o.mn.sink)
             /\ p.mn.items = IF o.mn.sink THEN <<>> ELSE o.mn.items
             /\ p.mn.keep = (o.mn.keep /\ ~o.mn.sink)
             /\ p.mn.next = o.mn.next /\ p.mn.prev = o.mn.prev
             /\ p.mn.pageCount = o.mn.pageCount /\ p.mn.sink = o.mn.sink
  <1> DEFINE p == Prepared(o)
             g == [o.pg EXCEPT !.extra = TRUE]
             m == [o.mn EXCEPT !.items = <<>>, !.keep = FALSE]
  <1>1. o.pg \in PageSet /\ o.crsrs \in Cursors /\ o.mn \in MenuSet
    BY DEF Machine
  <1>2. <<>> \in Lines
    BY DEF Lines
  <1>3. CASE ~o.mn.sink
    <2>1. p = o
      BY <1>3 DEF Prepared
    <2>2. o.pg.extra \in BOOLEAN /\ o.mn.keep \in BOOLEAN
      BY <1>1, PageFields, MenuFields
    <2>3. QED BY <1>3, <2>1, <2>2
  <1>4. CASE o.mn.sink
    <2>1. p = [o EXCEPT !.mn.items = <<>>, !.mn.keep = FALSE, !.pg.extra = TRUE]
      BY <1>4 DEF Prepared
    <2>2. p = [o EXCEPT !.mn = m, !.pg = g]
      BY <2>1 DEF Machine
    <2>3. g \in PageSet /\ g.content = o.pg.content /\ g.err = o.pg.err /\ g.extra
      BY <1>1 DEF PageSet
    <2>4. /\ m \in MenuSet /\ m.items = <<>> /\ ~m.keep /\ m.next = o.mn.next
          /\ m.prev = o.mn.prev /\ m.pageCount = o.mn.pageCount /\ m.sink = o.mn.sink
      BY <1>1, <1>2 DEF MenuSet
    <2> HIDE DEF p, g, m
    <2>5. p \in Machine /\ p.pg = g /\ p.mn = m /\ p.crsrs = o.crsrs
      BY <1>1, <2>2, <2>3, <2>4 DEF Machine
    <2>6. g.extra = TRUE /\ m.keep = FALSE
      BY <2>3, <2>4, PageFields, MenuFields
    <2>7. QED BY <1>4, <2>3, <2>4, <2>5, <2>6 DEF p
  <1>5. QED BY <1>3, <1>4

-----------------------------------------------------------------------------
(* Reading page after page.                                                *)

\* Lines sn are those of the first c pages of P, in order.
ReadTo(sn, P, c) ==
  /\ \A i, j \in DOMAIN sn : i < j => sn[i] < sn[j]
  /\ \A i \in DOMAIN sn : \E p \in 1 .. Len(P) : \E l \in DOMAIN P[p] :
       p <= c /\ P[p][l] = sn[i]
  /\ \A p \in 1 .. Len(P) : \A l \in DOMAIN P[p] :
       p <= c => \E i \in DOMAIN sn : sn[i] = P[p][l]

\* The first page is read, if there is one.
LEMMA ReadFirst ==
  ASSUME NEW ls, NEW N \in Nat, NEW P \in Seq(Seq(1 .. N)), NEW k, InOrder(P, ls, k)
  PROVE  ReadTo(IF P = <<>> THEN <<>> ELSE P[1], P, 1)
  <1>1. CASE P = <<>>
    <2>1. Len(P) = 0 /\ DOMAIN <<>> = {} /\ \A p \in 1 .. 0 : FALSE
      BY <1>1
    <2>2. ReadTo(<<>>, P, 1)
      BY <2>1 DEF ReadTo
    <2>3. QED BY <1>1, <2>2
  <1>2. CASE P # <<>>
    <2>1. 1 \in 1 .. Len(P) /\ \A p \in 1 .. Len(P) : p <= 1 => p = 1
      BY <1>2
    <2> DEFINE sn == P[1]
    <2>2. \A i, j \in DOMAIN sn : i < j => sn[i] < sn[j]
      BY <2>1 DEF InOrder
    <2>3. \A i \in DOMAIN sn : \E p \in 1 .. Len(P) : \E l \in DOMAIN P[p] :
            p <= 1 /\ P[p][l] = sn[i]
      BY <2>1
    <2>4. ASSUME NEW p \in 1 .. Len(P), NEW l \in DOMAIN P[p], p <= 1
          PROVE  \E i \in DOMAIN sn : sn[i] = P[p][l]
      <3>1. p = 1
        BY <2>1, <2>4
      <3>2. l \in DOMAIN sn /\ sn[l] = P[p][l]
        BY <3>1
      <3>3. QED BY <3>2
    <2> HIDE DEF sn
    <2>5. ReadTo(sn, P, 1)
      BY <2>2, <2>3, <2>4 DEF ReadTo
    <2>6. QED BY <1>2, <2>5 DEF sn
  <1>3. QED BY <1>1, <1>2

\* The next page is read.
LEMMA ReadNext ==
  ASSUME NEW ls, NEW N \in Nat, NEW P \in Seq(Seq(1 .. N)), NEW k, InOrder(P, ls, k),
         NEW sn \in Cursors, NEW c \in Nat, c + 1 \in 1 .. Len(P), ReadTo(sn, P, c)
  PROVE  ReadTo(sn \o P[c + 1], P, c + 1)
  <1> DEFINE t == P[c + 1]
             a == Len(sn)
             b == Len(t)
             r == sn \o t
             n == Len(P)
  <1>1. t \in Seq(1 .. N) /\ t \in Seq(Nat) /\ n \in Nat /\ c + 1 \in 1 .. n
    <2>1. t \in Seq(1 .. N)
      <3> DEFINE S == Seq(1 .. N)
      <3>1. P \in Seq(S)
        OBVIOUS
      <3> HIDE DEF S
      <3>2. t \in S
        BY <3>1, ElementOfSeq
      <3>3. QED BY <3>2 DEF S
    <2> HIDE DEF t
    <2>2. QED BY <2>1
  <1>2. sn \in Seq(Nat)
    BY DEF Cursors
  <1> HIDE DEF t
  <1>3. /\ a \in Nat /\ b \in Nat /\ DOMAIN sn = 1 .. a /\ DOMAIN t = 1 .. b
        /\ DOMAIN r = 1 .. a + b
        /\ \A i \in 1 .. a + b : r[i] = IF i <= a THEN sn[i] ELSE t[i - a]
    <2>1. /\ r \in Seq(Nat) /\ Len(r) = a + b
          /\ \A i \in 1 .. a + b : r[i] = IF i <= a THEN sn[i] ELSE t[i - a]
      BY <1>1, <1>2, ConcatProperties
    <2> HIDE DEF r
    <2>2. QED BY <1>1, <1>2, <2>1, LenProperties
  <1> HIDE DEF r, n, a, b
  <1>4. \A i \in 1 .. a + b :
          \/ i \in 1 .. a /\ r[i] = sn[i]
          \/ i - a \in 1 .. b /\ i > a /\ r[i] = t[i - a]
    BY <1>3
  <1>5. /\ \A i \in 1 .. a : i \in 1 .. a + b /\ r[i] = sn[i]
        /\ \A i \in 1 .. b : i + a \in 1 .. a + b /\ r[i + a] = t[i]
    <2>1. \A i \in 1 .. a : i \in 1 .. a + b /\ r[i] = sn[i]
      BY <1>3
    <2>2. ASSUME NEW i \in 1 .. b PROVE i + a \in 1 .. a + b /\ r[i + a] = t[i]
      <3>1. i + a \in 1 .. a + b /\ ~(i + a <= a) /\ (i + a) - a = i
        BY <1>3
      <3>2. r[i + a] = t[(i + a) - a]
        BY <1>3, <3>1
      <3>3. QED BY <3>1, <3>2
    <2>3. QED BY <2>1, <2>2
  <1>6. ASSUME NEW i \in 1 .. a + b, NEW j \in 1 .. a + b, i < j PROVE r[i] < r[j]
    <2>1. CASE j \in 1 .. a /\ r[j] = sn[j]
      <3>1. i \in 1 .. a
        BY <1>3, <1>6, <2>1
      <3>2. r[i] = sn[i] /\ sn[i] < sn[j]
        BY <1>3, <1>5, <1>6, <2>1, <3>1 DEF ReadTo
      <3>3. QED BY <2>1, <3>2
    <2>2. CASE j - a \in 1 .. b /\ j > a /\ r[j] = t[j - a]
      <3>1. CASE i \in 1 .. a /\ r[i] = sn[i]
        <4>1. PICK p \in 1 .. n : \E l \in DOMAIN P[p] : p <= c /\ P[p][l] = sn[i]
          BY <1>3, <3>1 DEF ReadTo, n
        <4>2. PICK l \in DOMAIN P[p] : p <= c /\ P[p][l] = sn[i]
          BY <4>1
        <4>3. p < c + 1
          BY <1>1, <4>2
        <4>4. P[p][l] < t[j - a]
          BY <1>1, <1>3, <2>2, <4>2, <4>3 DEF InOrder, t, n
        <4>5. QED BY <2>2, <3>1, <4>2, <4>4
      <3>2. CASE i - a \in 1 .. b /\ i > a /\ r[i] = t[i - a]
        <4> DEFINE x == i - a
                   y == j - a
        <4>1. x < y
          BY <1>3, <1>6
        <4>2. x \in DOMAIN t /\ y \in DOMAIN t
          BY <1>3, <2>2, <3>2
        <4> HIDE DEF x, y
        <4>3. t[x] < t[y]
          BY <1>1, <4>1, <4>2 DEF InOrder, t, n
        <4>4. QED BY <2>2, <3>2, <4>3 DEF x, y
      <3>3. QED BY <1>4, <3>1, <3>2
    <2>3. QED BY <1>4, <2>1, <2>2
  <1>7. ASSUME NEW i \in 1 .. a + b
        PROVE  \E p \in 1 .. n : \E l \in DOMAIN P[p] : p <= c + 1 /\ P[p][l] = r[i]
    <2>1. CASE i \in 1 .. a /\ r[i] = sn[i]
      <3>1. PICK p \in 1 .. n : \E l \in DOMAIN P[p] : p <= c /\ P[p][l] = sn[i]
        BY <1>3, <2>1 DEF ReadTo, n
      <3>2. p <= c => p <= c + 1
        BY <1>1
      <3>3. QED BY <2>1, <3>1, <3>2
    <2>2. CASE i - a \in 1 .. b /\ r[i] = t[i - a]
      <3>1. i - a \in DOMAIN P[c + 1] /\ P[c + 1][i - a] = r[i] /\ c + 1 <= c + 1
        BY <1>3, <2>2 DEF t
      <3>2. QED BY <1>1, <3>1
    <2>3. QED BY <1>4, <2>1, <2>2
  <1>8. ASSUME NEW p \in 1 .. n, NEW l \in DOMAIN P[p], p <= c + 1
        PROVE  \E i \in 1 .. a + b : r[i] = P[p][l]
    <2>1. CASE p <= c
      <3>1. PICK i \in DOMAIN sn : sn[i] = P[p][l]
        BY <2>1 DEF ReadTo, n
      <3>2. QED BY <1>3, <1>5, <3>1
    <2>2. CASE p = c + 1
      <3>1. l \in 1 .. b /\ P[p][l] = t[l]
        BY <1>3, <2>2 DEF t
      <3>2. QED BY <1>5, <3>1
    <2>3. p <= c \/ p = c + 1
      BY <1>1, <1>8
    <2>4. QED BY <2>1, <2>2, <2>3
  <1>9. ReadTo(r, P, c + 1)
    <2>1. \A i, j \in DOMAIN r : i < j => r[i] < r[j]
      BY <1>3, <1>6
    <2>2. \A i \in DOMAIN r : \E p \in 1 .. Len(P) : \E l \in DOMAIN P[p] :
            p <= c + 1 /\ P[p][l] = r[i]
      BY <1>3, <1>7 DEF n
    <2>3. \A p \in 1 .. Len(P) : \A l \in DOMAIN P[p] :
            p <= c + 1 => \E i \in DOMAIN r : r[i] = P[p][l]
      BY <1>3, <1>8 DEF n
    <2>4. QED BY <2>1, <2>2, <2>3 DEF ReadTo
  <1>10. QED BY <1>9 DEF r, t

\* Who has read all pages has read every line once, in order.
LEMMA ReadLast ==
  ASSUME NEW ls \in Seq(Nat), NEW P \in Seq(Seq(1 .. Len(ls))), InOrder(P, ls, Len(ls)),
         NEW sn \in Cursors, NEW c \in Nat, Len(P) <= c, ReadTo(sn, P, c)
  PROVE  /\ \A i, j \in DOMAIN sn : i < j => sn[i] < sn[j]
         /\ Range(sn) \subseteq DOMAIN ls
         /\ \A k \in DOMAIN ls : ls[k] = 0 \/ k \in Range(sn)
  <1>1. /\ DOMAIN ls = 1 .. Len(ls) /\ Len(P) \in Nat
        /\ \A p \in 1 .. Len(P) : P[p] \in Seq(1 .. Len(ls))
    <2> DEFINE S == Seq(1 .. Len(ls))
    <2>1. P \in Seq(S)
      OBVIOUS
    <2> HIDE DEF S
    <2>2. Len(P) \in Nat /\ \A p \in 1 .. Len(P) : P[p] \in S
      BY <2>1, ElementOfSeq, LenProperties
    <2>3. QED BY <2>2 DEF S
  <1>2. \A p \in 1 .. Len(P) : p <= c
    BY <1>1
  <1>3. \A p \in 1 .. Len(P) : \A l \in DOMAIN P[p] : P[p][l] \in DOMAIN ls
    <2> SUFFICES ASSUME NEW p \in 1 .. Len(P), NEW l \in DOMAIN P[p] PROVE P[p][l] \in DOMAIN ls
      OBVIOUS
    <2> DEFINE t == P[p]
               S == 1 .. Len(ls)
    <2>1. t \in Seq(S) /\ l \in DOMAIN t
      BY <1>1
    <2> HIDE DEF t, S
    <2>2. t[l] \in S
      BY ONLY <2>1
    <2>3. QED BY <1>1, <2>2 DEF t, S
  <1>4. ASSUME NEW i \in DOMAIN sn PROVE sn[i] \in DOMAIN ls
    <2>1. PICK p \in 1 .. Len(P) : \E l \in DOMAIN P[p] : p <= c /\ P[p][l] = sn[i]
      BY DEF ReadTo
    <2>2. PICK l \in DOMAIN P[p] : P[p][l] = sn[i]
      BY <2>1
    <2>3. QED BY <1>3, <2>2
  <1>5. ASSUME NEW k \in DOMAIN ls, ls[k] # 0 PROVE k \in Range(sn)
    <2>1. PICK p \in 1 .. Len(P) : \E l \in DOMAIN P[p] : P[p][l] = k
      BY <1>1, <1>5 DEF InOrder
    <2>2. PICK l \in DOMAIN P[p] : P[p][l] = k
      BY <2>1
    <2>3. PICK i \in DOMAIN sn : sn[i] = P[p][l]
      BY <1>2, <2>2 DEF ReadTo
    <2>4. QED BY <2>2, <2>3 DEF Range
  <1>6. QED BY <1>4, <1>5 DEF Range, ReadTo

-----------------------------------------------------------------------------
(* The inductive invariant.                                                *)

\* How a node is split, with an error to show or not: the lines, what is on a page
\* before any of them, and the pages.
KeptItems(n) == IF n.msink THEN <<>> ELSE n.items

CutLines(n) == IF n.msink THEN IF n.items = <<>> THEN <<0>> ELSE n.items
               ELSE IF n.content = None THEN <<>> ELSE n.content

Text(n, e) == n.fixed + (IF e THEN ErrSize + 1 ELSE 0) + (IF n.msink THEN 1 ELSE 0)

Pre(n, e) == Text(n, e) + Appended(KeptItems(n))

Cut(n, e) == JoinSink(CutLines(n), size - Pre(n, e), NextReserve(n), PrevReserve(n))

\* Not more than one sink.
OneSink(n) == ~(n.msink /\ n.content # None)

\* Whether a node split for output size sz has a page i.
There(n, e, i, sz) ==
  LET j == JoinSink(CutLines(n), sz - Pre(n, e), NextReserve(n), PrevReserve(n))
  IN  sz > 0 /\ OneSink(n) /\ Pre(n, e) <= sz /\ j.ok /\ i < Len(j.pages)

PageThere(n, e, i) == There(n, e, i, size)

\* The lines and pages of a node for output size sz; without a sizer it is one page.
LinesIn(n, sz) ==
  IF sz # 0 THEN CutLines(n) ELSE IF n.content = None THEN <<>> ELSE n.content

PagesIn(n, e, sz) ==
  IF sz = 0 THEN <<[k \in DOMAIN LinesIn(n, sz) |-> k]>>
  ELSE JoinSink(CutLines(n), sz - Pre(n, e), NextReserve(n), PrevReserve(n)).pages

\* What is shown is page i, and the next is offered unless it is the last.
Shows(page, n, e, i, sz) ==
  LET P  == PagesIn(n, e, sz)
      ls == LinesIn(n, sz)
  IN  /\ page.ls = ls /\ page.ns = IF P = <<>> THEN <<>> ELSE P[i + 1]
      /\ i = 0 \/ i + 1 \in 1 .. Len(P)
      /\ n.next /\ ~page.next => Len(P) <= i + 1
      /\ ls \in Seq(Nat) /\ P \in Seq(Seq(1 .. Len(ls))) /\ InOrder(P, ls, Len(ls))

\* The machine o when Flush comes after a Vm.Reset: it has what the node gave it.
Loaded(o, n) ==
  /\ o.pg.content = n.content /\ ~o.pg.extra /\ o.crsrs = <<>>
  /\ o.mn.items = n.items /\ o.mn.next = n.next /\ o.mn.prev = n.prev
  /\ o.mn.sink = n.msink /\ o.mn.keep /\ o.mn.pageCount = IF n.msink THEN 1 ELSE 0

\* What is remembered of the way to a page.
Ways == [forward : BOOLEAN, offered : BOOLEAN, same : BOOLEAN]

Kinds == {"none", "ok", "fail", "browse", "panic"}

\* Types.
PagesTyped ==
  /\ size \in Sizes /\ node \in Nodes /\ idx \in 0 .. MaxPage
  /\ Here \in Machine
  /\ shown.kind \in Kinds
  /\ seen = None \/ seen \in Cursors
  /\ how \in Ways

\* What a Vm.Reset left to Flush is what the node gave; until then a page that is
\* offered is there.
AsLeft ==
  /\ how.offered => how.same
  /\ shown.kind = "none" => crsrs = <<>>
  /\ shown.kind = "none" /\ how.same => Loaded(Here, node)
  /\ shown.kind = "none" /\ how.offered => PageThere(node, pg.err, idx)
  /\ shown.kind # "none" /\ how.same /\ shown.next => PageThere(node, pg.err, idx + 1)
  /\ shown.kind # "none" /\ how.same /\ shown.prev => PageThere(node, pg.err, idx - 1)

\* Who has come from the first page to this one has read the pages up to it; who is
\* about to see the next, the ones before.
ReadUpTo(sn, n, e, c, sz) == ReadTo(sn, PagesIn(n, e, sz), c)

AsRead ==
  /\ seen # None /\ shown.kind # "none" =>
       /\ shown.kind = "ok" /\ Shows(shown, node, pg.err, idx, size)
       /\ ReadUpTo(seen, node, pg.err, idx + 1, size)
  /\ seen # None /\ shown.kind = "none" /\ how.forward =>
       idx > 0 /\ ReadUpTo(seen, node, pg.err, idx, size)

PagesInv == PagesTyped /\ AsLeft /\ AsRead /\ NoBrowseError

-----------------------------------------------------------------------------
(* The machine that a run leaves to Flush.                                 *)

\* The room for browse items depends on which there are.
LEMMA ReserveBy ==
  ASSUME NEW m, NEW n, m.next = n.next, m.prev = n.prev
  PROVE  NextReserve(m) = NextReserve(n) /\ PrevReserve(m) = PrevReserve(n)
  BY DEF NextReserve, PrevReserve

\* The machine of a new vm.
LEMMA NewVmIs ==
  /\ NewVm \in Machine /\ NewVm.crsrs = <<>> /\ NewVm.mn = NewMenu /\ NewMenu \in MenuSet
  /\ NewVm.pg.content = None /\ NewVm.pg.extra = FALSE /\ NewVm.pg.err = FALSE
  <1>1. NewPage \in PageSet /\ NewPage.content = None
        /\ NewPage.extra = FALSE /\ NewPage.err = FALSE
    BY DEF NewPage, PageSet
  <1>2. NewMenu \in MenuSet
    BY DEF NewMenu, MenuSet, Lines
  <1>3. <<>> \in Cursors
    BY DEF Cursors
  <1>4. NewVm.pg = NewPage /\ NewVm.mn = NewMenu /\ NewVm.crsrs = <<>> /\ NewVm \in Machine
    BY <1>1, <1>2, <1>3 DEF NewVm, Machine
  <1>5. QED BY <1>1, <1>2, <1>4

\* What Reset leaves.
LEMMA ClearedIs ==
  ASSUME NEW o \in Machine
  PROVE  LET c == Cleared(o)
         IN  /\ c \in Machine /\ c.crsrs = <<>> /\ c.pg.content = None /\ c.pg.extra = FALSE
             /\ c.pg.err = o.pg.err /\ c.mn.items = <<>>
  <1> DEFINE g == [o.pg EXCEPT !.content = None, !.extra = FALSE]
             m == [o.mn EXCEPT !.items = <<>>, !.sink = FALSE]
  <1>1. o.pg \in PageSet /\ o.mn \in MenuSet
    BY DEF Machine
  <1>2. g \in PageSet /\ g.content = None /\ g.extra = FALSE /\ g.err = o.pg.err
    BY <1>1 DEF PageSet
  <1>3. m \in MenuSet /\ m.items = <<>>
    <2>1. <<>> \in Lines
      BY DEF Lines
    <2>2. QED BY <1>1, <2>1 DEF MenuSet
  <1>4. <<>> \in Cursors
    BY DEF Cursors
  <1>5. Cleared(o) = [pg |-> g, crsrs |-> <<>>, mn |-> m]
    BY DEF Cleared
  <1> HIDE DEF g, m
  <1>6. QED BY <1>2, <1>3, <1>4, <1>5 DEF Machine

\* What Vm.Reset leaves.
LEMMA FreshIs ==
  ASSUME NEW o \in Machine
  PROVE  LET f == Fresh(o)
         IN  /\ f \in Machine /\ f.crsrs = <<>> /\ f.pg.content = None /\ f.pg.extra = FALSE
             /\ f.pg.err = o.pg.err /\ f.mn = NewMenu
  <1> DEFINE c == Cleared(o)
             f == [c EXCEPT !.mn = NewMenu]
  <1>1. /\ c \in Machine /\ c.crsrs = <<>> /\ c.pg.content = None /\ c.pg.extra = FALSE
        /\ c.pg.err = o.pg.err
    BY ClearedIs
  <1>2. Fresh(o) = f
    BY DEF Fresh
  <1> HIDE DEF c
  <1>3. f \in Machine /\ f.pg = c.pg /\ f.crsrs = c.crsrs /\ f.mn = NewMenu
    BY <1>1, NewVmIs DEF Machine
  <1> HIDE DEF f
  <1>4. QED BY <1>1, <1>2, <1>3

\* And with an error to show.
LEMMA ErrIs ==
  ASSUME NEW o \in Machine, NEW e \in BOOLEAN
  PROVE  LET f == [o EXCEPT !.pg.err = e]
         IN  /\ f \in Machine /\ f.crsrs = o.crsrs /\ f.mn = o.mn
             /\ f.pg.content = o.pg.content /\ f.pg.extra = o.pg.extra /\ f.pg.err = e
  <1> DEFINE g == [o.pg EXCEPT !.err = e]
             f == [o EXCEPT !.pg = g]
  <1>1. o.pg \in PageSet
    BY DEF Machine
  <1>2. g \in PageSet /\ g.content = o.pg.content /\ g.extra = o.pg.extra /\ g.err = e
    BY <1>1 DEF PageSet
  <1>3. [o EXCEPT !.pg.err = e] = f
    OBVIOUS
  <1> HIDE DEF g
  <1>4. f \in Machine /\ f.pg = g /\ f.crsrs = o.crsrs /\ f.mn = o.mn
    BY <1>2 DEF Machine
  <1> HIDE DEF f
  <1>5. QED BY <1>2, <1>3, <1>4

\* What the code of a node adds.
LEMMA FilledIs ==
  ASSUME NEW o \in Machine, NEW n \in Nodes
  PROVE  LET f == Filled(o, n)
         IN  /\ f \in Machine /\ f.crsrs = o.crsrs
             /\ f.pg.content = n.content /\ f.pg.extra = o.pg.extra /\ f.pg.err = o.pg.err
             /\ f.mn.items = o.mn.items \o n.items
             /\ f.mn.next = (o.mn.next \/ n.next) /\ f.mn.prev = (o.mn.prev \/ n.prev)
             /\ f.mn.sink = n.msink /\ f.mn.keep = o.mn.keep
             /\ f.mn.pageCount = IF n.msink /\ o.mn.pageCount = 0 THEN 1 ELSE o.mn.pageCount
  <1> DEFINE f  == Filled(o, n)
             g  == [o.pg EXCEPT !.content = n.content]
             it == o.mn.items \o n.items
             nx == o.mn.next \/ n.next
             pv == o.mn.prev \/ n.prev
             c  == IF n.msink /\ o.mn.pageCount = 0 THEN 1 ELSE o.mn.pageCount
             k  == n.msink
             m  == [o.mn EXCEPT !.items = it, !.next = nx, !.prev = pv, !.sink = k,
                                !.pageCount = c]
  <1>1. o.pg \in PageSet /\ o.mn \in MenuSet
    BY DEF Machine
  <1>2. g \in PageSet /\ g.content = n.content /\ g.extra = o.pg.extra /\ g.err = o.pg.err
    <2>1. n.content \in Lines \cup {None}
      BY NodeFields
    <2>2. QED BY <1>1, <2>1 DEF PageSet
  <1>3. it \in Lines /\ nx \in BOOLEAN /\ pv \in BOOLEAN /\ k \in BOOLEAN /\ c \in Nat
    <2>1. n.items \in Lines /\ o.mn.items \in Lines
      BY <1>1, NodeFields, MenuFields
    <2>2. it \in Lines
      BY <2>1 DEF Lines
    <2> HIDE DEF it
    <2>3. c \in Nat
      BY <1>1, MenuFields
    <2> HIDE DEF c
    <2>4. QED BY <1>1, <2>2, <2>3, MenuFields, NodeFields
  <1>4. f = [o EXCEPT !.pg = g, !.mn = m]
    <2>1. f = [o EXCEPT !.pg.content = n.content, !.mn.items = it, !.mn.next = nx,
                        !.mn.prev = pv, !.mn.sink = k, !.mn.pageCount = c]
      BY DEF Filled
    <2> HIDE DEF it, nx, pv, c, f, k
    <2>2. QED BY <2>1 DEF Machine
  <1> HIDE DEF g, it, nx, pv, c, f, k
  <1>5. /\ m \in MenuSet /\ m.items = it /\ m.next = nx /\ m.prev = pv /\ m.sink = k
        /\ m.pageCount = c /\ m.keep = o.mn.keep
    BY <1>1, <1>3 DEF MenuSet
  <1> HIDE DEF m
  <1>6. f \in Machine /\ f.pg = g /\ f.mn = m /\ f.crsrs = o.crsrs
    BY <1>1, <1>2, <1>4, <1>5 DEF Machine
  <1>7. QED BY <1>2, <1>5, <1>6 DEF f, it, nx, pv, c, k

\* After a Vm.Reset the machine has what the node gave it.
LEMMA FilledLoaded ==
  ASSUME NEW o \in Machine, NEW n \in Nodes, o.crsrs = <<>>, o.pg.extra = FALSE, o.mn = NewMenu
  PROVE  LET f == Filled(o, n) IN f \in Machine /\ f.pg.err = o.pg.err /\ Loaded(f, n)
  <1> DEFINE f == Filled(o, n)
  <1>1. /\ o.mn.items = <<>> /\ o.mn.next = FALSE /\ o.mn.prev = FALSE /\ o.mn.keep = TRUE
        /\ o.mn.pageCount = 0
    BY DEF NewMenu
  <1>2. <<>> \o n.items = n.items
    BY NodeFields DEF Lines
  <1>3. /\ f \in Machine /\ f.crsrs = o.crsrs
        /\ f.pg.content = n.content /\ f.pg.extra = o.pg.extra /\ f.pg.err = o.pg.err
        /\ f.mn.items = o.mn.items \o n.items
        /\ f.mn.next = (o.mn.next \/ n.next) /\ f.mn.prev = (o.mn.prev \/ n.prev)
        /\ f.mn.sink = n.msink /\ f.mn.keep = o.mn.keep
        /\ f.mn.pageCount = IF n.msink /\ o.mn.pageCount = 0 THEN 1 ELSE o.mn.pageCount
    BY FilledIs
  <1>4. n.next \in BOOLEAN /\ n.prev \in BOOLEAN
    BY NodeFields
  <1> HIDE DEF f
  <1>5. f.mn.next = n.next /\ f.mn.prev = n.prev
    BY <1>1, <1>3, <1>4
  <1>6. QED BY <1>1, <1>2, <1>3, <1>5 DEF Loaded, f

-----------------------------------------------------------------------------
(* Render.                                                                 *)

\* The menu at a page: its items, and the browse items that are offered.
LEMMA MenuLinesAre ==
  ASSUME NEW m \in MenuSet, NEW i \in Nat
  PROVE  /\ MenuLines(m, i) \in Lines
         /\ Appended(MenuLines(m, i)) = Appended(m.items)
              + (IF OffersNext(m, i) THEN NextSize + 1 ELSE 0)
              + (IF OffersPrev(m, i) THEN PrevSize + 1 ELSE 0)
         /\ m.pageCount \in {0, 1} => MenuLines(m, 0) = m.items
  <1> DEFINE a == m.items \o (IF OffersNext(m, i) THEN <<NextSize>> ELSE <<>>)
             b == a \o (IF OffersPrev(m, i) THEN <<PrevSize>> ELSE <<>>)
  <1>1. m.items \in Seq(Nat) /\ NextSize \in Nat /\ PrevSize \in Nat
    BY MenuFields, PagesAssumption DEF Lines
  <1>2. \A s \in Seq(Nat), x \in Nat : s \o <<>> = s /\ s \o <<x>> = Append(s, x)
    OBVIOUS
  <1>3. a = IF OffersNext(m, i) THEN Append(m.items, NextSize) ELSE m.items
    BY <1>1, <1>2
  <1>4. a \in Seq(Nat)
        /\ Appended(a) = Appended(m.items) + (IF OffersNext(m, i) THEN NextSize + 1 ELSE 0)
    <2>1. Append(m.items, NextSize) \in Seq(Nat)
      BY <1>1
    <2>2. Appended(Append(m.items, NextSize)) = Appended(m.items) + NextSize + 1
      BY <1>1, AppendedAppend
    <2>3. Appended(m.items) \in Nat
      BY <1>1, AppendedType
    <2> HIDE DEF a
    <2>4. QED BY <1>1, <1>3, <2>1, <2>2, <2>3
  <1> HIDE DEF a
  <1>5. b = IF OffersPrev(m, i) THEN Append(a, PrevSize) ELSE a
    BY <1>1, <1>2, <1>4
  <1>6. b \in Seq(Nat)
        /\ Appended(b) = Appended(a) + (IF OffersPrev(m, i) THEN PrevSize + 1 ELSE 0)
    <2>1. Append(a, PrevSize) \in Seq(Nat)
      BY <1>1, <1>4
    <2>2. Appended(Append(a, PrevSize)) = Appended(a) + PrevSize + 1
      BY <1>1, <1>4, AppendedAppend
    <2>3. Appended(a) \in Nat
      BY <1>4, AppendedType
    <2> HIDE DEF b
    <2>4. QED BY <1>1, <1>4, <1>5, <2>1, <2>2, <2>3
  <1>7. MenuLines(m, i) = b
    BY DEF MenuLines, a
  <1>8. m.pageCount \in {0, 1} => MenuLines(m, 0) = m.items
    <2>1. m.pageCount \in {0, 1} => ~OffersNext(m, 0) /\ ~OffersPrev(m, 0)
      BY DEF OffersNext, OffersPrev
    <2>2. QED BY <1>1, <1>2, <2>1 DEF MenuLines
  <1> HIDE DEF b
  <1>9. QED BY <1>4, <1>6, <1>7, <1>8 DEF Lines

\* What is composed for a page that the menu has.
LEMMA ComposedIs ==
  ASSUME NEW o \in Machine, NEW n, NEW ls, NEW ns \in Cursors, NEW i, NEW limit,
         InRange(o.mn, i)
  PROVE  LET c     == Composed(o, n, ls, ns, i, limit)
             total == TemplateSize(o, n) + Joined(ls, ns) + Appended(MenuLines(o.mn, i))
         IN  /\ c.o \in Machine /\ c.o.pg = o.pg
             /\ c.page.kind \in {"ok", "fail"} /\ c.page.ns \in Cursors
             /\ ~(limit > 0 /\ total > limit) => c.page.kind = "ok"
             /\ c.page.next => OffersNext(o.mn, i)
             /\ c.page.prev => OffersPrev(o.mn, i)
  <1> DEFINE c     == Composed(o, n, ls, ns, i, limit)
             total == TemplateSize(o, n) + Joined(ls, ns) + Appended(MenuLines(o.mn, i))
             u     == Used(o.mn)
             done  == [o EXCEPT !.mn = u]
             over  == limit > 0 /\ total > limit
             page  == [kind |-> "ok", ls |-> ls, ns |-> ns, items |-> Len(o.mn.items),
                       next |-> OffersNext(o.mn, i), prev |-> OffersPrev(o.mn, i)]
  <1>1. u \in MenuSet
    BY UsedIs DEF Machine
  <1>2. c = IF over THEN Outcome(done, Nothing("fail")) ELSE Outcome(done, page)
    BY DEF Composed
  <1> HIDE DEF u, over, c
  <1>3. done \in Machine /\ done.pg = o.pg
    BY <1>1 DEF Machine
  <1> HIDE DEF done
  <1>4. CASE over
    <2>1. c.o = done /\ c.page = Nothing("fail")
      BY <1>2, <1>4 DEF Outcome
    <2>2. /\ c.page.kind = "fail" /\ c.page.ns = <<>>
          /\ c.page.next = FALSE /\ c.page.prev = FALSE
      BY <2>1 DEF Nothing
    <2>3. <<>> \in Cursors
      BY DEF Cursors
    <2>4. QED BY <1>3, <1>4, <2>1, <2>2, <2>3 DEF over, c
  <1>5. CASE ~over
    <2>1. c.o = done /\ c.page = page
      BY <1>2, <1>5 DEF Outcome
    <2>2. /\ c.page.kind = "ok" /\ c.page.ns = ns
          /\ c.page.next = OffersNext(o.mn, i) /\ c.page.prev = OffersPrev(o.mn, i)
      BY <2>1
    <2>3. QED BY <1>3, <1>5, <2>1, <2>2 DEF over, c
  <1>6. QED BY <1>4, <1>5

\* What no page shows.
LEMMA NothingIs ==
  ASSUME NEW kind
  PROVE  /\ Nothing(kind).kind = kind /\ Nothing(kind).ns \in Cursors
         /\ Nothing(kind).next = FALSE /\ Nothing(kind).prev = FALSE
  BY DEF Nothing, Cursors

\* Without a sizer only the first page is shown, and it offers no other.
LEMMA WholeIs ==
  ASSUME NEW o \in Machine, NEW n, NEW i \in Nat
  PROVE  LET w == Whole(o, n, i)
         IN  /\ w.o \in Machine /\ w.o.pg.err = o.pg.err
             /\ w.page.kind \in {"ok", "fail"} /\ w.page.ns \in Cursors
             /\ i = 0 => w.page.kind = "ok"
             /\ w.page.next \/ w.page.prev => o.mn.pageCount > 1
  <1> DEFINE ls == IF o.pg.content = None THEN <<>> ELSE o.pg.content
             ns == [k \in DOMAIN ls |-> k]
             c  == Composed(o, n, ls, ns, 0, 0)
             w  == Whole(o, n, i)
  <1>0. o.pg \in PageSet /\ o.mn \in MenuSet
    BY DEF Machine
  <1>1. ls \in Seq(Nat)
    BY <1>0, PageFields DEF Lines
  <1> HIDE DEF ls
  <1>2. ns \in Cursors
    <2>1. DOMAIN ls = 1 .. Len(ls) /\ Len(ls) \in Nat
      BY <1>1
    <2>2. ns \in [1 .. Len(ls) -> Nat \ {0}]
      BY <2>1
    <2> HIDE DEF ns
    <2>3. QED BY <2>1, <2>2 DEF Cursors
  <1>3. InRange(o.mn, 0)
    BY <1>0, MenuFields DEF InRange
  <1>4. /\ c.o \in Machine /\ c.o.pg = o.pg
        /\ c.page.kind \in {"ok", "fail"} /\ c.page.ns \in Cursors
        /\ c.page.kind = "ok"
        /\ c.page.next => OffersNext(o.mn, 0)
        /\ c.page.prev => OffersPrev(o.mn, 0)
    <2> DEFINE total == TemplateSize(o, n) + Joined(ls, ns) + Appended(MenuLines(o.mn, 0))
    <2> HIDE DEF ns, c
    <2>1. /\ c.o \in Machine /\ c.o.pg = o.pg
          /\ c.page.kind \in {"ok", "fail"} /\ c.page.ns \in Cursors
          /\ ~(0 > 0 /\ total > 0) => c.page.kind = "ok"
          /\ c.page.next => OffersNext(o.mn, 0)
          /\ c.page.prev => OffersPrev(o.mn, 0)
      BY <1>2, <1>3, ComposedIs DEF c
    <2> HIDE DEF total
    <2>2. QED BY <2>1
  <1>5. (OffersNext(o.mn, 0) => o.mn.pageCount > 1) /\ ~OffersPrev(o.mn, 0)
    BY <1>0, MenuFields DEF OffersNext, OffersPrev
  <1>6. w = IF i > 0 THEN Outcome(o, Nothing("fail")) ELSE c
    BY DEF Whole, ls
  <1> HIDE DEF c, w
  <1>7. CASE i > 0
    <2>1. w.o = o /\ w.page = Nothing("fail")
      BY <1>6, <1>7 DEF Outcome
    <2>2. /\ w.page.kind = "fail" /\ w.page.ns \in Cursors
          /\ w.page.next = FALSE /\ w.page.prev = FALSE
      BY <2>1, NothingIs
    <2>3. i # 0
      BY <1>7
    <2>4. QED BY <2>1, <2>2, <2>3 DEF w
  <1>8. CASE ~(i > 0)
    BY <1>4, <1>5, <1>6, <1>8 DEF w
  <1>9. QED BY <1>7, <1>8

\* The cursors of a split.
LEMMA CursorsAre ==
  ASSUME NEW closed \in Nat
  PROVE  LET c == Append(<<>>, 1) \o [k \in 1 .. closed |-> k + 1]
         IN  c \in Cursors /\ Len(c) = closed + 1 /\ \A i \in 1 .. closed + 1 : c[i] = i
  <1> DEFINE t == [k \in 1 .. closed |-> k + 1]
             N == Nat \ {0}
             c == Append(<<>>, 1) \o t
  <1>1. t \in [1 .. closed -> N]
    OBVIOUS
  <1>2. /\ t \in Seq(N) /\ Len(t) = closed /\ \A k \in 1 .. closed : t[k] = k + 1
    <2>1. \A k \in 1 .. closed : t[k] = k + 1
      OBVIOUS
    <2> HIDE DEF t, N
    <2>2. QED BY <1>1, <2>1
  <1> HIDE DEF t
  <1>3. Append(<<>>, 1) \in Seq(N) /\ Len(Append(<<>>, 1)) = 1 /\ Append(<<>>, 1)[1] = 1
    OBVIOUS
  <1> DEFINE h == Append(<<>>, 1)
  <1> HIDE DEF h, N
  <1>4. h \o t \in Seq(N) /\ Len(h \o t) = closed + 1
        /\ \A i \in 1 .. closed + 1 : (h \o t)[i] = IF i <= 1 THEN h[i] ELSE t[i - 1]
    BY <1>2, <1>3 DEF h
  <1>5. \A i \in 1 .. closed + 1 : (h \o t)[i] = i
    <2> SUFFICES ASSUME NEW i \in 1 .. closed + 1 PROVE (h \o t)[i] = i
      OBVIOUS
    <2>1. CASE i = 1
      <3>1. h[1] = 1
        BY <1>3 DEF h
      <3>2. (h \o t)[i] = h[i]
        BY <1>4, <2>1
      <3>3. QED BY <2>1, <3>1, <3>2
    <2>2. CASE i # 1
      <3>1. i - 1 \in 1 .. closed /\ ~(i <= 1)
        BY <2>2
      <3>2. t[i - 1] = (i - 1) + 1
        BY <1>2, <3>1
      <3>3. (h \o t)[i] = t[i - 1]
        BY <1>4, <3>1
      <3>4. QED BY <3>2, <3>3
    <2>3. QED BY <2>1, <2>2
  <1>6. QED BY <1>4, <1>5 DEF h, t, N, Cursors

\* What an outcome has.
LEMMA OutcomeIs == \A o, page : Outcome(o, page).o = o /\ Outcome(o, page).page = page
  BY DEF Outcome

\* How GetAt answers: an index out of range gives no page, and never the menu's error.
AtAnswers(o, n, ls, pages, i) ==
  LET a     == At(o, n, ls, pages, i)
      ns    == IF pages = <<>> THEN <<>> ELSE pages[i + 1]
      total == TemplateSize(o, n) + Joined(ls, ns) + Appended(MenuLines(o.mn, i))
  IN  /\ a.o \in Machine /\ a.o.pg = o.pg
      /\ a.page.kind \in {"ok", "fail", "panic"} /\ a.page.ns \in Cursors
      /\ i = 0 \/ i < Len(pages) => a.page.kind # "panic"
      /\ (i = 0 \/ i < Len(pages)) /\ ~(size > 0 /\ total > size) => a.page.kind = "ok"
      /\ a.page.next => i + 1 < Len(pages)
      /\ a.page.prev => i > 0 /\ i - 1 < Len(pages)

\* So it answers with the cursors of a split.
LEMMA AtIs ==
  ASSUME NEW o \in Machine, NEW n, NEW ls \in Seq(Nat), NEW pages \in Seq(Seq(1 .. Len(ls))),
         NEW closed \in Nat, NEW i \in Nat,
         Len(pages) \in {closed, closed + 1}, Len(pages) <= Len(ls),
         o.mn.pageCount = Len(pages), Len(o.crsrs) = closed + 1,
         \A k \in 1 .. closed + 1 : o.crsrs[k] = k
  PROVE  AtAnswers(o, n, ls, pages, i)
  <1> DEFINE a     == At(o, n, ls, pages, i)
             ns    == IF pages = <<>> THEN <<>> ELSE pages[i + 1]
             total == TemplateSize(o, n) + Joined(ls, ns) + Appended(MenuLines(o.mn, i))
             c     == Composed(o, n, ls, ns, i, size)
             L     == Len(pages)
  <1>1. L \in Nat /\ Len(ls) \in Nat /\ L <= Len(ls) /\ L \in {closed, closed + 1}
        /\ (L = 0 <=> pages = <<>>) /\ (Len(ls) = 0 <=> ls = <<>>)
    OBVIOUS
  <1>2. i = 0 \/ i < L => ns \in Cursors
    <2>1. CASE pages = <<>>
      BY <2>1 DEF Cursors
    <2>2. CASE pages # <<>>
      <3>1. i = 0 \/ i < L => i + 1 \in 1 .. L
        BY <1>1, <2>2
      <3> DEFINE S == Seq(1 .. Len(ls))
      <3>2. \A s \in S : s \in Seq(Nat \ {0})
        <4> DEFINE D == 1 .. Len(ls)
                   E == Nat \ {0}
        <4>1. D \subseteq E
          BY <1>1
        <4>2. S = Seq(D)
          OBVIOUS
        <4> HIDE DEF D, E, S
        <4>3. \A s \in S : s \in Seq(E)
          BY <4>1, <4>2
        <4>4. QED BY <4>3 DEF E
      <3>3. pages \in Seq(S)
        OBVIOUS
      <3> HIDE DEF S
      <3>4. \A k \in 1 .. L : pages[k] \in S
        BY <3>3
      <3>5. QED BY <2>2, <3>1, <3>2, <3>4 DEF Cursors
    <2>3. QED BY <2>1, <2>2
  <1> HIDE DEF L, ns, c
  <1>3. /\ InRange(o.mn, i) /\ (i = 0 \/ i < L) =>
            /\ c.o \in Machine /\ c.o.pg = o.pg
            /\ c.page.kind \in {"ok", "fail"} /\ c.page.ns \in Cursors
            /\ ~(size > 0 /\ total > size) => c.page.kind = "ok"
            /\ c.page.next => OffersNext(o.mn, i)
            /\ c.page.prev => OffersPrev(o.mn, i)
    <2>1. SUFFICES ASSUME InRange(o.mn, i), i = 0 \/ i < L
                   PROVE  /\ c.o \in Machine /\ c.o.pg = o.pg
                          /\ c.page.kind \in {"ok", "fail"} /\ c.page.ns \in Cursors
                          /\ ~(size > 0 /\ total > size) => c.page.kind = "ok"
                          /\ c.page.next => OffersNext(o.mn, i)
                          /\ c.page.prev => OffersPrev(o.mn, i)
      OBVIOUS
    <2>2. ns \in Cursors
      BY <1>2, <2>1
    <2>3. QED BY <2>1, <2>2, ComposedIs DEF c
  <1>4. i = 0 \/ i < L => InRange(o.mn, i)
    BY <1>1 DEF InRange, L
  <1>5. i = 0 \/ i < L =>
          (OffersNext(o.mn, i) => i + 1 < L) /\ (OffersPrev(o.mn, i) => i > 0 /\ i - 1 < L)
    BY <1>1 DEF OffersNext, OffersPrev, L
  <1>6. i = 0 \/ i < L => a = c
    <2>1. SUFFICES ASSUME i = 0 \/ i < L PROVE a = c
      OBVIOUS
    <2>2. CASE ls = <<>>
      <3>1. ns = <<>>
        BY <1>1, <2>2 DEF ns
      <3>2. a = Composed(o, n, ls, <<>>, i, size)
        BY <2>2 DEF At
      <3>3. QED BY <3>1, <3>2 DEF c
    <2>3. CASE ls # <<>>
      <3>1. i < Len(o.crsrs) /\ o.crsrs[i + 1] = i + 1 /\ ~(i + 1 > Len(pages) /\ i > 0)
        <4>1. i \in 0 .. closed /\ i + 1 \in 1 .. closed + 1
          BY <1>1, <2>1
        <4>2. i < Len(o.crsrs)
          BY <4>1
        <4>3. o.crsrs[i + 1] = i + 1
          BY <4>1
        <4>4. ~(i + 1 > L /\ i > 0)
          BY <1>1, <2>1
        <4>5. QED BY <4>2, <4>3, <4>4 DEF L
      <3>2. a = Composed(o, n, ls, IF pages = <<>> THEN <<>> ELSE pages[i + 1], i, size)
        <4>1. ~(i >= Len(o.crsrs))
          BY <1>1, <3>1
        <4>2. QED BY <2>3, <3>1, <4>1 DEF At
      <3>3. QED BY <3>2 DEF c, ns
    <2>4. QED BY <2>2, <2>3
  <1>7. ~(i = 0 \/ i < L) => a \in {Outcome(o, Nothing("fail")), Outcome(o, Nothing("panic"))}
    <2>1. SUFFICES ASSUME ~(i = 0 \/ i < L)
                   PROVE  a \in {Outcome(o, Nothing("fail")), Outcome(o, Nothing("panic"))}
      OBVIOUS
    <2>2. i > 0 /\ i + 1 > L
      BY <1>1, <2>1
    <2>3. CASE ls = <<>>
      <3>1. ~InRange(o.mn, i) /\ o.mn.pageCount = 0
        BY <1>1, <2>2, <2>3 DEF InRange, L
      <3>2. a = Outcome(o, Nothing("fail"))
        BY <2>3, <3>1 DEF At, Composed
      <3>3. QED BY <3>2
    <2>4. CASE ls # <<>> /\ i >= Len(o.crsrs)
      BY <2>4 DEF At
    <2>5. CASE ls # <<>> /\ ~(i >= Len(o.crsrs))
      <3>1. o.crsrs[i + 1] = i + 1
        <4>1. i + 1 \in 1 .. closed + 1
          BY <1>1, <2>5
        <4>2. QED BY <4>1
      <3>2. a = Outcome(o, Nothing("panic"))
        BY <2>2, <2>5, <3>1 DEF At, L
      <3>3. QED BY <3>2
    <2>6. QED BY <2>3, <2>4, <2>5
  <1> HIDE DEF a, total
  <1>8. CASE i = 0 \/ i < L
    <2>1. /\ a.o \in Machine /\ a.o.pg = o.pg
          /\ a.page.kind \in {"ok", "fail"} /\ a.page.ns \in Cursors
          /\ ~(size > 0 /\ total > size) => a.page.kind = "ok"
          /\ a.page.next => i + 1 < L
          /\ a.page.prev => i > 0 /\ i - 1 < L
      BY <1>3, <1>4, <1>5, <1>6, <1>8
    <2>2. QED BY <1>8, <2>1 DEF L, a, ns, total, AtAnswers
  <1>9. CASE ~(i = 0 \/ i < L)
    <2>1. PICK k \in {"fail", "panic"} : a = Outcome(o, Nothing(k))
      BY <1>7, <1>9
    <2>2. /\ a.o = o /\ a.page.kind = k /\ a.page.ns \in Cursors
          /\ a.page.next = FALSE /\ a.page.prev = FALSE
      <3>1. a.o = o /\ a.page = Nothing(k)
        BY <2>1, OutcomeIs, Zenon
      <3>2. QED BY <3>1, NothingIs
    <2>3. QED BY <1>9, <2>2 DEF L, a, ns, total, AtAnswers
  <1>10. QED BY <1>8, <1>9

\* The lines of a sink are lines.
LEMMA SinkLinesType ==
  ASSUME NEW o \in Machine
  PROVE  SinkLines(o) \in Seq(Nat)
  <1>1. o.pg \in PageSet /\ o.mn \in MenuSet
    BY DEF Machine
  <1>2. MenuLines(o.mn, 0) \in Seq(Nat)
    BY <1>1, MenuLinesAre DEF Lines
  <1>3. <<0>> \in Seq(Nat) /\ <<>> \in Seq(Nat)
    OBVIOUS
  <1>4. o.pg.content = None \/ o.pg.content \in Seq(Nat)
    BY <1>1, PageFields DEF Lines
  <1>5. QED BY <1>2, <1>3, <1>4 DEF SinkLines

\* What is split, what of the menu is kept, and where the pages come from.
Before(o, n) == TemplateSize(Prepared(o), n) + Appended(MenuLines(Prepared(o).mn, 0))

Pieces(o, n) ==
  JoinSink(SinkLines(o), size - Before(o, n), NextReserve(o.mn), PrevReserve(o.mn))

\* What is split gives pages of lines.
LEMMA PiecesType ==
  ASSUME NEW o \in Machine, NEW n \in Nodes, size \in Sizes
  PROVE  LET j == Pieces(o, n)
         IN  /\ Before(o, n) \in Nat /\ TemplateSize(Prepared(o), n) \in Nat
             /\ j = JoinSink(SinkLines(o), size - Before(o, n),
                            NextReserve(o.mn), PrevReserve(o.mn))
             /\ j.ok \in BOOLEAN /\ j.closed \in Nat
             /\ j.pages \in Seq(Seq(1 .. Len(SinkLines(o))))
             /\ Len(j.pages) \in {j.closed, j.closed + 1} /\ Len(j.pages) <= Len(SinkLines(o))
  <1> DEFINE p  == Prepared(o)
             ls == SinkLines(o)
             b  == Before(o, n)
             j  == Pieces(o, n)
             x  == size - b
  <1>1. ls \in Seq(Nat)
    BY SinkLinesType
  <1>2. b \in Nat /\ TemplateSize(p, n) \in Nat
    <2>1. p.mn \in MenuSet
      BY PreparedIs DEF Machine
    <2> HIDE DEF p
    <2>2. Appended(MenuLines(p.mn, 0)) \in Nat
      BY <2>1, MenuLinesAre, AppendedType DEF Lines
    <2>3. TemplateSize(p, n) \in Nat
      BY NodeFields, PagesAssumption DEF TemplateSize
    <2>4. b = TemplateSize(p, n) + Appended(MenuLines(p.mn, 0))
      BY DEF Before, p
    <2> HIDE DEF b
    <2>5. QED BY <2>2, <2>3, <2>4
  <1>3. size \in Nat /\ x \in Int
    <2> HIDE DEF b
    <2>1. QED BY <1>2, PagesAssumption
  <1>4. j = JoinSink(ls, x, NextReserve(o.mn), PrevReserve(o.mn))
    BY DEF Pieces
  <1>5. NextSym \in Nat /\ PrevSym \in Nat /\ U32 \in Nat \ {0}
    <2>1. NextSym \in Nat /\ PrevSym \in Nat /\ U32 \in Nat /\ size < U32
      BY PagesAssumption
    <2>2. QED BY <1>3, <2>1
  <1> HIDE DEF j, ls, b, p, x
  <1>6. /\ j.ok \in BOOLEAN /\ j.closed \in Nat /\ j.pages \in Seq(Seq(1 .. Len(ls)))
        /\ Len(j.pages) \in {j.closed, j.closed + 1} /\ Len(j.pages) <= Len(ls)
    <2>1. NextReserve(o.mn) \in Nat /\ PrevReserve(o.mn) \in Nat
      BY <1>5 DEF NextReserve, PrevReserve
    <2>2. QED BY <1>1, <1>3, <1>4, <1>5, <2>1, JoinSinkType
  <1>7. QED BY <1>2, <1>4, <1>6 DEF j, ls, b, p, x

\* Split ends early with an error, or comes to GetAt with a cursor for each page.
LEMMA SplitIs ==
  ASSUME NEW o \in Machine, NEW n \in Nodes, NEW i, o.crsrs = <<>>, size \in Sizes
  PROVE  LET j == Pieces(o, n)
         IN  \E q \in Machine, r \in Machine :
               /\ q.pg.err = o.pg.err /\ r.pg = Prepared(o).pg
               /\ r.mn.items = IF o.mn.sink \/ ~o.mn.keep THEN <<>> ELSE o.mn.items
               /\ r.mn.next = o.mn.next /\ r.mn.prev = o.mn.prev
               /\ r.mn.pageCount = Len(j.pages)
               /\ Len(r.crsrs) = j.closed + 1 /\ \A k \in 1 .. j.closed + 1 : r.crsrs[k] = k
               /\ Split(o, n, i) =
                    IF o.mn.sink /\ o.pg.content # None THEN Outcome(o, Nothing("fail"))
                    ELSE IF Before(o, n) > size \/ ~j.ok THEN Outcome(q, Nothing("fail"))
                    ELSE At(r, n, SinkLines(o), j.pages, i)
  <1> DEFINE p  == Prepared(o)
             ls == SinkLines(o)
             b  == Before(o, n)
             j  == Pieces(o, n)
             u  == Used(p.mn)
             q  == [p EXCEPT !.mn = u, !.crsrs = Append(@, 1)]
             m  == [u EXCEPT !.pageCount = Len(j.pages)]
             t  == [k \in 1 .. j.closed |-> k + 1]
             c  == Append(<<>>, 1) \o t
             r  == [q EXCEPT !.crsrs = c, !.mn = m]
  <1>1. /\ p \in Machine /\ p.crsrs = <<>> /\ p.pg.err = o.pg.err
        /\ p.mn.items = IF o.mn.sink THEN <<>> ELSE o.mn.items
        /\ p.mn.keep = (o.mn.keep /\ ~o.mn.sink)
        /\ p.mn.next = o.mn.next /\ p.mn.prev = o.mn.prev
    BY PreparedIs
  <1>2. p.mn \in MenuSet /\ p.pg \in PageSet
    BY <1>1 DEF Machine
  <1>5. JoinSink(ls, size - b, NextReserve(u), PrevReserve(u)) = j
    <2>1. u.next = o.mn.next /\ u.prev = o.mn.prev
      BY <1>1, <1>2, UsedIs
    <2>2. NextReserve(u) = NextReserve(o.mn) /\ PrevReserve(u) = PrevReserve(o.mn)
      BY <2>1, ReserveBy
    <2> HIDE DEF u
    <2>3. QED BY <2>2 DEF Pieces
  <1>6. /\ j.ok \in BOOLEAN /\ j.closed \in Nat /\ j.pages \in Seq(Seq(1 .. Len(ls)))
        /\ Len(j.pages) \in {j.closed, j.closed + 1} /\ Len(j.pages) <= Len(ls)
    BY PiecesType
  <1>7. Len(j.pages) \in Nat
    <2> HIDE DEF j
    <2>1. QED BY <1>6
  <1>8. /\ u \in MenuSet /\ u.items = IF p.mn.keep THEN p.mn.items ELSE <<>>
        /\ u.next = p.mn.next /\ u.prev = p.mn.prev
    BY <1>2, UsedIs
  <1> HIDE DEF u, j
  <1>9. /\ m \in MenuSet /\ m.items = u.items /\ m.next = u.next /\ m.prev = u.prev
        /\ m.pageCount = Len(j.pages)
    BY <1>7, <1>8, CountedIs
  <1>10. Append(<<>>, 1) \in Cursors
    BY DEF Cursors
  <1>11. c \in Cursors /\ Len(c) = j.closed + 1 /\ \A k \in 1 .. j.closed + 1 : c[k] = k
    BY <1>6, CursorsAre
  <1>12. q \in Machine /\ q.pg = p.pg /\ q.mn = u /\ q.crsrs = Append(<<>>, 1)
    <2> HIDE DEF p
    <2>1. QED BY <1>1, <1>8, <1>10 DEF Machine
  <1>13. Split(o, n, i) =
           IF o.mn.sink /\ o.pg.content # None THEN Outcome(o, Nothing("fail"))
           ELSE IF Before(o, n) > size \/ ~j.ok THEN Outcome(q, Nothing("fail"))
           ELSE At(r, n, SinkLines(o), j.pages, i)
    <2> DEFINE r2 == [q EXCEPT !.crsrs = @ \o t, !.mn.pageCount = Len(j.pages)]
               q0 == [p EXCEPT !.mn = Used(@), !.crsrs = Append(@, 1)]
               j0 == JoinSink(ls, size - b, NextReserve(q0.mn), PrevReserve(q0.mn))
               r0 == [q0 EXCEPT !.crsrs = @ \o [k \in 1 .. j0.closed |-> k + 1],
                                !.mn.pageCount = Len(j0.pages)]
    <2>1. r2 = r
      <3> HIDE DEF q, t
      <3>1. q.mn = u /\ q.crsrs = Append(<<>>, 1)
        BY <1>12
      <3>2. r2 = [q EXCEPT !.crsrs = q.crsrs \o t, !.mn = [q.mn EXCEPT !.pageCount = Len(j.pages)]]
        BY <1>12 DEF Machine
      <3>3. QED BY <3>1, <3>2
    <2>2. Split(o, n, i) =
            IF o.mn.sink /\ o.pg.content # None THEN Outcome(o, Nothing("fail"))
            ELSE IF b > size THEN Outcome(q0, Nothing("fail"))
            ELSE IF ~j0.ok THEN Outcome(q0, Nothing("fail"))
            ELSE At(r0, n, ls, j0.pages, i)
      BY DEF Split, Before
    <2>3. q0 = q
      BY DEF u
    <2>4. q0.mn = u
      BY <1>12, <2>3
    <2> HIDE DEF q0, q, b
    <2>5. j0 = j
      BY <1>5, <2>4 DEF b
    <2> HIDE DEF j0
    <2>6. r0 = r2
      BY <2>3, <2>5
    <2> HIDE DEF r0, r2, r
    <2>7. QED BY <2>1, <2>2, <2>3, <2>5, <2>6 DEF b
  <1> HIDE DEF m, c, q
  <1>14. r \in Machine /\ r.pg = p.pg /\ r.mn = m /\ r.crsrs = c
    BY <1>9, <1>11, <1>12 DEF Machine
  <1> HIDE DEF r
  <1>15. m.items = IF o.mn.sink \/ ~o.mn.keep THEN <<>> ELSE o.mn.items
    BY <1>1, <1>8, <1>9
  <1>16. /\ q.pg.err = o.pg.err /\ r.pg = Prepared(o).pg
         /\ r.mn.items = IF o.mn.sink \/ ~o.mn.keep THEN <<>> ELSE o.mn.items
         /\ r.mn.next = o.mn.next /\ r.mn.prev = o.mn.prev
         /\ r.mn.pageCount = Len(j.pages)
         /\ Len(r.crsrs) = j.closed + 1 /\ \A k \in 1 .. j.closed + 1 : r.crsrs[k] = k
    BY <1>1, <1>8, <1>9, <1>11, <1>12, <1>14, <1>15
  <1>17. QED BY <1>12, <1>13, <1>14, <1>16 DEF j

\* The length of some lines of a sink is a number.
LEMMA JoinedType ==
  ASSUME NEW ls \in Seq(Nat), NEW ns \in Seq(1 .. Len(ls))
  PROVE  Joined(ls, ns) \in Int
  <1>1. LinesOf(ls, ns) \in Seq(Nat)
    BY LinesOfType
  <1>2. Appended(LinesOf(ls, ns)) \in Nat
    BY <1>1, AppendedType
  <1>3. Joined(ls, ns) = IF ns = <<>> THEN 0 ELSE Appended(LinesOf(ls, ns)) - 1
    BY DEF Joined, LinesOf
  <1>4. QED BY <1>2, <1>3

\* Whether all is well up to GetAt.
Splits(o, n) == /\ ~(o.mn.sink /\ o.pg.content # None)
                /\ Before(o, n) <= size /\ Pieces(o, n).ok

\* The most that page i takes.
Taken(o, n, i) ==
  LET pages == Pieces(o, n).pages
  IN  TemplateSize(Prepared(o), n)
        + Joined(SinkLines(o), IF pages = <<>> THEN <<>> ELSE pages[i + 1])
        + Appended(IF o.mn.sink \/ ~o.mn.keep THEN <<>> ELSE o.mn.items)
        + (IF o.mn.next /\ i + 1 < Len(pages) THEN NextSize + 1 ELSE 0)
        + (IF o.mn.prev /\ i > 0 /\ i < Len(pages) THEN PrevSize + 1 ELSE 0)

\* What Split gives: only an index out of range panics, and the pages before and after
\* are offered where they are.
LEMMA SplitType ==
  ASSUME NEW o \in Machine, NEW n \in Nodes, NEW i \in Nat, o.crsrs = <<>>, size \in Sizes
  PROVE  LET s == Split(o, n, i)
             L == Len(Pieces(o, n).pages)
         IN  /\ s.o \in Machine /\ s.o.pg.err = o.pg.err
             /\ s.page.kind \in {"ok", "fail", "panic"} /\ s.page.ns \in Cursors
             /\ i = 0 \/ (Splits(o, n) /\ i < L) => s.page.kind # "panic"
             /\ Splits(o, n) /\ (i = 0 \/ i < L) /\ Taken(o, n, i) <= size => s.page.kind = "ok"
             /\ s.page.next => Splits(o, n) /\ i + 1 < L
             /\ s.page.prev => Splits(o, n) /\ i > 0 /\ i - 1 < L
  <1> DEFINE s  == Split(o, n, i)
             ls == SinkLines(o)
             j  == Pieces(o, n)
             L  == Len(j.pages)
             ns == IF j.pages = <<>> THEN <<>> ELSE j.pages[i + 1]
             it == IF o.mn.sink \/ ~o.mn.keep THEN <<>> ELSE o.mn.items
  <1>1. PICK q \in Machine, r \in Machine :
          /\ q.pg.err = o.pg.err /\ r.pg = Prepared(o).pg
          /\ r.mn.items = it
          /\ r.mn.next = o.mn.next /\ r.mn.prev = o.mn.prev
          /\ r.mn.pageCount = L
          /\ Len(r.crsrs) = j.closed + 1 /\ \A k \in 1 .. j.closed + 1 : r.crsrs[k] = k
          /\ s = IF o.mn.sink /\ o.pg.content # None THEN Outcome(o, Nothing("fail"))
                 ELSE IF Before(o, n) > size \/ ~j.ok THEN Outcome(q, Nothing("fail"))
                 ELSE At(r, n, ls, j.pages, i)
    BY SplitIs
  <1>2. ls \in Seq(Nat)
    BY SinkLinesType
  <1>3. /\ j.ok \in BOOLEAN /\ j.closed \in Nat
        /\ j.pages \in Seq(Seq(1 .. Len(ls)))
        /\ Len(j.pages) \in {j.closed, j.closed + 1} /\ Len(j.pages) <= Len(ls)
        /\ Before(o, n) \in Nat /\ TemplateSize(Prepared(o), n) \in Nat
    BY PiecesType
  <1>4. size \in Nat
    BY PagesAssumption
  <1> DEFINE a     == At(r, n, ls, j.pages, i)
             total == TemplateSize(r, n) + Joined(ls, ns) + Appended(MenuLines(r.mn, i))
  <1> HIDE DEF j, ls, it
  <1>5. /\ a.o \in Machine /\ a.o.pg = r.pg
        /\ a.page.kind \in {"ok", "fail", "panic"} /\ a.page.ns \in Cursors
        /\ i = 0 \/ i < L => a.page.kind # "panic"
        /\ (i = 0 \/ i < L) /\ ~(size > 0 /\ total > size) => a.page.kind = "ok"
        /\ a.page.next => i + 1 < L
        /\ a.page.prev => i > 0 /\ i - 1 < L
    <2> DEFINE pages  == j.pages
               closed == j.closed
    <2>1. /\ pages \in Seq(Seq(1 .. Len(ls))) /\ closed \in Nat
          /\ Len(pages) \in {closed, closed + 1} /\ Len(pages) <= Len(ls)
          /\ r.mn.pageCount = Len(pages) /\ Len(r.crsrs) = closed + 1
          /\ \A k \in 1 .. closed + 1 : r.crsrs[k] = k
      BY <1>1, <1>3
    <2> HIDE DEF pages, closed
    <2>2. AtAnswers(r, n, ls, pages, i)
      BY <1>2, <2>1, AtIs
    <2>3. QED BY <2>2 DEF AtAnswers, pages
  <1>6. L \in Nat
    <2> DEFINE S == Seq(1 .. Len(ls))
    <2>1. j.pages \in Seq(S)
      BY <1>3
    <2> HIDE DEF S
    <2>2. QED BY <2>1
  <1>7. (i = 0 \/ i < L) => total \in Int /\ Taken(o, n, i) \in Int /\ total <= Taken(o, n, i)
    <2>1. SUFFICES ASSUME i = 0 \/ i < L
                   PROVE  total \in Int /\ Taken(o, n, i) \in Int /\ total <= Taken(o, n, i)
      OBVIOUS
    <2> DEFINE T  == TemplateSize(Prepared(o), n)
               J  == Joined(ls, ns)
               A  == Appended(it)
               x  == IF OffersNext(r.mn, i) THEN NextSize + 1 ELSE 0
               y  == IF OffersPrev(r.mn, i) THEN PrevSize + 1 ELSE 0
               x2 == IF o.mn.next /\ i + 1 < L THEN NextSize + 1 ELSE 0
               y2 == IF o.mn.prev /\ i > 0 /\ i < L THEN PrevSize + 1 ELSE 0
    <2>2. TemplateSize(r, n) = T
      BY <1>1 DEF TemplateSize
    <2>3. Appended(MenuLines(r.mn, i)) = Appended(r.mn.items) + x + y
      BY MenuLinesAre DEF Machine
    <2>4. NextSize \in Nat /\ PrevSize \in Nat
      BY PagesAssumption
    <2>5. x <= x2 /\ y <= y2 /\ {x, x2, y, y2} \subseteq Nat
      <3>1. OffersNext(r.mn, i) => o.mn.next /\ i + 1 < L
        BY <1>1, <1>6, <2>1 DEF OffersNext
      <3>2. OffersPrev(r.mn, i) => o.mn.prev /\ i > 0 /\ i < L
        BY <1>1, <1>6, <2>1 DEF OffersPrev
      <3>3. QED BY <2>4, <3>1, <3>2
    <2>6. A \in Nat /\ T \in Nat
      <3>1. o.mn.items \in Seq(Nat)
        BY MenuFields DEF Machine, Lines
      <3>2. it \in Seq(Nat)
        BY <3>1 DEF it
      <3>3. QED BY <1>3, <3>2, AppendedType
    <2>7. J \in Int
      <3>1. ns = <<>> \/ ns \in Seq(1 .. Len(ls))
        <4> DEFINE S == Seq(1 .. Len(ls))
        <4>1. j.pages \in Seq(S)
          BY <1>3
        <4>2. j.pages # <<>> => i + 1 \in 1 .. L
          <5> HIDE DEF S
          <5>1. QED BY <2>1, <4>1
        <4> HIDE DEF S
        <4>3. j.pages # <<>> => j.pages[i + 1] \in S
          BY <4>1, <4>2
        <4>4. QED BY <4>3 DEF S
      <3>2. Joined(ls, <<>>) = 0
        BY JoinedNone
      <3>3. ns \in Seq(1 .. Len(ls)) => Joined(ls, ns) \in Int
        <4> HIDE DEF ns
        <4>1. QED BY <1>2, JoinedType
      <3>4. QED BY <3>1, <3>2, <3>3
    <2>8. Taken(o, n, i) = T + J + A + x2 + y2
      BY DEF Taken, ls, it, j
    <2>9. total = T + J + (A + x + y)
      BY <1>1, <2>2, <2>3
    <2> HIDE DEF total, T, J, A, x, y, x2, y2
    <2>10. QED BY <2>5, <2>6, <2>7, <2>8, <2>9
  <1>8. Taken(o, n, i) <= size /\ (i = 0 \/ i < L) => ~(size > 0 /\ total > size)
    <2> HIDE DEF total, L
    <2>1. QED BY <1>4, <1>7
  <1> HIDE DEF total, a, s, L
  <1>9. CASE Splits(o, n)
    <2>1. s = a
      BY <1>1, <1>3, <1>4, <1>9 DEF Splits, a, j, ls
    <2>2. a.o.pg.err = o.pg.err
      BY <1>1, <1>5, PreparedIs
    <2>3. QED BY <1>5, <1>8, <1>9, <2>1, <2>2 DEF s, L, j
  <1>10. CASE ~Splits(o, n)
    <2>1. s = Outcome(o, Nothing("fail")) \/ s = Outcome(q, Nothing("fail"))
      BY <1>1, <1>3, <1>4, <1>10 DEF Splits, j
    <2>2. PICK t \in {o, q} : s = Outcome(t, Nothing("fail"))
      BY <2>1
    <2>3. s.o = t /\ s.page = Nothing("fail")
      BY <2>2, OutcomeIs, Zenon
    <2>4. /\ s.page.kind = "fail" /\ s.page.ns \in Cursors
          /\ s.page.next = FALSE /\ s.page.prev = FALSE
      BY <2>3, NothingIs
    <2>5. t \in Machine /\ t.pg.err = o.pg.err
      BY <1>1, <2>2
    <2>6. QED BY <1>10, <2>3, <2>4, <2>5 DEF s, L, j
  <1>11. QED BY <1>9, <1>10

-----------------------------------------------------------------------------
(* A node whose lines fit.                                                 *)

\* Whether there is one sink, and every line of it fits with both browse items and
\* the two bytes left free.
RoomyIn(n, e, sz) ==
  LET room == sz - Pre(n, e) - NextSize - PrevSize - 4
  IN  OneSink(n) /\ room >= 0 /\ \A k \in 1 .. Len(CutLines(n)) : CutLines(n)[k] <= room

Roomy(n, e) == RoomyIn(n, e, size)

\* The most that page i of a node takes.
TakenBy(n, e, i) ==
  LET pages == Cut(n, e).pages
  IN  Text(n, e)
        + Joined(CutLines(n), IF pages = <<>> THEN <<>> ELSE pages[i + 1])
        + Appended(KeptItems(n))
        + (IF n.next /\ i + 1 < Len(pages) THEN NextSize + 1 ELSE 0)
        + (IF n.prev /\ i > 0 /\ i < Len(pages) THEN PrevSize + 1 ELSE 0)

\* The browse items' labels are as long as their symbols.
LabelsAsSymbols == NextSize = NextSym /\ PrevSize = PrevSym

\* What a node has to split is lines, and the lengths are numbers.
LEMMA CutType ==
  ASSUME NEW n \in Nodes, NEW e \in BOOLEAN
  PROVE  /\ CutLines(n) \in Seq(Nat) /\ KeptItems(n) \in Seq(Nat)
         /\ Text(n, e) \in Nat \ {0} /\ Appended(KeptItems(n)) \in Nat /\ Pre(n, e) \in Nat \ {0}
  <1>1. /\ n.fixed \in Nat \ {0} /\ n.items \in Seq(Nat)
        /\ n.content = None \/ n.content \in Seq(Nat)
        /\ n.msink \in BOOLEAN
    BY NodeFields DEF Lines
  <1>2. <<>> \in Seq(Nat) /\ <<0>> \in Seq(Nat)
    OBVIOUS
  <1>3. CutLines(n) \in Seq(Nat) /\ KeptItems(n) \in Seq(Nat)
    BY <1>1, <1>2 DEF CutLines, KeptItems
  <1>4. Text(n, e) \in Nat \ {0}
    <2>1. ErrSize \in Nat
      BY PagesAssumption
    <2>2. QED BY <1>1, <2>1 DEF Text
  <1>5. Appended(KeptItems(n)) \in Nat
    BY <1>3, AppendedType
  <1>6. QED BY <1>3, <1>4, <1>5 DEF Pre

\* What is loaded is split as the node says.
LEMMA LoadedPieces ==
  ASSUME NEW o \in Machine, NEW n \in Nodes, Loaded(o, n)
  PROVE  LET e == o.pg.err
         IN  /\ e \in BOOLEAN
             /\ SinkLines(o) = CutLines(n) /\ Before(o, n) = Pre(n, e)
             /\ Pieces(o, n) = Cut(n, e)
             /\ Splits(o, n) <=> (OneSink(n) /\ Pre(n, e) <= size /\ Cut(n, e).ok)
             /\ \A i : Taken(o, n, i) = TakenBy(n, e, i)
  <1> DEFINE e == o.pg.err
             p == Prepared(o)
  <1>1. o.pg \in PageSet /\ o.mn \in MenuSet
    BY DEF Machine
  <1>2. /\ o.pg.content = n.content /\ ~o.pg.extra /\ o.crsrs = <<>>
        /\ o.mn.items = n.items /\ o.mn.next = n.next /\ o.mn.prev = n.prev
        /\ o.mn.sink = n.msink /\ o.mn.keep /\ o.mn.pageCount \in {0, 1}
    BY DEF Loaded
  <1>3. e \in BOOLEAN
    BY <1>1, PageFields
  <1>4. MenuLines(o.mn, 0) = n.items
    BY <1>1, <1>2, MenuLinesAre
  <1>5. SinkLines(o) = CutLines(n)
    BY <1>2, <1>4 DEF SinkLines, CutLines
  <1>6. /\ p \in Machine /\ p.pg.err = o.pg.err
        /\ p.pg.extra = (o.pg.extra \/ o.mn.sink)
        /\ p.mn.items = IF o.mn.sink THEN <<>> ELSE o.mn.items
        /\ p.mn.pageCount = o.mn.pageCount
    BY PreparedIs
  <1> HIDE DEF p
  <1>7. p.mn.items = KeptItems(n) /\ MenuLines(p.mn, 0) = KeptItems(n)
    <2>1. p.mn.items = KeptItems(n)
      BY <1>2, <1>6 DEF KeptItems
    <2>2. p.mn \in MenuSet
      BY <1>6 DEF Machine
    <2>3. QED BY <1>2, <1>6, <2>1, <2>2, MenuLinesAre
  <1>8. TemplateSize(p, n) = Text(n, e)
    <2>1. n.msink \in BOOLEAN /\ p.pg.extra = n.msink /\ p.pg.err = e
      BY <1>1, <1>2, <1>6, NodeFields, PageFields
    <2>2. QED BY <2>1 DEF TemplateSize, Text
  <1>9. Before(o, n) = Pre(n, e)
    BY <1>7, <1>8 DEF Before, Pre, p
  <1>10. Pieces(o, n) = Cut(n, e)
    <2>1. NextReserve(o.mn) = NextReserve(n) /\ PrevReserve(o.mn) = PrevReserve(n)
      BY <1>2, ReserveBy
    <2>2. QED BY <1>5, <1>9, <2>1 DEF Pieces, Cut
  <1>11. Splits(o, n) <=> (OneSink(n) /\ Pre(n, e) <= size /\ Cut(n, e).ok)
    BY <1>2, <1>9, <1>10 DEF Splits, OneSink
  <1>12. \A i : Taken(o, n, i) = TakenBy(n, e, i)
    <2>1. (IF o.mn.sink \/ ~o.mn.keep THEN <<>> ELSE o.mn.items) = KeptItems(n)
      BY <1>2 DEF KeptItems
    <2>2. QED BY <1>2, <1>5, <1>8, <1>10, <2>1 DEF Taken, TakenBy, p
  <1>13. QED BY <1>3, <1>5, <1>9, <1>10, <1>11, <1>12

\* Where the lines fit every page fits, with the browse items that are offered on it.
LEMMA RoomyFits ==
  ASSUME NEW n \in Nodes, NEW e \in BOOLEAN, size \in Sizes, LabelsAsSymbols, Roomy(n, e)
  PROVE  /\ OneSink(n) /\ Pre(n, e) <= size /\ Cut(n, e).ok
         /\ \A i \in Nat : i = 0 \/ i < Len(Cut(n, e).pages) => TakenBy(n, e, i) <= size
  <1> DEFINE ls   == CutLines(n)
             b    == Pre(n, e)
             x    == size - b
             j    == Cut(n, e)
             L    == Len(j.pages)
             fwd  == NextReserve(n)
             back == PrevReserve(n)
             net  == IF Len(ls) > 1 THEN x - 1 - fwd ELSE x - 1
             room == size - b - NextSize - PrevSize - 4
  <1>1. /\ ls \in Seq(Nat) /\ KeptItems(n) \in Seq(Nat) /\ Text(n, e) \in Nat
        /\ Appended(KeptItems(n)) \in Nat /\ b \in Nat /\ b = Text(n, e) + Appended(KeptItems(n))
    BY CutType DEF Pre
  <1>2. OneSink(n) /\ room >= 0 /\ \A k \in 1 .. Len(ls) : ls[k] <= room
    BY DEF Roomy, RoomyIn
  <1>3. /\ NextSize \in Nat /\ PrevSize \in Nat /\ NextSym = NextSize /\ PrevSym = PrevSize
        /\ U32 \in Nat /\ size \in Nat /\ size < U32
    BY PagesAssumption DEF LabelsAsSymbols
  <1>4. n.next \in BOOLEAN /\ n.prev \in BOOLEAN
    BY NodeFields
  <1>5. /\ fwd = 1 + (IF n.next THEN NextSize ELSE 0)
        /\ back = 1 + (IF n.prev THEN PrevSize ELSE 0)
    BY <1>3 DEF NextReserve, PrevReserve
  <1>6. j = JoinSink(ls, x, fwd, back)
    BY DEF Cut
  <1>7. Len(ls) \in Nat /\ \A k \in 1 .. Len(ls) : ls[k] \in Nat
    BY <1>1
  <1> HIDE DEF ls, b, j, fwd, back
  <1>8. /\ x \in Nat /\ x < U32 /\ x - 1 - fwd - back > 0 /\ U32 \in Nat \ {0}
        /\ room < x - 1 - fwd - back /\ room \in Int
        /\ fwd \in Nat /\ back \in Nat
    <2>1. fwd \in Nat /\ back \in Nat /\ fwd <= 1 + NextSize /\ back <= 1 + PrevSize
      BY <1>3, <1>4, <1>5
    <2>2. b \in Nat /\ size - b - NextSize - PrevSize - 4 >= 0
      BY <1>1, <1>2
    <2>3. QED BY <1>3, <2>1, <2>2
  <1>9. \A k \in 1 .. Len(ls) : ls[k] < x - 1 - fwd - back
    <2> HIDE DEF room, x
    <2>1. fwd \in Nat /\ back \in Nat /\ x - 1 - fwd - back \in Int
      BY <1>3, <1>5, <1>8
    <2> DEFINE y == x - 1 - fwd - back
    <2> HIDE DEF y
    <2>2. room \in Int /\ y \in Int /\ room < y
      BY <1>8, <2>1 DEF y
    <2>3. \A k \in 1 .. Len(ls) : ls[k] < y
      BY <1>2, <1>7, <2>2
    <2>4. QED BY <2>3 DEF y
  <1>10. j.ok /\ \A i \in 1 .. L : Joined(ls, j.pages[i]) <= IF i = 1 THEN net ELSE net - back
    <2> HIDE DEF x, room
    <2>1. /\ x - 1 - NextReserve(n) - PrevReserve(n) > 0
          /\ \A k \in 1 .. Len(ls) : ls[k] < x - 1 - NextReserve(n) - PrevReserve(n)
      BY <1>8, <1>9 DEF fwd, back
    <2>2. NextSym \in Nat /\ PrevSym \in Nat
      BY <1>3
    <2>3. QED BY <1>1, <1>6, <1>8, <2>1, <2>2, JoinSinkFits DEF fwd, back
  <1>11. j.pages \in Seq(Seq(1 .. Len(ls))) /\ L <= Len(ls)
    <2>1. x \in Int /\ NextSym \in Nat /\ PrevSym \in Nat
      BY <1>3, <1>8
    <2> HIDE DEF x
    <2>2. QED BY <1>1, <1>6, <1>8, <2>1, JoinSinkType
  <1>12. L \in Nat /\ (L = 0 <=> j.pages = <<>>)
    <2> DEFINE S == Seq(1 .. Len(ls))
    <2>1. j.pages \in Seq(S)
      BY <1>11
    <2> HIDE DEF S
    <2>2. QED BY <2>1
  <1>13. \A i \in Nat : i = 0 \/ i < L => TakenBy(n, e, i) <= size
    <2> SUFFICES ASSUME NEW i \in Nat, i = 0 \/ i < L PROVE TakenBy(n, e, i) <= size
      OBVIOUS
    <2> DEFINE J == Joined(ls, IF j.pages = <<>> THEN <<>> ELSE j.pages[i + 1])
               y == IF n.next /\ i + 1 < L THEN NextSize + 1 ELSE 0
               z == IF n.prev /\ i > 0 /\ i < L THEN PrevSize + 1 ELSE 0
    <2>1. TakenBy(n, e, i) = Text(n, e) + J + Appended(KeptItems(n)) + y + z
      BY DEF TakenBy, ls, j
    <2>2. J \in Int /\ J <= (IF i = 0 \/ L = 0 THEN net ELSE net - back)
      <3>1. CASE L = 0
        <4>1. J = 0
          BY <1>12, <3>1, JoinedNone
        <4>2. net >= 0 /\ net \in Int
          <5> HIDE DEF x
          <5>1. QED BY <1>8
        <4> HIDE DEF J, net
        <4>3. QED BY <3>1, <4>1, <4>2
      <3>2. CASE L # 0
        <4>1. i + 1 \in 1 .. L /\ j.pages # <<>> /\ (i + 1 = 1 <=> i = 0)
          BY <1>12, <3>2
        <4>2. J = Joined(ls, j.pages[i + 1])
          BY <4>1
        <4>3. j.pages[i + 1] \in Seq(1 .. Len(ls))
          <5> DEFINE S == Seq(1 .. Len(ls))
          <5>1. j.pages \in Seq(S)
            BY <1>11
          <5> HIDE DEF S
          <5>2. j.pages[i + 1] \in S
            BY <4>1, <5>1
          <5>3. QED BY <5>2 DEF S
        <4>4. Joined(ls, j.pages[i + 1]) \in Int
          BY <1>1, <4>3, JoinedType
        <4> HIDE DEF J, net, L
        <4>5. QED BY <1>10, <3>2, <4>1, <4>2, <4>4
      <3>3. QED BY <3>1, <3>2
    <2>3. /\ L = 0 => i = 0
          /\ Len(ls) <= 1 => ~(i + 1 < L) /\ ~(i > 0 /\ i < L)
          /\ ~(i > 0 /\ i < L) => i = 0
      BY <1>7, <1>11, <1>12
    <2>4. net = IF Len(ls) > 1 THEN x - 1 - fwd ELSE x - 1
      OBVIOUS
    <2> HIDE DEF J, net, L
    <2>5. J + y + z <= x
      <3>1. CASE Len(ls) > 1
        <4>1. net = x - 1 - fwd /\ x \in Nat
          BY <1>8, <2>4, <3>1
        <4> HIDE DEF x
        <4>2. CASE i = 0
          BY <1>3, <1>4, <1>5, <2>2, <4>1, <4>2
        <4>3. CASE i # 0
          BY <1>3, <1>4, <1>5, <2>2, <2>3, <4>1, <4>3
        <4>4. QED BY <4>2, <4>3
      <3>2. CASE ~(Len(ls) > 1)
        <4>1. net = x - 1 /\ i = 0 /\ y = 0 /\ z = 0
          BY <1>7, <2>3, <2>4, <3>2
        <4>2. J \in Int /\ J <= net /\ x \in Nat
          BY <1>8, <2>2, <4>1
        <4> HIDE DEF x, y, z
        <4>3. QED BY <4>1, <4>2
      <3>3. QED BY <3>1, <3>2
    <2>6. y \in Nat /\ z \in Nat
      BY <1>3
    <2> DEFINE T == Text(n, e)
               A == Appended(KeptItems(n))
               t == TakenBy(n, e, i)
    <2>7. /\ T \in Nat /\ A \in Nat /\ b \in Nat /\ b = T + A /\ size \in Nat /\ J \in Int
          /\ t = T + J + A + y + z /\ x = size - b
      BY <1>1, <1>3, <2>1, <2>2
    <2> HIDE DEF y, z, x, T, A, t
    <2>8. t <= size
      BY ONLY <2>5, <2>6, <2>7
    <2>9. QED BY <2>8 DEF t
  <1>14. b <= size
    BY <1>1, <1>3, <1>8
  <1>15. QED BY <1>2, <1>10, <1>13, <1>14 DEF b, j

\* Whatever the machine, a page is shown, or none because of an error or a cursor
\* beyond the text.
LEMMA RenderType ==
  ASSUME NEW o \in Machine, NEW n \in Nodes, NEW i \in Nat, o.crsrs = <<>>, size \in Sizes
  PROVE  LET r == Render(o, n, i)
         IN  /\ r.o \in Machine /\ r.o.pg.err = o.pg.err
             /\ r.page.kind \in {"ok", "fail", "panic"} /\ r.page.ns \in Cursors
  <1>1. CASE size = 0
    <2>1. Render(o, n, i) = Whole(o, n, i)
      BY <1>1 DEF Render
    <2>2. QED BY <2>1, WholeIs
  <1>2. CASE size # 0
    <2>1. Render(o, n, i) = Split(o, n, i)
      BY <1>2 DEF Render
    <2>2. QED BY <2>1, SplitType
  <1>3. QED BY <1>1, <1>2

\* A node just loaded: the first page and any page that is there are shown if the lines
\* fit, and only pages that are there are offered.
LEMMA RenderLoaded ==
  ASSUME NEW o \in Machine, NEW n \in Nodes, NEW i \in Nat, Loaded(o, n), size \in Sizes
  PROVE  LET page == Render(o, n, i).page
             e    == o.pg.err
         IN  /\ i = 0 \/ PageThere(n, e, i) => page.kind \in {"ok", "fail"}
             /\ (i = 0 \/ PageThere(n, e, i)) /\ LabelsAsSymbols /\ Roomy(n, e)
                  => page.kind = "ok"
             /\ page.next => PageThere(n, e, i + 1)
             /\ page.prev => i > 0 /\ PageThere(n, e, i - 1)
  <1> DEFINE page == Render(o, n, i).page
             e    == o.pg.err
             L    == Len(Cut(n, e).pages)
             Ok   == OneSink(n) /\ Pre(n, e) <= size /\ Cut(n, e).ok
  <1>1. o.crsrs = <<>> /\ o.mn.pageCount \in {0, 1}
    BY DEF Loaded
  <1>2. size \in Nat
    BY PagesAssumption
  <1>3. \A k : PageThere(n, e, k) <=> size > 0 /\ Ok /\ k < L
    BY DEF PageThere, There, Cut
  <1>4. CASE size = 0
    <2>1. Render(o, n, i) = Whole(o, n, i)
      BY <1>4 DEF Render
    <2>2. /\ page.kind \in {"ok", "fail"}
          /\ i = 0 => page.kind = "ok"
          /\ page.next \/ page.prev => o.mn.pageCount > 1
      BY <2>1, WholeIs
    <2>3. \A k : ~PageThere(n, e, k)
      BY <1>3, <1>4
    <2>4. ~PageThere(n, e, i) /\ ~page.next /\ ~page.prev
      BY <1>1, <2>2, <2>3
    <2> HIDE DEF page, e
    <2>5. QED BY <2>2, <2>4 DEF page, e
  <1>5. CASE size # 0
    <2>1. Render(o, n, i) = Split(o, n, i)
      BY <1>5 DEF Render
    <2>2. /\ e \in BOOLEAN /\ Pieces(o, n) = Cut(n, e) /\ (Splits(o, n) <=> Ok)
          /\ Taken(o, n, i) = TakenBy(n, e, i)
      BY LoadedPieces
    <2>3. /\ page.kind \in {"ok", "fail", "panic"}
          /\ i = 0 \/ (Splits(o, n) /\ i < L) => page.kind # "panic"
          /\ Splits(o, n) /\ (i = 0 \/ i < L) /\ Taken(o, n, i) <= size => page.kind = "ok"
          /\ page.next => Splits(o, n) /\ i + 1 < L
          /\ page.prev => Splits(o, n) /\ i > 0 /\ i - 1 < L
      BY <1>1, <2>1, <2>2, SplitType
    <2>4. LabelsAsSymbols /\ Roomy(n, e) => Ok /\ (i = 0 \/ i < L => TakenBy(n, e, i) <= size)
      BY <2>2, RoomyFits
    <2>5. size > 0
      BY <1>2, <1>5
    <2>6. /\ PageThere(n, e, i) <=> Ok /\ i < L
          /\ PageThere(n, e, i + 1) <=> Ok /\ i + 1 < L
          /\ PageThere(n, e, i - 1) <=> Ok /\ i - 1 < L
      BY <1>3, <2>5
    <2> HIDE DEF page, Ok, L, e
    <2>7. /\ i = 0 \/ PageThere(n, e, i) => page.kind \in {"ok", "fail"}
          /\ (i = 0 \/ PageThere(n, e, i)) /\ LabelsAsSymbols /\ Roomy(n, e)
               => page.kind = "ok"
          /\ page.next => PageThere(n, e, i + 1)
          /\ page.prev => i > 0 /\ PageThere(n, e, i - 1)
      BY <2>2, <2>3, <2>4, <2>6
    <2>8. QED BY <2>7 DEF page, e
  <1>6. QED BY <1>4, <1>5

\* An answer without a page.
LEMMA NoPage == \A p, kind : Outcome(p, Nothing(kind)).page.kind = kind
  BY DEF Outcome, Nothing

\* What is composed is what was given.
LEMMA ComposedShows ==
  ASSUME NEW o, NEW n, NEW ls, NEW ns, NEW i, NEW limit,
         Composed(o, n, ls, ns, i, limit).page.kind = "ok"
  PROVE  LET page == Composed(o, n, ls, ns, i, limit).page
         IN  /\ InRange(o.mn, i) /\ page.ls = ls /\ page.ns = ns
             /\ page.next = OffersNext(o.mn, i)
  <1> DEFINE c    == Composed(o, n, ls, ns, i, limit)
             pg2  == [kind |-> "ok", ls |-> ls, ns |-> ns, items |-> Len(o.mn.items),
                      next |-> OffersNext(o.mn, i), prev |-> OffersPrev(o.mn, i)]
  <1>1. \A p, kind : kind # "ok" => Outcome(p, Nothing(kind)).page.kind # "ok"
    BY NoPage
  <1>2. \/ \E p, kind : kind # "ok" /\ c = Outcome(p, Nothing(kind))
        \/ InRange(o.mn, i) /\ \E p : c = Outcome(p, pg2)
    BY DEF Composed
  <1> HIDE DEF c
  <1>3. c.page.kind = "ok"
    BY DEF c
  <1>4. InRange(o.mn, i) /\ c.page = pg2
    BY <1>1, <1>2, <1>3, OutcomeIs
  <1>5. c.page.ls = ls /\ c.page.ns = ns /\ c.page.next = OffersNext(o.mn, i)
    BY <1>4
  <1>6. QED BY <1>4, <1>5 DEF c

\* What GetAt shows is page i.
LEMMA AtShows ==
  ASSUME NEW o, NEW n, NEW ls, NEW pages, NEW i \in Nat, NEW closed \in Nat,
         Len(o.crsrs) = closed + 1, \A k \in 1 .. closed + 1 : o.crsrs[k] = k,
         ls = <<>> => pages = <<>>,
         At(o, n, ls, pages, i).page.kind = "ok"
  PROVE  LET page == At(o, n, ls, pages, i).page
         IN  /\ InRange(o.mn, i) /\ page.ls = ls /\ page.next = OffersNext(o.mn, i)
             /\ page.ns = IF pages = <<>> THEN <<>> ELSE pages[i + 1]
  <1> DEFINE a  == At(o, n, ls, pages, i)
             ns == IF pages = <<>> THEN <<>> ELSE pages[i + 1]
             c  == Composed(o, n, ls, ns, i, size)
  <1>1. \A p, kind : kind # "ok" => Outcome(p, Nothing(kind)).page.kind # "ok"
    BY NoPage
  <1>2. a = c \/ \E p, kind : kind # "ok" /\ a = Outcome(p, Nothing(kind))
    <2>1. CASE ls = <<>>
      BY <2>1 DEF At
    <2>2. CASE ls # <<>> /\ i < Len(o.crsrs)
      <3>1. o.crsrs[i + 1] = i + 1 /\ ~(i >= Len(o.crsrs))
        BY <2>2
      <3>2. a = IF i + 1 > Len(pages) /\ i > 0 THEN Outcome(o, Nothing("panic")) ELSE c
        BY <2>2, <3>1 DEF At
      <3>3. QED BY <3>2
    <2>3. CASE ls # <<>> /\ ~(i < Len(o.crsrs))
      <3>1. i >= Len(o.crsrs)
        BY <2>3
      <3>2. a = Outcome(o, Nothing("fail"))
        BY <2>3, <3>1 DEF At
      <3>3. QED BY <3>2
    <2>4. QED BY <2>1, <2>2, <2>3
  <1> HIDE DEF a, c
  <1>3. a = c
    BY <1>1, <1>2 DEF a
  <1> HIDE DEF ns
  <1>4. InRange(o.mn, i) /\ a.page.ls = ls /\ a.page.ns = ns /\ a.page.next = OffersNext(o.mn, i)
    BY <1>3, ComposedShows DEF a, c
  <1>5. QED BY <1>4 DEF a, ns

\* Without a sizer the one page has all lines.
LEMMA WholeShows ==
  ASSUME NEW o \in Machine, NEW n \in Nodes, NEW i \in Nat, Loaded(o, n), size = 0,
         Render(o, n, i).page.kind = "ok"
  PROVE  Shows(Render(o, n, i).page, n, o.pg.err, i, size)
  <1> DEFINE ls == LinesIn(n, 0)
             ns == [k \in DOMAIN ls |-> k]
             P  == <<ns>>
             c  == Composed(o, n, ls, ns, 0, 0)
             page == Render(o, n, i).page
  <1>1. Render(o, n, i) = IF i > 0 THEN Outcome(o, Nothing("fail")) ELSE c
    <2>1. o.pg.content = n.content
      BY DEF Loaded
    <2>2. QED BY <2>1 DEF Render, Whole, LinesIn
  <1>2. i = 0 /\ page = c.page
    <2>1. Outcome(o, Nothing("fail")).page.kind # "ok"
      BY NoPage
    <2> HIDE DEF c
    <2>2. QED BY <1>1, <2>1
  <1>3. ls \in Seq(Nat)
    <2>1. n.content = None \/ n.content \in Seq(Nat)
      BY NodeFields DEF Lines
    <2>2. QED BY <2>1 DEF LinesIn
  <1> HIDE DEF ls
  <1>4. /\ ns \in Seq(1 .. Len(ls)) /\ DOMAIN ns = 1 .. Len(ls) /\ Len(ls) \in Nat
        /\ \A k \in 1 .. Len(ls) : ns[k] = k
    BY <1>3
  <1> HIDE DEF ns
  <1>5. page.ls = ls /\ page.ns = ns
    <2>1. c.page.kind = "ok"
      BY <1>2
    <2>2. c.page.ls = ls /\ c.page.ns = ns
      BY <2>1, ComposedShows
    <2>3. QED BY <1>2, <2>2
  <1> HIDE DEF c, page
  <1>6. P \in Seq(Seq(1 .. Len(ls))) /\ Len(P) = 1 /\ P[1] = ns /\ P # <<>>
    <2> DEFINE S == Seq(1 .. Len(ls))
    <2>1. ns \in S
      BY <1>4
    <2> HIDE DEF S
    <2>2. P \in Seq(S) /\ Len(P) = 1 /\ P[1] = ns /\ P # <<>>
      BY <2>1
    <2>3. QED BY <2>2 DEF S
  <1> HIDE DEF P
  <1>7. InOrder(P, ls, Len(ls))
    <2>1. \A p \in 1 .. Len(P) : p = 1 /\ P[p] = ns
      BY <1>6
    <2>2. 1 \in 1 .. Len(P)
      BY <1>6
    <2>3. ASSUME NEW p \in 1 .. Len(P), NEW q \in 1 .. Len(P),
                 NEW x \in DOMAIN P[p], NEW y \in DOMAIN P[q], p < q \/ (p = q /\ x < y)
          PROVE  P[p][x] < P[q][y]
      <3>1. p = 1 /\ q = 1 /\ P[p] = ns /\ P[q] = ns
        BY <2>1
      <3>2. x < y /\ ns[x] = x /\ ns[y] = y
        BY <1>4, <2>3, <3>1
      <3>3. QED BY <3>1, <3>2
    <2>4. ASSUME NEW p \in 1 .. Len(P), NEW x \in DOMAIN P[p] PROVE P[p][x] <= Len(ls)
      BY <1>4, <2>1
    <2>5. ASSUME NEW m \in 1 .. Len(ls)
          PROVE  \E p \in 1 .. Len(P) : \E x \in DOMAIN P[p] : P[p][x] = m
      <3>1. m \in DOMAIN P[1] /\ P[1][m] = m
        BY <1>4, <1>6
      <3>2. QED BY <2>2, <3>1
    <2>6. QED BY <2>3, <2>4, <2>5 DEF InOrder
  <1>8. PagesIn(n, o.pg.err, size) = P /\ LinesIn(n, size) = ls
    BY DEF PagesIn, P, ns, ls
  <1>9. Len(P) <= i + 1 /\ P[i + 1] = ns
    BY <1>2, <1>6
  <1>10. Shows(page, n, o.pg.err, i, size)
    BY <1>2, <1>3, <1>5, <1>6, <1>7, <1>8, <1>9 DEF Shows
  <1>11. QED BY <1>10 DEF page

\* What a split shows of a node just loaded is page i.
LEMMA SplitShows ==
  ASSUME NEW o \in Machine, NEW n \in Nodes, NEW i \in Nat, Loaded(o, n),
         size \in Sizes, size # 0, Render(o, n, i).page.kind = "ok"
  PROVE  Shows(Render(o, n, i).page, n, o.pg.err, i, size)
  <1> DEFINE e    == o.pg.err
             ls   == CutLines(n)
             j    == Cut(n, e)
             P    == j.pages
             page == Render(o, n, i).page
  <1>1. /\ e \in BOOLEAN /\ SinkLines(o) = ls /\ Pieces(o, n) = j /\ o.crsrs = <<>>
        /\ o.mn.next = n.next
    BY LoadedPieces DEF Loaded
  <1>2. ls \in Seq(Nat) /\ Pre(n, e) \in Nat
    BY <1>1, CutType
  <1>3. PICK q \in Machine, r \in Machine :
          /\ r.mn.next = o.mn.next /\ r.mn.pageCount = Len(P)
          /\ Len(r.crsrs) = j.closed + 1 /\ \A k \in 1 .. j.closed + 1 : r.crsrs[k] = k
          /\ Split(o, n, i) =
               IF o.mn.sink /\ o.pg.content # None THEN Outcome(o, Nothing("fail"))
               ELSE IF Before(o, n) > size \/ ~j.ok THEN Outcome(q, Nothing("fail"))
               ELSE At(r, n, ls, P, i)
    BY <1>1, SplitIs
  <1>4. /\ j.ok \in BOOLEAN /\ j.closed \in Nat
        /\ P \in Seq(Seq(1 .. Len(ls))) /\ Len(P) <= Len(ls)
    BY <1>1, PiecesType
  <1>5. j.ok /\ page = At(r, n, ls, P, i).page
    <2>1. Render(o, n, i) = Split(o, n, i)
      BY DEF Render
    <2> DEFINE s == Split(o, n, i)
               a == At(r, n, ls, P, i)
    <2>2. s.page.kind = "ok" /\ page = s.page
      BY <2>1
    <2> HIDE DEF s, a, page, P, j
    <2>3. j.ok /\ s = a
      BY <1>3, <2>2, NoPage DEF s, a
    <2>4. QED BY <2>2, <2>3 DEF a
  <1>6. InOrder(P, ls, Len(ls))
    <2>1. size \in Int /\ NextSym \in Nat /\ PrevSym \in Nat /\ U32 \in Nat \ {0}
      <3>1. size \in Nat /\ NextSym \in Nat /\ PrevSym \in Nat /\ U32 \in Nat /\ size < U32
        BY PagesAssumption
      <3>2. QED BY <3>1
    <2>2. NextReserve(n) \in Nat /\ PrevReserve(n) \in Nat
      BY <2>1 DEF NextReserve, PrevReserve
    <2> DEFINE x == size - Pre(n, e)
    <2>3. x \in Int
      BY <1>2, <2>1
    <2>4. j = JoinSink(ls, x, NextReserve(n), PrevReserve(n))
      BY DEF Cut
    <2> HIDE DEF x, ls, j
    <2>5. j.ok => InOrder(j.pages, ls, Len(ls))
      BY <1>2, <2>1, <2>2, <2>3, <2>4, JoinSinkOrder
    <2>6. QED BY <1>5, <2>5
  <1>7. PagesIn(n, e, size) = P /\ LinesIn(n, size) = ls
    BY DEF PagesIn, LinesIn, Cut
  <1> HIDE DEF ls, P, page, j, e
  <1>8. Len(P) \in Nat /\ (P = <<>> <=> Len(P) = 0) /\ (ls = <<>> => P = <<>>)
    <2> DEFINE S == Seq(1 .. Len(ls))
    <2>1. P \in Seq(S) /\ (ls = <<>> => Len(ls) = 0)
      BY <1>4
    <2> HIDE DEF S
    <2>2. Len(P) \in Nat /\ (P = <<>> <=> Len(P) = 0)
      BY <2>1
    <2>3. QED BY <1>4, <2>1, <2>2
  <1>9. /\ InRange(r.mn, i) /\ page.ls = ls /\ page.next = OffersNext(r.mn, i)
        /\ page.ns = IF P = <<>> THEN <<>> ELSE P[i + 1]
    <2>1. page.kind = "ok"
      BY DEF page
    <2>2. QED BY <1>3, <1>4, <1>5, <1>8, <2>1, AtShows
  <1>10. i = 0 \/ i + 1 \in 1 .. Len(P)
    BY <1>3, <1>8, <1>9 DEF InRange
  <1>11. n.next /\ ~page.next => Len(P) <= i + 1
    <2>1. SUFFICES ASSUME n.next, ~page.next PROVE Len(P) <= i + 1
      OBVIOUS
    <2>2. ~(r.mn.pageCount > 0 /\ r.mn.next /\ i # r.mn.pageCount - 1)
      BY <1>9, <2>1 DEF OffersNext
    <2>3. ~(r.mn.pageCount > 0 /\ i # r.mn.pageCount - 1)
      BY <1>1, <1>3, <2>1, <2>2
    <2>4. ~(Len(P) > 0 /\ i # Len(P) - 1)
      BY <1>3, <2>3
    <2>5. QED BY <1>8, <2>4
  <1>12. Shows(page, n, e, i, size)
    BY <1>2, <1>4, <1>6, <1>7, <1>9, <1>10, <1>11 DEF Shows
  <1>13. QED BY <1>12 DEF page, e

\* Whatever is shown of a node just loaded is page i.
LEMMA RenderShows ==
  ASSUME NEW o \in Machine, NEW n \in Nodes, NEW i \in Nat, Loaded(o, n),
         size \in Sizes, Render(o, n, i).page.kind = "ok"
  PROVE  Shows(Render(o, n, i).page, n, o.pg.err, i, size)
  BY WholeShows, SplitShows

\* LinesFit, of the machine and the size.
FitIn(o, n, sz) ==
  LET text  == TemplateSize([o EXCEPT !.pg.extra = n.msink], n)
      items == IF n.msink THEN <<>> ELSE n.items
      room  == sz - text - Appended(items \o <<NextSize, PrevSize>>) - 2
  IN  /\ ~(n.msink /\ n.content # None)
      /\ room >= 0
      /\ \A l \in Range(SinkLines(Filled(NewVm, n))) : l <= room

\* Two lines more.
LEMMA TwoAppended ==
  ASSUME NEW s \in Seq(Nat), NEW x \in Nat, NEW y \in Nat
  PROVE  s \o <<x, y>> = Append(Append(s, x), y)
  <1> DEFINE t == <<x, y>>
             u == Append(s, x)
             v == Append(u, y)
             c == s \o t
  <1>1. t \in Seq(Nat) /\ Len(t) = 2 /\ t[1] = x /\ t[2] = y
    OBVIOUS
  <1>2. u \in Seq(Nat) /\ Len(u) = Len(s) + 1 /\ u[Len(s) + 1] = x
        /\ \A k \in 1 .. Len(s) : u[k] = s[k]
    OBVIOUS
  <1> HIDE DEF t, u
  <1>3. v \in Seq(Nat) /\ Len(v) = Len(s) + 2 /\ v[Len(s) + 2] = y
        /\ \A k \in 1 .. Len(s) + 1 : v[k] = u[k]
    <2>1. Len(u) + 1 = Len(s) + 2
      BY <1>2
    <2>2. QED BY <1>2, <2>1
  <1> HIDE DEF v
  <1>4. c \in Seq(Nat) /\ Len(c) = Len(s) + 2
        /\ \A k \in 1 .. Len(s) + 2 : c[k] = IF k <= Len(s) THEN s[k] ELSE t[k - Len(s)]
    <2>1. /\ c \in Seq(Nat) /\ Len(c) = Len(s) + Len(t)
          /\ \A k \in 1 .. Len(s) + Len(t) : c[k] = IF k <= Len(s) THEN s[k] ELSE t[k - Len(s)]
      BY <1>1, ConcatProperties
    <2> HIDE DEF c
    <2>2. QED BY <1>1, <2>1
  <1> HIDE DEF c
  <1> DEFINE N == Len(s)
  <1>5. N \in Nat
    OBVIOUS
  <1>6. \A k \in 1 .. Len(c) : c[k] = v[k]
    <2> HIDE DEF N
    <2> SUFFICES ASSUME NEW k \in 1 .. N + 2 PROVE c[k] = v[k]
      BY <1>4 DEF N
    <2>1. CASE k <= N
      <3>1. k \in 1 .. N /\ k \in 1 .. N + 1 /\ k \in 1 .. N + 2
        BY <1>5, <2>1
      <3>2. c[k] = s[k]
        BY <1>4, <2>1 DEF N
      <3>3. u[k] = s[k] /\ v[k] = u[k]
        BY <1>2, <1>3, <3>1 DEF N
      <3>4. QED BY <3>2, <3>3
    <2>2. CASE k = N + 1
      <3>1. k - N = 1 /\ ~(k <= N) /\ k \in 1 .. N + 1
        BY <1>5, <2>2
      <3>2. c[k] = t[k - N]
        BY <1>4, <3>1 DEF N
      <3>3. v[k] = u[k] /\ u[k] = x
        BY <1>2, <1>3, <2>2, <3>1 DEF N
      <3>4. t[k - N] = x
        BY <1>1, <3>1
      <3>5. QED BY <3>2, <3>3, <3>4
    <2>3. CASE k = N + 2
      <3>1. k - N = 2 /\ ~(k <= N)
        BY <1>5, <2>3
      <3>2. c[k] = t[k - N]
        BY <1>4, <3>1 DEF N
      <3>3. v[k] = y
        BY <1>3, <2>3 DEF N
      <3>4. t[k - N] = y
        BY <1>1, <3>1
      <3>5. QED BY <3>2, <3>3, <3>4
    <2>4. QED BY <1>5, <2>1, <2>2, <2>3
  <1>7. QED BY <1>3, <1>4, <1>6, SeqEqual DEF c, v, u, t

\* What LinesFit says is that there is room.
LEMMA FitIsRoomy ==
  ASSUME NEW o \in Machine, NEW n \in Nodes, NEW sz \in Nat, FitIn(o, n, sz)
  PROVE  RoomyIn(n, o.pg.err, sz)
  <1> DEFINE e    == o.pg.err
             f    == [o EXCEPT !.pg.extra = n.msink]
             text == TemplateSize(f, n)
             it   == KeptItems(n)
             two  == <<NextSize, PrevSize>>
             room == sz - text - Appended(it \o two) - 2
             ls   == SinkLines(Filled(NewVm, n))
  <1>1. OneSink(n) /\ room >= 0 /\ \A l \in Range(ls) : l <= room
    BY DEF FitIn, OneSink, KeptItems
  <1>2. e \in BOOLEAN /\ n.msink \in BOOLEAN
    BY NodeFields, PageFields DEF Machine
  <1>3. text = Text(n, e)
    <2> DEFINE g == [o.pg EXCEPT !.extra = n.msink]
    <2>1. g.extra = n.msink /\ g.err = e
      BY DEF Machine, PageSet
    <2>2. f.pg = g
      BY DEF Machine
    <2> HIDE DEF f, g
    <2>3. QED BY <1>2, <2>1, <2>2 DEF TemplateSize, Text
  <1>4. ls = CutLines(n)
    <2> DEFINE v == Filled(NewVm, n)
    <2>1. v \in Machine /\ Loaded(v, n)
      BY NewVmIs, FilledLoaded
    <2> HIDE DEF v
    <2>2. SinkLines(v) = CutLines(n)
      BY <2>1, LoadedPieces
    <2>3. QED BY <2>2 DEF v
  <1>5. NextSize \in Nat /\ PrevSize \in Nat
    BY PagesAssumption
  <1>6. /\ CutLines(n) \in Seq(Nat) /\ it \in Seq(Nat) /\ text \in Nat /\ Appended(it) \in Nat
        /\ Pre(n, e) = text + Appended(it)
    <2>1. /\ CutLines(n) \in Seq(Nat) /\ KeptItems(n) \in Seq(Nat) /\ Text(n, e) \in Nat
          /\ Appended(KeptItems(n)) \in Nat
      BY <1>2, CutType
    <2>2. Pre(n, e) = Text(n, e) + Appended(KeptItems(n))
      BY DEF Pre
    <2>3. QED BY <1>3, <2>1, <2>2
  <1> HIDE DEF it, text, ls
  <1>7. Appended(it \o two) = Appended(it) + NextSize + 1 + PrevSize + 1
    <2>1. it \o two = Append(Append(it, NextSize), PrevSize)
      BY <1>5, <1>6, TwoAppended
    <2>2. Append(it, NextSize) \in Seq(Nat)
      BY <1>5, <1>6
    <2>3. Appended(Append(it, NextSize)) = Appended(it) + NextSize + 1
      BY <1>5, <1>6, AppendedAppend
    <2>4. Appended(Append(Append(it, NextSize), PrevSize))
            = Appended(Append(it, NextSize)) + PrevSize + 1
      BY <1>5, <2>2, AppendedAppend
    <2> HIDE DEF two
    <2>5. QED BY <2>1, <2>3, <2>4
  <1>8. room = sz - Pre(n, e) - NextSize - PrevSize - 4
    <2> DEFINE A == Appended(it)
               B == Appended(it \o two)
               P == Pre(n, e)
    <2>1. /\ A \in Nat /\ B = A + NextSize + 1 + PrevSize + 1
          /\ P = text + A /\ room = sz - text - B - 2
      BY <1>6, <1>7
    <2>2. text \in Nat /\ sz \in Nat
      BY <1>6
    <2> HIDE DEF A, B, P, two, room
    <2>3. room = sz - P - NextSize - PrevSize - 4
      BY ONLY <1>5, <2>1, <2>2
    <2>4. QED BY <2>3 DEF P
  <1>9. \A k \in 1 .. Len(ls) : ls[k] \in Range(ls)
    <2>1. DOMAIN ls = 1 .. Len(ls)
      BY <1>4, <1>6
    <2>2. QED BY <2>1 DEF Range
  <1> HIDE DEF room, e
  <1>10. QED BY <1>1, <1>4, <1>8, <1>9 DEF RoomyIn, e

\* Of the machine it asks only whether there is an error to show.
LEMMA FitByErr ==
  ASSUME NEW o \in Machine, NEW p \in Machine, p.pg.err = o.pg.err, NEW n \in Nodes, NEW sz
  PROVE  FitIn(p, n, sz) => FitIn(o, n, sz)
  <1> DEFINE f == [o EXCEPT !.pg.extra = n.msink]
             g == [p EXCEPT !.pg.extra = n.msink]
  <1>1. f.pg.extra = n.msink /\ f.pg.err = o.pg.err
    BY DEF Machine, PageSet
  <1>2. g.pg.extra = n.msink /\ g.pg.err = p.pg.err
    BY DEF Machine, PageSet
  <1> HIDE DEF f, g
  <1>3. TemplateSize(g, n) = TemplateSize(f, n)
    BY <1>1, <1>2 DEF TemplateSize
  <1>4. QED BY <1>3 DEF FitIn, f, g

-----------------------------------------------------------------------------
(* The invariant, action by action.                                        *)

\* The machine may be put together again.
LEMMA HereIs ==
  ASSUME NEW o \in Machine
  PROVE  [pg |-> o.pg, crsrs |-> o.crsrs, mn |-> o.mn] \in Machine
  BY DEF Machine

\* Initially the machine has what the first node gave it.
LEMMA PagesInitInv ==
  ASSUME PagesInit
  PROVE  PagesInv /\ PagesFit
  <1> DEFINE o == Filled(NewVm, node)
  <1>1. /\ size \in Sizes /\ node \in Nodes /\ idx = 0
        /\ pg = o.pg /\ crsrs = o.crsrs /\ mn = o.mn
        /\ shown = Nothing("none") /\ seen = None
        /\ how = [forward |-> FALSE, offered |-> FALSE, same |-> TRUE]
    BY DEF PagesInit
  <1>2. o \in Machine /\ Loaded(o, node)
    BY <1>1, NewVmIs, FilledLoaded
  <1> HIDE DEF o
  <1>3. shown.kind = "none"
    BY <1>1, NothingIs
  <1>4. Here \in Machine
    BY <1>1, <1>2, HereIs DEF Here
  <1>5. 0 \in 0 .. MaxPage
    BY PagesAssumption
  <1>6. how \in Ways /\ ~how.offered
    BY <1>1 DEF Ways
  <1>7. PagesTyped
    BY <1>1, <1>3, <1>4, <1>5, <1>6 DEF PagesTyped, Kinds
  <1>8. crsrs = <<>> /\ Loaded(Here, node)
    BY <1>1, <1>2 DEF Here, Loaded
  <1>9. AsLeft
    BY <1>3, <1>6, <1>8 DEF AsLeft
  <1>10. AsRead
    BY <1>1 DEF AsRead
  <1>11. QED BY <1>3, <1>7, <1>9, <1>10 DEF PagesInv, NoBrowseError, PagesFit

\* A run that ends in a node leaves it to Flush.
LEMMA ArriveTyped ==
  ASSUME PagesTyped, NEW n \in Nodes, NEW o \in Machine, o.crsrs = <<>>, NEW i \in 0 .. MaxPage,
         NEW forward \in BOOLEAN, NEW offered, NEW same \in BOOLEAN,
         Arrive(n, o, i, forward, offered, same)
  PROVE  /\ PagesTyped' /\ shown'.kind = "none" /\ crsrs' = <<>> /\ pg'.err = o.pg.err
         /\ node' = n /\ idx' = i /\ size' = size /\ seen' = seen
         /\ how'.same = same /\ how'.offered = (offered /\ how.same)
         /\ how'.forward = forward
         /\ o.pg.extra = FALSE /\ o.mn = NewMenu => Loaded(Here', node')
  <1> DEFINE f == Filled(o, n)
  <1>1. /\ f \in Machine /\ f.crsrs = <<>> /\ f.pg.err = o.pg.err
        /\ o.pg.extra = FALSE /\ o.mn = NewMenu => Loaded(f, n)
    BY FilledIs, FilledLoaded
  <1> HIDE DEF f
  <1>2. /\ node' = n /\ idx' = i /\ size' = size /\ seen' = seen
        /\ pg' = f.pg /\ crsrs' = f.crsrs /\ mn' = f.mn
        /\ shown' = Nothing("none")
        /\ how' = [forward |-> forward, offered |-> offered /\ how.same, same |-> same]
    BY DEF Arrive, Becomes, f
  <1>3. shown'.kind = "none"
    BY <1>2, NothingIs
  <1>4. Here' \in Machine
    BY <1>1, <1>2, HereIs DEF Here
  <1>5. /\ how' \in Ways /\ how'.same = same /\ how'.offered = (offered /\ how.same)
        /\ how'.forward = forward
    BY <1>2 DEF Ways
  <1>6. PagesTyped'
    BY <1>2, <1>3, <1>4, <1>5 DEF PagesTyped, Kinds
  <1>7. o.pg.extra = FALSE /\ o.mn = NewMenu => Loaded(Here', node')
    BY <1>1, <1>2 DEF Loaded, Here
  <1>8. QED BY <1>1, <1>2, <1>3, <1>5, <1>6, <1>7

\* Flush shows pages that are there, and offers pages that are there.
LEMMA FlushInv ==
  ASSUME PagesInv, Flush
  PROVE  PagesInv' /\ (LabelsAsSymbols => PagesFit')
  <1> DEFINE r == Render(Here, node, idx)
             o == r.o
             e == pg.err
  <1>1. /\ shown.kind = "none" /\ pg' = o.pg /\ crsrs' = o.crsrs /\ mn' = o.mn
        /\ shown' = r.page
        /\ seen' = IF r.page.kind # "ok" \/ ~how.same THEN None
                   ELSE IF idx = 0 THEN r.page.ns
                   ELSE IF how.forward /\ seen # None THEN seen \o r.page.ns
                   ELSE None
        /\ size' = size /\ node' = node /\ idx' = idx /\ how' = how
    BY DEF Flush, Becomes
  <1>2. /\ size \in Sizes /\ node \in Nodes /\ idx \in 0 .. MaxPage /\ Here \in Machine
        /\ seen = None \/ seen \in Cursors
        /\ how \in Ways /\ idx \in Nat
    BY PagesAssumption DEF PagesInv, PagesTyped
  <1>3. Here.crsrs = <<>> /\ Here.pg.err = e /\ crsrs = <<>>
    BY <1>1 DEF PagesInv, AsLeft, Here
  <1>4. /\ o \in Machine /\ o.pg.err = e
        /\ r.page.kind \in {"ok", "fail", "panic"} /\ r.page.ns \in Cursors
    BY <1>2, <1>3, RenderType
  <1>5. how.same =>
          /\ idx = 0 \/ PageThere(node, e, idx) => r.page.kind \in {"ok", "fail"}
          /\ (idx = 0 \/ PageThere(node, e, idx)) /\ LabelsAsSymbols /\ Roomy(node, e)
               => r.page.kind = "ok"
          /\ r.page.next => PageThere(node, e, idx + 1)
          /\ r.page.prev => idx > 0 /\ PageThere(node, e, idx - 1)
    <2>1. SUFFICES ASSUME how.same
                   PROVE  /\ idx = 0 \/ PageThere(node, e, idx) => r.page.kind \in {"ok", "fail"}
                          /\ (idx = 0 \/ PageThere(node, e, idx)) /\ LabelsAsSymbols
                               /\ Roomy(node, e) => r.page.kind = "ok"
                          /\ r.page.next => PageThere(node, e, idx + 1)
                          /\ r.page.prev => idx > 0 /\ PageThere(node, e, idx - 1)
      OBVIOUS
    <2>2. Loaded(Here, node)
      BY <1>1, <2>1 DEF PagesInv, AsLeft
    <2>3. QED BY <1>2, <1>3, <2>2, RenderLoaded
  <1>14. r.page.kind = "ok" /\ how.same => Shows(r.page, node, e, idx, size)
    <2>1. SUFFICES ASSUME r.page.kind = "ok", how.same PROVE Shows(r.page, node, e, idx, size)
      OBVIOUS
    <2>2. Loaded(Here, node)
      BY <1>1, <2>1 DEF PagesInv, AsLeft
    <2>3. QED BY <1>2, <1>3, <2>1, <2>2, RenderShows
  <1> HIDE DEF o, r
  <1>15. seen' # None =>
           /\ r.page.kind = "ok" /\ Shows(r.page, node, e, idx, size)
           /\ ReadUpTo(seen', node, e, idx + 1, size)
    <2> DEFINE P  == PagesIn(node, e, size)
               ls == LinesIn(node, size)
    <2>1. SUFFICES ASSUME seen' # None
                   PROVE  /\ r.page.kind = "ok" /\ Shows(r.page, node, e, idx, size)
                          /\ ReadTo(seen', P, idx + 1)
      BY DEF ReadUpTo
    <2>2. r.page.kind = "ok" /\ how.same
      BY <1>1, <1>2, <2>1
    <2>4. Shows(r.page, node, e, idx, size)
      BY <1>14, <2>2
    <2> DEFINE page == r.page
    <2> HIDE DEF page
    <2>5. /\ page.ns = IF P = <<>> THEN <<>> ELSE P[idx + 1]
          /\ idx = 0 \/ idx + 1 \in 1 .. Len(P)
          /\ Len(ls) \in Nat /\ P \in Seq(Seq(1 .. Len(ls))) /\ InOrder(P, ls, Len(ls))
      <3>1. ls \in Seq(Nat) => Len(ls) \in Nat
        OBVIOUS
      <3> HIDE DEF P, ls
      <3>2. QED BY <2>4, <3>1 DEF Shows, P, ls, page
    <2> HIDE DEF P, ls
    <2>6. CASE idx = 0
      <3>1. seen' = page.ns
        BY <1>1, <2>2, <2>6 DEF page
      <3>2. ReadTo(IF P = <<>> THEN <<>> ELSE P[1], P, 1)
        BY <2>5, ReadFirst
      <3>3. ReadTo(seen', P, idx + 1)
        BY <2>5, <2>6, <3>1, <3>2
      <3>4. QED BY <2>2, <2>4, <3>3
    <2>7. CASE idx # 0
      <3>1. how.forward /\ seen # None /\ seen' = seen \o page.ns
        BY <1>1, <2>1, <2>2, <2>7 DEF page
      <3>2. ReadTo(seen, P, idx)
        BY <1>1, <3>1 DEF PagesInv, AsRead, ReadUpTo, P
      <3>3. idx + 1 \in 1 .. Len(P) /\ page.ns = P[idx + 1]
        <4>1. P = <<>> => Len(P) = 0
          OBVIOUS
        <4>2. QED BY <2>5, <2>7, <4>1
      <3>4. ReadTo(seen \o P[idx + 1], P, idx + 1)
        BY <1>2, <2>5, <3>1, <3>2, <3>3, ReadNext
      <3>5. QED BY <2>2, <2>4, <3>1, <3>3, <3>4
    <2>8. QED BY <2>6, <2>7
  <1>6. Here' \in Machine
    BY <1>1, <1>4, HereIs DEF Here
  <1>7. seen' = None \/ seen' \in Cursors
    <2>1. seen # None => seen \o r.page.ns \in Cursors
      BY <1>2, <1>4 DEF Cursors
    <2>2. QED BY <1>1, <1>4, <2>1
  <1>8. PagesTyped'
    BY <1>1, <1>2, <1>4, <1>6, <1>7 DEF PagesTyped, Kinds
  <1>9. pg'.err = e
    BY <1>1, <1>4
  <1>10. AsLeft'
    <2>1. shown'.kind # "none" /\ (how'.offered => how'.same)
      BY <1>1, <1>4 DEF PagesInv, AsLeft
    <2>2. /\ how'.same /\ shown'.next => There(node', pg'.err, idx' + 1, size')
          /\ how'.same /\ shown'.prev => There(node', pg'.err, idx' - 1, size')
      BY <1>1, <1>5, <1>9 DEF PageThere
    <2>3. QED BY <2>1, <2>2 DEF AsLeft, PageThere
  <1>11. NoBrowseError'
    BY <1>1, <1>4 DEF NoBrowseError
  <1>12. LabelsAsSymbols => PagesFit'
    <2>1. SUFFICES ASSUME LabelsAsSymbols, (idx' = 0 /\ how'.same) \/ how'.offered
                   PROVE  shown'.kind = "ok" \/ (shown'.kind = "fail" /\ ~LinesFit')
      BY DEF PagesFit
    <2>2. how.same /\ (idx = 0 \/ PageThere(node, e, idx))
      BY <1>1, <2>1 DEF PagesInv, AsLeft
    <2>3. LinesFit' => Roomy(node, e)
      <3>1. LinesFit' => FitIn(Here', node', size')
        BY DEF LinesFit, FitIn
      <3>2. Here'.pg.err = e /\ size' = size /\ size' \in Nat
        BY <1>1, <1>2, <1>9, PagesAssumption DEF Here
      <3>3. FitIn(Here', node', size') => RoomyIn(node', Here'.pg.err, size')
        BY <1>1, <1>2, <1>6, <3>2, FitIsRoomy
      <3>4. QED BY <1>1, <3>1, <3>2, <3>3 DEF Roomy
    <2>4. QED BY <1>1, <1>5, <2>1, <2>2, <2>3
  <1>13. AsRead'
    <2>1. shown'.kind # "none"
      BY <1>1, <1>4
    <2>2. seen' # None => /\ shown'.kind = "ok" /\ Shows(shown', node', pg'.err, idx', size')
                          /\ ReadUpTo(seen', node', pg'.err, idx' + 1, size')
      BY <1>1, <1>9, <1>15
    <2>3. QED BY <2>1, <2>2 DEF AsRead
  <1>16. QED BY <1>8, <1>10, <1>11, <1>12, <1>13 DEF PagesInv

\* Browsing goes to pages that are there if they were offered.
LEMMA BrowseInv ==
  ASSUME PagesInv, NextPage \/ PreviousPage
  PROVE  PagesInv' /\ PagesFit'
  <1> DEFINE o == Fresh(Here)
             e == pg.err
  <1>1. /\ PagesTyped /\ AsLeft /\ node \in Nodes /\ idx \in 0 .. MaxPage /\ Here \in Machine
        /\ MaxPage \in Nat /\ how \in Ways
    BY PagesAssumption DEF PagesInv, PagesTyped
  <1>2. /\ o \in Machine /\ o.crsrs = <<>> /\ o.pg.extra = FALSE /\ o.mn = NewMenu
        /\ o.pg.err = e
    BY <1>1, FreshIs DEF Here
  <1>3. PICK i \in 0 .. MaxPage, forward \in BOOLEAN, offered \in {shown.next, shown.prev} :
          /\ shown.kind # "none" /\ Arrive(node, o, i, forward, offered, TRUE)
          /\ offered /\ how.same => PageThere(node, e, i)
          /\ forward => i = idx + 1
    <2>1. CASE NextPage
      <3>1. idx + 1 \in 0 .. MaxPage
        BY <1>1, <2>1 DEF NextPage
      <3>2. shown.kind # "none" /\ Arrive(node, o, idx + 1, TRUE, shown.next, TRUE)
        BY <2>1 DEF NextPage, Ready
      <3>3. shown.next /\ how.same => PageThere(node, e, idx + 1)
        BY <1>1, <3>2 DEF AsLeft
      <3>4. QED BY <3>1, <3>2, <3>3
    <2>2. CASE PreviousPage
      <3>1. idx - 1 \in 0 .. MaxPage
        BY <1>1, <2>2 DEF PreviousPage
      <3>2. shown.kind # "none" /\ Arrive(node, o, idx - 1, FALSE, shown.prev, TRUE)
        BY <2>2 DEF PreviousPage, Ready
      <3>3. shown.prev /\ how.same => PageThere(node, e, idx - 1)
        BY <1>1, <3>2 DEF AsLeft
      <3>4. QED BY <3>1, <3>2, <3>3
    <2>3. QED BY <2>1, <2>2
  <1> HIDE DEF o
  <1>4. /\ PagesTyped' /\ shown'.kind = "none" /\ crsrs' = <<>> /\ pg'.err = e
        /\ node' = node /\ idx' = i /\ size' = size /\ seen' = seen
        /\ how'.same = TRUE /\ how'.offered = (offered /\ how.same)
        /\ how'.forward = forward
        /\ Loaded(Here', node')
    <2>1. TRUE \in BOOLEAN
      OBVIOUS
    <2>2. /\ PagesTyped' /\ shown'.kind = "none" /\ crsrs' = <<>> /\ pg'.err = o.pg.err
          /\ node' = node /\ idx' = i /\ size' = size /\ seen' = seen
          /\ how'.same = TRUE /\ how'.offered = (offered /\ how.same)
          /\ how'.forward = forward
          /\ o.pg.extra = FALSE /\ o.mn = NewMenu => Loaded(Here', node')
      BY <1>1, <1>2, <1>3, <2>1, ArriveTyped
    <2>3. QED BY <1>2, <2>2
  <1>5. how'.offered => There(node', pg'.err, idx', size')
    BY <1>3, <1>4 DEF PageThere
  <1>6. AsLeft'
    BY <1>4, <1>5 DEF AsLeft, PageThere
  <1>7. AsRead'
    <2>1. SUFFICES ASSUME seen' # None, how'.forward
                   PROVE  idx' > 0 /\ ReadUpTo(seen', node', pg'.err, idx', size')
      BY <1>4 DEF AsRead
    <2>2. seen # None /\ i = idx + 1 /\ idx \in Nat
      BY <1>1, <1>3, <1>4, <2>1
    <2>3. ReadUpTo(seen, node, e, idx + 1, size)
      BY <1>3, <2>2 DEF PagesInv, AsRead
    <2>4. i > 0
      BY <2>2
    <2>5. QED BY <1>4, <2>2, <2>3, <2>4
  <1>8. QED BY <1>4, <1>6, <1>7 DEF PagesInv, NoBrowseError, PagesFit

\* A move starts at the first page of a node; so does a CATCH, with what it finds.
LEMMA MoveInv ==
  ASSUME PagesInv, NEW n \in Targets, Move(n) \/ CatchTo(n)
  PROVE  PagesInv' /\ PagesFit'
  <1>1. /\ PagesTyped /\ n \in Nodes /\ Here \in Machine /\ 0 \in 0 .. MaxPage /\ how \in Ways
        /\ pg.err \in BOOLEAN
    <2>1. PagesTyped /\ Here \in Machine /\ how \in Ways
      BY DEF PagesInv, PagesTyped
    <2>2. n \in Nodes /\ 0 \in 0 .. MaxPage
      BY PagesAssumption
    <2>3. Here.pg.err \in BOOLEAN
      BY <2>1, PageFields DEF Machine
    <2>4. QED BY <2>1, <2>2, <2>3 DEF Here
  <1>2. PICK o \in Machine, same \in BOOLEAN :
          /\ o.crsrs = <<>> /\ Arrive(n, o, 0, FALSE, FALSE, same)
          /\ same => o.pg.extra = FALSE /\ o.mn = NewMenu
    <2>1. CASE Move(n)
      <3>1. PICK err \in {pg.err, TRUE} :
              Arrive(n, [Fresh(Here) EXCEPT !.pg.err = err], 0, FALSE, FALSE, TRUE)
        BY <2>1 DEF Move
      <3> DEFINE f == Fresh(Here)
                 o == [f EXCEPT !.pg.err = err]
      <3>2. /\ f \in Machine /\ f.crsrs = <<>> /\ f.pg.extra = FALSE /\ f.mn = NewMenu
            /\ err \in BOOLEAN
        BY <1>1, FreshIs
      <3>3. Arrive(n, o, 0, FALSE, FALSE, TRUE)
        BY <3>1
      <3> HIDE DEF f
      <3>4. o \in Machine /\ o.crsrs = <<>> /\ o.pg.extra = FALSE /\ o.mn = NewMenu
        BY <3>2, ErrIs
      <3> HIDE DEF o
      <3>5. QED BY <3>3, <3>4
    <2>2. CASE CatchTo(n)
      <3> DEFINE o == Cleared(Here)
      <3>1. o \in Machine /\ o.crsrs = <<>>
        BY <1>1, ClearedIs
      <3>2. Arrive(n, o, 0, FALSE, FALSE, FALSE)
        BY <2>2 DEF CatchTo
      <3> HIDE DEF o
      <3>3. QED BY <3>1, <3>2
    <2>3. QED BY <2>1, <2>2
  <1>3. /\ PagesTyped' /\ shown'.kind = "none" /\ crsrs' = <<>>
        /\ how'.same = same /\ how'.offered = FALSE /\ how'.forward = FALSE
        /\ o.pg.extra = FALSE /\ o.mn = NewMenu => Loaded(Here', node')
    <2>1. /\ 0 \in 0 .. MaxPage /\ FALSE \in BOOLEAN /\ o \in Machine /\ same \in BOOLEAN
          /\ PagesTyped /\ n \in Nodes /\ o.crsrs = <<>> /\ Arrive(n, o, 0, FALSE, FALSE, same)
      BY <1>1, <1>2
    <2>2. /\ PagesTyped' /\ shown'.kind = "none" /\ crsrs' = <<>> /\ pg'.err = o.pg.err
          /\ node' = n /\ idx' = 0 /\ size' = size /\ seen' = seen
          /\ how'.same = same /\ how'.offered = (FALSE /\ how.same)
          /\ how'.forward = FALSE
          /\ o.pg.extra = FALSE /\ o.mn = NewMenu => Loaded(Here', node')
      BY ONLY <2>1, ArriveTyped, Zenon
    <2>3. QED BY <2>2
  <1>4. AsLeft'
    BY <1>2, <1>3 DEF AsLeft
  <1>5. AsRead'
    BY <1>3 DEF AsRead
  <1>6. QED BY <1>3, <1>4, <1>5 DEF PagesInv, NoBrowseError, PagesFit

\* A new engine keeps what was shown, and splits the same lines unless there was an
\* error to show.
LEMMA NewEngineInv ==
  ASSUME PagesInv, NewEngine
  PROVE  PagesInv' /\ (PagesFit => PagesFit')
  <1> DEFINE e == pg.err
  <1>1. /\ shown.kind # "none" /\ pg' = NewVm.pg /\ crsrs' = NewVm.crsrs /\ mn' = NewVm.mn
        /\ how' = [how EXCEPT !.offered = FALSE, !.same = @ /\ ~pg.err]
        /\ seen' = IF pg.err THEN None ELSE seen
        /\ size' = size /\ node' = node /\ idx' = idx /\ shown' = shown
    BY DEF NewEngine, Becomes
  <1>2. PagesTyped /\ AsLeft /\ NoBrowseError /\ how \in Ways /\ Here \in Machine
    BY DEF PagesInv, PagesTyped
  <1>3. how' \in Ways /\ how'.offered = FALSE /\ how'.same = (how.same /\ ~e)
    BY <1>1, <1>2 DEF Ways
  <1>4. Here' \in Machine
    BY <1>1, NewVmIs, HereIs DEF Here
  <1>5. PagesTyped'
    BY <1>1, <1>2, <1>3, <1>4 DEF PagesTyped
  <1>6. how'.same => pg'.err = e
    <2>1. Here.pg.err \in BOOLEAN
      BY <1>2, PageFields DEF Machine
    <2>2. QED BY <1>1, <1>3, <2>1, NewVmIs DEF Here
  <1>7. AsLeft'
    <2>1. /\ how'.same /\ shown'.next => There(node', pg'.err, idx' + 1, size')
          /\ how'.same /\ shown'.prev => There(node', pg'.err, idx' - 1, size')
      BY <1>1, <1>2, <1>3, <1>6 DEF AsLeft, PageThere
    <2>2. QED BY <1>1, <1>3, <2>1 DEF AsLeft, PageThere
  <1>8. NoBrowseError'
    BY <1>1, <1>2 DEF NoBrowseError
  <1>9. PagesFit => PagesFit'
    <2>1. SUFFICES ASSUME PagesFit, (idx' = 0 /\ how'.same) \/ how'.offered
                   PROVE  shown'.kind = "ok" \/ (shown'.kind = "fail" /\ ~LinesFit')
      BY DEF PagesFit
    <2>2. idx = 0 /\ how.same /\ pg'.err = e
      BY <1>1, <1>3, <1>6, <2>1
    <2>3. shown.kind = "ok" \/ (shown.kind = "fail" /\ ~LinesFit)
      BY <1>1, <2>1, <2>2 DEF PagesFit
    <2>4. LinesFit' => LinesFit
      <3>1. (LinesFit' <=> FitIn(Here', node', size')) /\ (LinesFit <=> FitIn(Here, node, size))
        BY DEF LinesFit, FitIn
      <3>2. Here'.pg.err = Here.pg.err
        BY <2>2 DEF Here
      <3>3. QED BY <1>1, <1>2, <1>4, <3>1, <3>2, FitByErr DEF PagesTyped
    <2>5. QED BY <1>1, <2>3, <2>4
  <1>10. AsRead'
    <2>1. SUFFICES ASSUME seen' # None
                   PROVE  /\ shown'.kind = "ok" /\ Shows(shown', node', pg'.err, idx', size')
                          /\ ReadUpTo(seen', node', pg'.err, idx' + 1, size')
      BY <1>1 DEF AsRead
    <2>2. seen' = seen /\ ~e
      BY <1>1, <2>1
    <2>3. pg'.err = e
      <3>1. Here.pg.err \in BOOLEAN
        BY <1>2, PageFields DEF Machine
      <3>2. QED BY <1>1, <2>2, <3>1, NewVmIs DEF Here
    <2>4. /\ shown.kind = "ok" /\ Shows(shown, node, e, idx, size)
          /\ ReadUpTo(seen, node, e, idx + 1, size)
      BY <1>1, <2>1, <2>2 DEF PagesInv, AsRead
    <2>5. QED BY <1>1, <2>2, <2>3, <2>4
  <1>11. QED BY <1>5, <1>7, <1>8, <1>9, <1>10 DEF PagesInv

\* Every step.
LEMMA PagesNextInv ==
  ASSUME PagesInv, [PagesNext]_vars
  PROVE  PagesInv' /\ (LabelsAsSymbols /\ PagesFit => PagesFit')
  <1>1. CASE Flush
    BY <1>1, FlushInv
  <1>2. CASE NextPage \/ PreviousPage
    BY <1>2, BrowseInv
  <1>3. CASE \E n \in Targets : Move(n) \/ CatchTo(n)
    BY <1>3, MoveInv
  <1>4. CASE NewEngine
    BY <1>4, NewEngineInv
  <1>5. CASE UNCHANGED vars
    <2>1. PagesTyped' /\ AsLeft' /\ NoBrowseError'
      BY <1>5 DEF vars, PagesInv, PagesTyped, AsLeft, PageThere, NoBrowseError, Here, Loaded
    <2>4. AsRead'
      BY <1>5 DEF vars, PagesInv, AsRead
    <2>2. PagesFit => PagesFit'
      BY <1>5 DEF vars, PagesFit, LinesFit, Here
    <2>3. QED BY <2>1, <2>2, <2>4 DEF PagesInv
  <1>6. QED BY <1>1, <1>2, <1>3, <1>4, <1>5 DEF PagesNext

-----------------------------------------------------------------------------
(* The theorems.                                                           *)

\* The inductive invariant holds, whatever the labels of the browse items.
THEOREM PagesInvariant == PagesSpec => []PagesInv
  <1>1. PagesInit => PagesInv
    BY PagesInitInv
  <1>2. PagesInv /\ [PagesNext]_vars => PagesInv'
    BY PagesNextInv
  <1>3. QED BY <1>1, <1>2, PTL DEF PagesSpec

\* Page, menu and cursors are well formed.
THEOREM PagesTypeCorrect == PagesSpec => []PagesTypeOK
  <1>1. PagesInv => PagesTypeOK
    <2>1. SUFFICES ASSUME PagesInv PROVE PagesTypeOK
      OBVIOUS
    <2>2. Here.pg \in PageSet /\ Here.crsrs \in Cursors /\ Here.mn \in MenuSet
      BY <2>1 DEF PagesInv, PagesTyped, Machine
    <2>3. pg \in PageSet /\ crsrs \in Cursors /\ mn \in MenuSet
      BY <2>2 DEF Here
    <2>4. /\ pg.content = None \/ pg.content \in Lines
          /\ {pg.extra, pg.err} \subseteq BOOLEAN
          /\ mn.items \in Lines /\ mn.pageCount \in Nat
          /\ {mn.next, mn.prev, mn.sink, mn.keep} \subseteq BOOLEAN
      BY <2>3, PageFields, MenuFields
    <2>5. QED BY <2>1, <2>3, <2>4 DEF PagesTypeOK, PagesInv, PagesTyped, Kinds, Cursors
  <1>2. QED BY <1>1, PagesInvariant, PTL

\* menu.go:244: the sizer refuses an index out of range before the menu sees it.
THEOREM MenuIsNeverOutOfRange == PagesSpec => []NoBrowseError
  <1>1. PagesInv => NoBrowseError
    BY DEF PagesInv
  <1>2. QED BY <1>1, PagesInvariant, PTL

\* render.texi:100: who goes on from the first page until there is no next has seen
\* every line of the sink once, in order (blank lines at the top of a page aside).
THEOREM BrowsingReadsAll == PagesSpec => []ReadsAll
  <1>1. PagesInv => ReadsAll
    <2>1. SUFFICES ASSUME PagesInv, shown.kind = "ok", seen # None, node.next, ~shown.next
                   PROVE  /\ \A i, j \in DOMAIN seen : i < j => seen[i] < seen[j]
                          /\ Range(seen) \subseteq DOMAIN shown.ls
                          /\ \A k \in DOMAIN shown.ls : shown.ls[k] = 0 \/ k \in Range(seen)
      BY DEF ReadsAll
    <2> DEFINE P  == PagesIn(node, pg.err, size)
               ls == LinesIn(node, size)
    <2>2. Shows(shown, node, pg.err, idx, size) /\ ReadTo(seen, P, idx + 1)
      BY <2>1 DEF PagesInv, AsRead, ReadUpTo
    <2> HIDE DEF P, ls
    <2>3. /\ shown.ls = ls /\ Len(P) <= idx + 1
          /\ ls \in Seq(Nat) /\ P \in Seq(Seq(1 .. Len(ls))) /\ InOrder(P, ls, Len(ls))
      BY <2>1, <2>2 DEF Shows, P, ls
    <2>4. seen \in Cursors /\ idx + 1 \in Nat
      BY <2>1, PagesAssumption DEF PagesInv, PagesTyped
    <2>5. QED BY <2>2, <2>3, <2>4, ReadLast
  <1>2. QED BY <1>1, PagesInvariant, PTL

\* render.texi:102: a node whose lines fit can be shown, and so can every page of it
\* that the page before or after offers, if the labels of the browse items are as
\* long as the symbols they were reserved for.
THEOREM OfferedPagesFit == ASSUME LabelsAsSymbols PROVE PagesSpec => []PagesFit
  <1>1. PagesInit => PagesInv /\ PagesFit
    BY PagesInitInv
  <1>2. (PagesInv /\ PagesFit) /\ [PagesNext]_vars => (PagesInv /\ PagesFit)'
    BY PagesNextInv
  <1>3. QED BY <1>1, <1>2, PTL DEF PagesSpec
=============================================================================
