------------------------------ MODULE VmProofs ------------------------------
(***************************************************************************)
(* Invariants of Vm for every program, every external function and every   *)
(* input. The inductive invariant IInv says, besides typing, how deep the  *)
(* cache is compared with the path: a symbol in frame i that was loaded at *)
(* path h has at least as many nodes above h as there are frames above i.  *)
(* Equality would be the natural guess, but CROAK, which drops frames and  *)
(* keeps the path, breaks it; what is left is enough for ScopeHeld. For    *)
(* programs without CROAK the second part has the depth of the cache and   *)
(* the place of every symbol in it exactly, and that the code that is kept *)
(* belongs to the node. The last part is about programs that ask for input *)
(* before they compare it, show what they map and answer their menus: one  *)
(* input then makes one move, the page is current, the menu is answered.   *)
(***************************************************************************)
EXTENDS Vm, CacheLemmas

\* Where a symbol was loaded, compared with where it is in the cache.
Scoped(path, frames, h) ==
  \A i \in DOMAIN frames : \A k \in DOMAIN frames[i] :
    /\ Len(path) - Len(h[k]) >= Len(frames) - i
    /\ \A j \in 1 .. Len(h[k]) : h[k][j] = path[j]

\* A machine state in the middle of a turn: well formed, no longer waiting,
\* its code not kept in the state, its symbols in scope under h.
Good(o, h) ==
  /\ DOMAIN o = {"st", "ca", "pg", "mn", "b", "err"}
  /\ o.st \in StateType
  /\ CacheShape(o.ca)
  /\ o.pg \in Page
  /\ o.mn \in Menu
  /\ o.b \in Seq(Instruction)
  /\ o.err \in Outcome
  /\ "WAIT" \notin o.st.flags
  /\ o.st.code = <<>>
  /\ Scoped(o.st.path, o.ca.frames, h)

Home == [Key -> Seq(Node)]

-----------------------------------------------------------------------------
(* The state.                                                              *)

\* Frames are numbered from 1.
LEMMA Numbered ==
  ASSUME NEW c, CacheShape(c)
  PROVE  /\ DOMAIN c.frames = 1 .. Len(c.frames)
         /\ Len(c.frames) \in Nat \ {0}
         /\ \A i \in DOMAIN c.frames : DOMAIN c.frames[i] \subseteq Key
  <1>1. /\ DOMAIN c.frames = 1 .. Len(c.frames)
        /\ Len(c.frames) \in Nat \ {0}
        /\ \A i \in 1 .. Len(c.frames) : c.frames[i] \in Frame
    BY LenProperties, ElementOfSeq, EmptySeq DEF CacheShape
  <1>2. \A f \in Frame : DOMAIN f \subseteq Key
    BY FrameDef
  <1>3. QED BY <1>1, <1>2

\* A path grows at its end and shrinks from it.
LEMMA PathSteps ==
  ASSUME NEW s \in StateType
  PROVE  /\ \A node \in Node :
              /\ Down(s, node) \in StateType
              /\ Len(Down(s, node).path) = Len(s.path) + 1
              /\ \A j \in 1 .. Len(s.path) : Down(s, node).path[j] = s.path[j]
              /\ Down(s, node).flags = s.flags /\ Down(s, node).code = s.code
         /\ s.path # <<>> =>
              /\ Up(s) \in StateType
              /\ Len(Up(s).path) = Len(s.path) - 1
              /\ \A j \in 1 .. Len(s.path) - 1 : Up(s).path[j] = s.path[j]
              /\ Up(s).flags = s.flags /\ Up(s).code = s.code
  <1>1. s.path \in Seq(Node) /\ Len(s.path) \in Nat /\ 0 \in 0 .. (IdxMod - 1)
    BY StateAssumption, LenProperties DEF StateType
  <1>2. ASSUME NEW node \in Node
        PROVE  /\ Append(s.path, node) \in Seq(Node)
               /\ Len(Append(s.path, node)) = Len(s.path) + 1
               /\ \A j \in 1 .. Len(s.path) : Append(s.path, node)[j] = s.path[j]
    BY <1>1, AppendProperties
  <1>3. ASSUME s.path # <<>>
        PROVE  /\ SubSeq(s.path, 1, Len(s.path) - 1) \in Seq(Node)
               /\ Len(SubSeq(s.path, 1, Len(s.path) - 1)) = Len(s.path) - 1
               /\ \A j \in 1 .. Len(s.path) - 1 :
                    SubSeq(s.path, 1, Len(s.path) - 1)[j] = s.path[j]
    <2>1. Len(s.path) > 0 /\ \A j \in 1 .. Len(s.path) - 1 : s.path[j] \in Node
      BY <1>1, <1>3, EmptySeq, ElementOfSeq
    <2>2. QED BY <1>1, <2>1, SubSeqProperties
  <1>4. QED BY <1>1, <1>2, <1>3 DEF Down, Up, StateType

\* The page index stays within its width.
LEMMA IndexSteps ==
  ASSUME NEW s \in StateType
  PROVE  /\ NextIdx(s) \in StateType
         /\ ~AtFirstIdx(s) => PreviousIdx(s) \in StateType
         /\ NextIdx(s).path = s.path /\ PreviousIdx(s).path = s.path
         /\ NextIdx(s).flags = s.flags /\ PreviousIdx(s).flags = s.flags
         /\ NextIdx(s).code = s.code /\ PreviousIdx(s).code = s.code
  <1>1. IdxMod \in Nat \ {0} /\ s.idx \in 0 .. (IdxMod - 1)
    BY StateAssumption DEF StateType
  <1>2. (s.idx + 1) % IdxMod \in 0 .. (IdxMod - 1)
    BY <1>1
  <1>3. ~AtFirstIdx(s) => s.idx - 1 \in 0 .. (IdxMod - 1)
    BY <1>1 DEF AtFirstIdx
  <1>4. QED BY <1>2, <1>3 DEF NextIdx, PreviousIdx, StateType

-----------------------------------------------------------------------------
(* Navigation.                                                             *)

\* A path x in scope stays in scope when path and frames change by the same
\* number, as long as its frame i is left.
LEMMA StaysInScope ==
  ASSUME NEW x \in Seq(Node), NEW p \in Seq(Node), NEW q \in Seq(Node),
         NEW n \in Int, NEW m \in Int, NEW i \in Int, i <= n, i <= m,
         Len(q) + n = Len(p) + m,
         \A j \in 1 .. Len(p) : j \in 1 .. Len(q) => q[j] = p[j],
         Len(p) - Len(x) >= n - i,
         \A j \in 1 .. Len(x) : x[j] = p[j]
  PROVE  /\ Len(q) - Len(x) >= m - i
         /\ \A j \in 1 .. Len(x) : x[j] = q[j]
  <1> DEFINE lp == Len(p)  lq == Len(q)  lx == Len(x)
  <1>1. lp \in Nat /\ lq \in Nat /\ lx \in Nat /\ lq + n = lp + m /\ lp - lx >= n - i
    BY LenProperties
  <1> HIDE DEF lp, lq, lx
  <1>2. lq - lx >= m - i /\ lx <= lq /\ lx <= lp
    BY <1>1
  <1>3. ASSUME NEW j \in 1 .. lx PROVE x[j] = q[j]
    <2>1. j \in 1 .. lp /\ j \in 1 .. lq
      BY <1>1, <1>2
    <2>2. QED BY <2>1 DEF lp, lq, lx
  <1>4. QED BY <1>2, <1>3 DEF lq, lx

\* Going up d nodes and freeing d levels keeps every symbol left in scope.
LEMMA ShrinkScope ==
  ASSUME NEW h \in Home, NEW c, CacheShape(c), NEW d \in Nat,
         NEW p \in Seq(Node), NEW q \in Seq(Node), Len(q) = Len(p) - d,
         \A j \in 1 .. Len(q) : q[j] = p[j],
         Scoped(p, c.frames, h)
  PROVE  Scoped(q, PopN(c, d).frames, h)
  <1> DEFINE n == Len(c.frames)
             fs == PopN(c, d).frames
  <1>1. /\ Len(fs) = IF n > d THEN n - d ELSE 1
        /\ \A i \in DOMAIN fs : IF n > d THEN i \in DOMAIN c.frames /\ fs[i] = c.frames[i]
                                ELSE DOMAIN fs[i] = {}
        /\ CacheShape(PopN(c, d))
    BY PopNFrames
  <1>2. DOMAIN fs = 1 .. Len(fs) /\ Len(fs) \in Nat \ {0}
    BY <1>1, Numbered
  <1>3. /\ n \in Nat \ {0} /\ DOMAIN c.frames = 1 .. n
        /\ \A i \in DOMAIN c.frames : DOMAIN c.frames[i] \subseteq Key
    BY Numbered
  <1> HIDE DEF fs, n
  <1>4. SUFFICES ASSUME NEW i \in DOMAIN fs, NEW k \in DOMAIN fs[i]
                 PROVE  /\ Len(q) - Len(h[k]) >= Len(fs) - i
                        /\ \A j \in 1 .. Len(h[k]) : h[k][j] = q[j]
    BY DEF Scoped, fs
  <1>5. n > d /\ i \in DOMAIN c.frames /\ k \in DOMAIN c.frames[i] /\ k \in Key
    BY <1>1, <1>3, <1>4
  <1>6. i \in Int /\ n \in Int /\ Len(fs) \in Int /\ i <= n /\ i <= Len(fs)
    BY <1>1, <1>2, <1>3, <1>5
  <1>7. h[k] \in Seq(Node)
    BY <1>5 DEF Home
  <1>8. Len(p) - Len(h[k]) >= n - i /\ \A j \in 1 .. Len(h[k]) : h[k][j] = p[j]
    BY <1>5 DEF Scoped, n
  <1>9. Len(q) + n = Len(p) + Len(fs)
    <2> DEFINE lp == Len(p)  lq == Len(q)  lf == Len(fs)
    <2>1. lp \in Nat /\ lq = lp - d /\ lf = n - d /\ n \in Nat
      BY <1>1, <1>3, <1>5, LenProperties
    <2> HIDE DEF lp, lq, lf
    <2>2. lq + n = lp + lf
      BY <2>1
    <2>3. QED BY <2>2 DEF lp, lq, lf
  <1>10. \A j \in 1 .. Len(p) : j \in 1 .. Len(q) => q[j] = p[j]
    OBVIOUS
  <1>11. QED BY <1>6, <1>7, <1>8, <1>9, <1>10, StaysInScope, Zenon

\* Entering a node and adding a level keeps every symbol in scope.
LEMMA GrowScope ==
  ASSUME NEW h \in Home, NEW c, CacheShape(c),
         NEW p \in Seq(Node), NEW q \in Seq(Node), Len(q) = Len(p) + 1,
         \A j \in 1 .. Len(p) : q[j] = p[j],
         Scoped(p, c.frames, h)
  PROVE  Scoped(q, Push(c).frames, h)
  <1> DEFINE n == Len(c.frames)
             fs == Push(c).frames
  <1>1. /\ CacheShape(Push(c))
        /\ Len(fs) = n + 1
        /\ \A i \in DOMAIN c.frames : fs[i] = c.frames[i]
        /\ DOMAIN fs[n + 1] = {}
    BY PushFrames
  <1>2. DOMAIN fs = 1 .. Len(fs)
    BY <1>1, Numbered
  <1>3. /\ n \in Nat \ {0} /\ DOMAIN c.frames = 1 .. n
        /\ \A i \in DOMAIN c.frames : DOMAIN c.frames[i] \subseteq Key
    BY Numbered
  <1> HIDE DEF fs, n
  <1>4. SUFFICES ASSUME NEW i \in DOMAIN fs, NEW k \in DOMAIN fs[i]
                 PROVE  /\ Len(q) - Len(h[k]) >= Len(fs) - i
                        /\ \A j \in 1 .. Len(h[k]) : h[k][j] = q[j]
    BY DEF Scoped, fs
  <1>5. i # n + 1
    BY <1>1, <1>4
  <1>6. i \in DOMAIN c.frames /\ k \in DOMAIN c.frames[i] /\ k \in Key
    BY <1>1, <1>2, <1>3, <1>4, <1>5
  <1>7. i \in Int /\ n \in Int /\ Len(fs) \in Int /\ i <= n /\ i <= Len(fs)
    BY <1>1, <1>3, <1>6
  <1>8. h[k] \in Seq(Node)
    BY <1>6 DEF Home
  <1>9. Len(p) - Len(h[k]) >= n - i /\ \A j \in 1 .. Len(h[k]) : h[k][j] = p[j]
    BY <1>6 DEF Scoped, n
  <1>10. Len(q) + n = Len(p) + Len(fs)
    <2> DEFINE lp == Len(p)  lq == Len(q)  lf == Len(fs)
    <2>1. lp \in Nat /\ lq = lp + 1 /\ lf = n + 1 /\ n \in Nat
      BY <1>1, <1>3, LenProperties
    <2> HIDE DEF lp, lq, lf
    <2>2. lq + n = lp + lf
      BY <2>1
    <2>3. QED BY <2>2 DEF lp, lq, lf
  <1>11. \A j \in 1 .. Len(p) : j \in 1 .. Len(q) => q[j] = p[j]
    OBVIOUS
  <1>12. QED BY <1>7, <1>8, <1>9, <1>10, <1>11, StaysInScope, Zenon

\* Ascend frees the level of the node left.
LEMMA AscendGood ==
  ASSUME NEW h \in Home, NEW o, Good(o, h), o.st.path # <<>>
  PROVE  Good(Ascend(o), h)
  <1> DEFINE s == Up(o.st)
             c == PopN(o.ca, 1)
  <1>1. /\ s \in StateType /\ Len(s.path) = Len(o.st.path) - 1
        /\ \A j \in 1 .. Len(o.st.path) - 1 : s.path[j] = o.st.path[j]
        /\ s.flags = o.st.flags /\ s.code = o.st.code
    BY PathSteps DEF Good
  <1>2. CacheShape(c)
    BY PopNFrames DEF Good
  <1>3. Scoped(s.path, c.frames, h)
    BY <1>1, ShrinkScope DEF Good, StateType
  <1>4. Ascend(o) = [o EXCEPT !.st = s, !.ca = c]
    BY DEF Ascend, Pop
  <1> HIDE DEF s, c
  <1>5. QED BY <1>1, <1>2, <1>3, <1>4 DEF Good

\* Rewind frees the levels of all nodes left.
LEMMA RewindGood ==
  ASSUME NEW h \in Home, NEW o, Good(o, h)
  PROVE  Good(Rewind(o), h)
  <1>1. /\ o.st \in StateType /\ o.st.path \in Seq(Node) /\ Len(o.st.path) \in Nat
        /\ \A j \in 1 .. Len(o.st.path) : o.st.path[j] \in Node
    BY LenProperties, ElementOfSeq DEF Good, StateType
  <1>2. CASE Len(o.st.path) <= 1
    BY <1>2 DEF Rewind
  <1>3. CASE ~(Len(o.st.path) <= 1)
    <2> DEFINE d == Len(o.st.path) - 1
               s == [o.st EXCEPT !.path = SubSeq(@, 1, 1), !.idx = 0]
               c == PopN(o.ca, d)
    <2>1. /\ SubSeq(o.st.path, 1, 1) \in Seq(Node)
          /\ Len(SubSeq(o.st.path, 1, 1)) = 1
          /\ SubSeq(o.st.path, 1, 1)[1] = o.st.path[1]
      BY <1>1, <1>3, SubSeqProperties
    <2>2. d \in Nat /\ 1 = Len(o.st.path) - d
      BY <1>1, <1>3
    <2>3. /\ s \in StateType /\ s.path = SubSeq(o.st.path, 1, 1)
          /\ s.flags = o.st.flags /\ s.code = o.st.code
      <3>1. 0 \in 0 .. (IdxMod - 1)
        BY StateAssumption
      <3> DEFINE q == SubSeq(o.st.path, 1, 1)
      <3>2. q \in Seq(Node)
        BY <2>1
      <3> HIDE DEF q
      <3>3. /\ [o.st EXCEPT !.path = q, !.idx = 0] \in StateType
            /\ [o.st EXCEPT !.path = q, !.idx = 0].path = q
            /\ [o.st EXCEPT !.path = q, !.idx = 0].flags = o.st.flags
            /\ [o.st EXCEPT !.path = q, !.idx = 0].code = o.st.code
        BY <1>1, <3>1, <3>2 DEF StateType
      <3>4. QED BY <3>3 DEF q
    <2>4. Rewind(o) = [o EXCEPT !.st = s, !.ca = c]
      BY <1>3 DEF Rewind, Good
    <2> HIDE DEF d
    <2>5. CacheShape(c)
      BY <2>2, PopNFrames DEF Good
    <2>6. Scoped(s.path, c.frames, h)
      <3> HIDE DEF s
      <3>1. /\ s.path \in Seq(Node) /\ Len(s.path) = Len(o.st.path) - d
            /\ \A j \in 1 .. Len(s.path) : s.path[j] = o.st.path[j]
        BY <2>1, <2>2, <2>3
      <3>2. QED BY <1>1, <2>2, <3>1, ShrinkScope DEF Good
    <2> HIDE DEF s, c
    <2>7. QED BY <2>3, <2>4, <2>5, <2>6 DEF Good
  <1>4. QED BY <1>2, <1>3

\* Descend adds a level for the node entered.
LEMMA DescendGood ==
  ASSUME NEW h \in Home, NEW o, Good(o, h), NEW node \in Node
  PROVE  Good(Descend(o, node), h)
  <1> DEFINE s == Down(o.st, node)
             c == Push(o.ca)
  <1>1. /\ s \in StateType /\ Len(s.path) = Len(o.st.path) + 1
        /\ \A j \in 1 .. Len(o.st.path) : s.path[j] = o.st.path[j]
        /\ s.flags = o.st.flags /\ s.code = o.st.code
    BY PathSteps DEF Good
  <1>2. CacheShape(c)
    BY PushFrames DEF Good
  <1>3. Scoped(s.path, c.frames, h)
    BY <1>1, GrowScope DEF Good, StateType
  <1>4. Descend(o, node) = [o EXCEPT !.st = s, !.ca = c]
    BY DEF Descend
  <1> HIDE DEF s, c
  <1>5. QED BY <1>1, <1>2, <1>3, <1>4 DEF Good

-----------------------------------------------------------------------------
(* Parts of a machine state.                                               *)

\* A well formed part may replace another.
LEMMA PartsGood ==
  ASSUME NEW h \in Home, NEW o, Good(o, h)
  PROVE  /\ \A e \in Outcome : Good([o EXCEPT !.err = e], h)
         /\ \A q \in Seq(Instruction) : Good([o EXCEPT !.b = q], h)
         /\ \A p \in Page : Good([o EXCEPT !.pg = p], h)
         /\ \A m \in Menu : Good([o EXCEPT !.mn = m], h)
         /\ \A s \in StateType :
              s.path = o.st.path /\ s.code = <<>> /\ "WAIT" \notin s.flags
                => Good([o EXCEPT !.st = s], h)
  BY DEF Good

\* Changing flags changes nothing else.
LEMMA FlagsOnly ==
  ASSUME NEW s \in StateType, NEW f \in SUBSET Flag
  PROVE  /\ [s EXCEPT !.flags = f] \in StateType
         /\ [s EXCEPT !.flags = f].path = s.path
         /\ [s EXCEPT !.flags = f].code = s.code
         /\ [s EXCEPT !.flags = f].flags = f
  BY DEF StateType

\* Scope is a matter of where symbols are and of their home paths, not of values.
LEMMA ScopeOfSymbols ==
  ASSUME NEW p, NEW fs, NEW gs, NEW h, NEW g, Scoped(p, fs, h),
         DOMAIN gs = DOMAIN fs, Len(gs) = Len(fs),
         \A i \in DOMAIN fs : DOMAIN gs[i] = DOMAIN fs[i],
         \A i \in DOMAIN fs : \A k \in DOMAIN fs[i] : g[k] = h[k]
  PROVE  Scoped(p, gs, g)
  <1> SUFFICES ASSUME NEW i \in DOMAIN gs, NEW k \in DOMAIN gs[i]
               PROVE  /\ Len(p) - Len(g[k]) >= Len(gs) - i
                      /\ \A j \in 1 .. Len(g[k]) : g[k][j] = p[j]
    BY DEF Scoped
  <1>1. i \in DOMAIN fs /\ k \in DOMAIN fs[i] /\ g[k] = h[k]
    OBVIOUS
  <1>2. /\ Len(p) - Len(h[k]) >= Len(fs) - i
        /\ \A j \in 1 .. Len(h[k]) : h[k][j] = p[j]
    BY <1>1 DEF Scoped
  <1>3. QED BY <1>1, <1>2

\* A base flag other than WAIT may be set, and any flag reset.
LEMMA FlagGood ==
  ASSUME NEW h \in Home, NEW o, Good(o, h), NEW f \in Flag, f # "WAIT"
  PROVE  Good([o EXCEPT !.st = SetFlag(o.st, f)], h)
  <1>1. o.st \in StateType /\ o.st.flags \in SUBSET Flag
    BY DEF Good, StateType
  <1>2. o.st.flags \cup {f} \in SUBSET Flag /\ "WAIT" \notin o.st.flags \cup {f}
    BY <1>1 DEF Good
  <1>3. /\ SetFlag(o.st, f) \in StateType
        /\ SetFlag(o.st, f).path = o.st.path
        /\ SetFlag(o.st, f).code = <<>>
        /\ "WAIT" \notin SetFlag(o.st, f).flags
    BY <1>1, <1>2, FlagsOnly DEF SetFlag, Good
  <1>4. QED BY <1>3, PartsGood

\* A new menu and an emptied page.
LEMMA FreshPageGood ==
  ASSUME NEW h \in Home, NEW o, Good(o, h)
  PROVE  Good(FreshPage(o), h)
  <1>1. o.pg \in Page /\ NewMenu \in Menu
    BY DEF Good, NewMenu, Menu
  <1>2. PageReset(o.pg) \in Page
    BY <1>1, NewMapIsFrame DEF PageReset, Page
  <1> DEFINE o1 == [o EXCEPT !.pg = PageReset(o.pg)]
  <1>3. FreshPage(o) = [o1 EXCEPT !.mn = NewMenu]
    BY DEF FreshPage, Good
  <1>4. Good(o1, h)
    BY <1>2, PartsGood
  <1> HIDE DEF o1
  <1>5. QED BY <1>1, <1>3, <1>4, PartsGood

\* applyTarget keeps the machine state well formed and in scope, for every target.
LEMMA ApplyTargetGood ==
  ASSUME NEW h \in Home, NEW o, Good(o, h), NEW t \in Target
  PROVE  Good(ApplyTarget(o, t), h)
  <1>1. {"ok", "fail", "index", "panic"} = Outcome
    BY DEF Outcome
  <1>2. CASE t = "_"
    BY <1>1, <1>2, PartsGood, AscendGood DEF ApplyTarget, Fails
  <1>3. CASE t = ">"
    <2>1. Good([o EXCEPT !.st = NextIdx(o.st)], h)
      BY IndexSteps, PartsGood DEF Good
    <2>2. QED BY <1>1, <1>3, <2>1, PartsGood DEF ApplyTarget, Fails
  <1>4. CASE t = "<"
    <2>1. ~AtFirstIdx(o.st) => Good([o EXCEPT !.st = PreviousIdx(o.st)], h)
      BY IndexSteps, PartsGood DEF Good
    <2>2. QED BY <1>1, <1>4, <2>1, PartsGood DEF ApplyTarget, Fails
  <1>5. CASE t = "^"
    BY <1>5, RewindGood DEF ApplyTarget
  <1>6. CASE t = "."
    BY <1>6 DEF ApplyTarget
  <1>7. CASE t \notin {"_", ">", "<", "^", "."}
    <2>1. t \in Node
      BY <1>7 DEF Target
    <2>2. ApplyTarget(o, t) = IF DownPanics(o.st, t) THEN Fails(o, "panic") ELSE Descend(o, t)
      BY <1>7 DEF ApplyTarget
    <2>3. QED BY <1>1, <2>1, <2>2, PartsGood, DescendGood DEF Fails
  <1>8. QED BY <1>2, <1>3, <1>4, <1>5, <1>6, <1>7

\* The code of a node is made of instructions.
LEMMA CodeOfNode ==
  ASSUME NEW o, NEW up, CodeHere(o, up)
  PROVE  Code[Where(o.st)] \in Seq(Instruction)
  BY VmAssumption DEF CodeHere, HasCode

\* Code is appended, or the run fails.
LEMMA AppendCodeGood ==
  ASSUME NEW h \in Home, NEW o, Good(o, h), NEW up
  PROVE  Good(AppendCode(o, up), h)
  <1>1. CASE CodeHere(o, up)
    <2>1. o.b \o Code[Where(o.st)] \in Seq(Instruction)
      BY <1>1, CodeOfNode, ConcatProperties DEF Good
    <2>2. QED BY <1>1, <2>1, PartsGood DEF AppendCode
  <1>2. CASE ~CodeHere(o, up)
    BY <1>2, PartsGood DEF AppendCode, Fails, Outcome
  <1>3. QED BY <1>1, <1>2

-----------------------------------------------------------------------------
(* The opcodes.                                                            *)

\* MOVE.
LEMMA MoveGood ==
  ASSUME NEW h \in Home, NEW o, Good(o, h), NEW i, i.node \in Target, NEW up
  PROVE  Good(RunMove(o, i, up), h)
  <1> DEFINE m == ApplyTarget(o, i.node)
  <1>1. Good(m, h)
    BY ApplyTargetGood
  <1>2. Good(AppendCode(m, up), h)
    BY <1>1, AppendCodeGood
  <1>3. Good(FreshPage(AppendCode(m, up)), h)
    BY <1>2, FreshPageGood
  <1>4. Good(Fails(m, "fail"), h)
    BY <1>1, PartsGood DEF Fails, Outcome
  <1>5. QED BY <1>1, <1>3, <1>4 DEF RunMove

\* CATCH.
LEMMA CatchGood ==
  ASSUME NEW h \in Home, NEW o, Good(o, h), NEW i, i.node \in Target, NEW up
  PROVE  Good(RunCatch(o, i, up), h)
  <1> DEFINE m == ApplyTarget(o, i.node)
  <1>1. Good(m, h)
    BY ApplyTargetGood
  <1>2. Good(Fails(m, "fail"), h)
    BY <1>1, PartsGood DEF Fails, Outcome
  <1>3. CodeHere(m, up) => Good([m EXCEPT !.b = Code[Where(m.st)]], h)
    BY <1>1, CodeOfNode, PartsGood
  <1>4. QED BY <1>1, <1>2, <1>3 DEF RunCatch

\* CROAK drops every frame but the first, where symbols are in scope as ever.
LEMMA CroakGood ==
  ASSUME NEW h \in Home, NEW o, Good(o, h), NEW i
  PROVE  Good(RunCroak(o, i), h)
  <1> DEFINE f == FreshPage(o)
             c == Reset(f.ca)
  <1>1. Good(f, h)
    BY FreshPageGood
  <1>2. /\ CacheShape(c) /\ Len(c.frames) = 1
        /\ c.frames[1] = f.ca.frames[1] /\ 1 \in DOMAIN f.ca.frames
    BY <1>1, ResetFrames DEF Good
  <1>3. DOMAIN c.frames = 1 .. 1
    BY <1>2, Numbered
  <1>4. Scoped(f.st.path, c.frames, h)
    <2>1. Len(f.ca.frames) \in Nat \ {0} /\ \A k \in DOMAIN f.ca.frames[1] : k \in Key
      BY <1>1, <1>2, Numbered DEF Good
    <2>2. SUFFICES ASSUME NEW k \in DOMAIN c.frames[1]
                   PROVE  /\ Len(f.st.path) - Len(h[k]) >= 1 - 1
                          /\ \A j \in 1 .. Len(h[k]) : h[k][j] = f.st.path[j]
      BY <1>2, <1>3 DEF Scoped
    <2> DEFINE lp == Len(f.st.path)  lh == Len(h[k])  n == Len(f.ca.frames)
    <2>3. lp - lh >= n - 1 /\ \A j \in 1 .. Len(h[k]) : h[k][j] = f.st.path[j]
      <3>1. Scoped(f.st.path, f.ca.frames, h)
        BY <1>1 DEF Good
      <3> HIDE DEF f
      <3>2. QED BY <1>2, <2>2, <3>1 DEF Scoped
    <2>4. lp \in Nat /\ lh \in Nat /\ n \in Nat \ {0}
      <3>1. h[k] \in Seq(Node) /\ f.st.path \in Seq(Node)
        BY <1>1, <1>2, <2>1, <2>2 DEF Home, Good, StateType
      <3>2. QED BY <2>1, <3>1, LenProperties
    <2> HIDE DEF lp, lh, n
    <2>5. lp - lh >= 1 - 1
      BY <2>3, <2>4
    <2>6. QED BY <2>3, <2>5 DEF lp, lh
  <1>5. Good([f EXCEPT !.ca = c, !.b = <<>>], h)
    <2>1. <<>> \in Seq(Instruction)
      OBVIOUS
    <2> HIDE DEF f, c
    <2>2. QED BY <1>1, <1>2, <1>4, <2>1 DEF Good
  <1>6. QED BY <1>5 DEF RunCroak

\* refresh: writeable flags do not include WAIT.
LEMMA RefreshedType ==
  ASSUME NEW s \in StateType, NEW r \in Result, ~r.fail
  PROVE  /\ Refreshed(s, r) \in StateType
         /\ Refreshed(s, r).path = s.path
         /\ Refreshed(s, r).code = s.code
         /\ Refreshed(s, r).flags \cap {"WAIT", "READIN", "DIRTY", "LOADFAIL", "INMATCH"}
              = s.flags \cap {"WAIT", "READIN", "DIRTY", "LOADFAIL", "INMATCH"}
         /\ r.content \in Value
  <1>1. r.content \in Value /\ r.set \in SUBSET Flag /\ r.reset \in SUBSET Flag
    BY DEF Result
  <1>2. s.flags \in SUBSET Flag
    BY DEF StateType
  <1> DEFINE g == (s.flags \ (r.reset \cap Writeable)) \cup (r.set \cap Writeable)
             t == [s EXCEPT !.flags = g]
             kept == {"WAIT", "READIN", "DIRTY", "LOADFAIL", "INMATCH"}
  <1>3. g \in SUBSET Flag /\ g \cap kept = s.flags \cap kept
    <2>1. Writeable \cap kept = {}
      BY StateAssumption DEF Writeable, BaseFlag
    <2> HIDE DEF kept
    <2>2. QED BY <1>1, <1>2, <2>1
  <1> HIDE DEF kept
  <1>4. t \in StateType /\ t.path = s.path /\ t.code = s.code /\ t.flags = g
    <2> HIDE DEF g
    <2>1. QED BY <1>3, FlagsOnly
  <1>5. Refreshed(s, r) = IF "LANG" \in t.flags THEN SetLanguage(t, r.content) ELSE t
    BY DEF Refreshed
  <1> HIDE DEF t, g
  <1>6. /\ SetLanguage(t, r.content) \in StateType
        /\ SetLanguage(t, r.content).path = t.path
        /\ SetLanguage(t, r.content).code = t.code
        /\ SetLanguage(t, r.content).flags = t.flags
    BY <1>4 DEF SetLanguage, StateType
  <1>7. QED BY <1>1, <1>3, <1>4, <1>5, <1>6 DEF kept

\* refresh, of a machine state.
LEMMA RefreshedGood ==
  ASSUME NEW h \in Home, NEW o, Good(o, h), NEW r \in Result, ~r.fail
  PROVE  /\ Refreshed(o.st, r) \in StateType
         /\ Refreshed(o.st, r).path = o.st.path
         /\ Refreshed(o.st, r).code = <<>>
         /\ "WAIT" \notin Refreshed(o.st, r).flags
         /\ r.content \in Value
  BY RefreshedType DEF Good

\* A failing external function only sets LOADFAIL.
LEMMA RefreshFailsGood ==
  ASSUME NEW h \in Home, NEW o, Good(o, h), NEW r
  PROVE  Good(RefreshFails(o, r), h)
  <1> DEFINE s == IF r.found THEN SetFlag(o.st, "LOADFAIL") ELSE o.st
             o1 == [o EXCEPT !.st = s]
  <1>1. "LOADFAIL" \in Flag
    BY DEF Flag, BaseFlag
  <1>2. Good(o1, h)
    <2>1. r.found => Good(o1, h)
      BY <1>1, FlagGood
    <2>2. ~r.found => Good(o1, h)
      BY PartsGood DEF Good
    <2>3. QED BY <2>1, <2>2
  <1>3. RefreshFails(o, r) = [o1 EXCEPT !.err = "fail"]
    BY DEF RefreshFails, Good
  <1>4. "fail" \in Outcome
    BY DEF Outcome
  <1> HIDE DEF o1
  <1>5. QED BY <1>2, <1>3, <1>4, PartsGood

\* A symbol that is added where it is loaded is in scope.
LEMMA AddScope ==
  ASSUME NEW h \in Home, NEW p \in Seq(Node), NEW c, CacheShape(c),
         NEW k \in Key, NEW v \in Value, NEW lim,
         Scoped(p, c.frames, h), h[k] = p
  PROVE  CacheShape(Add(c, k, v, lim)) /\ Scoped(p, Add(c, k, v, lim).frames, h)
  <1>1. /\ CacheShape(Add(c, k, v, lim))
        /\ Len(Add(c, k, v, lim).frames) = Len(c.frames)
        /\ \A i \in DOMAIN c.frames :
             DOMAIN Add(c, k, v, lim).frames[i] =
               IF AddOutcome(c, k, v, lim) = "ok" /\ i = Len(c.frames)
               THEN DOMAIN c.frames[i] \cup {k} ELSE DOMAIN c.frames[i]
        /\ AddOutcome(c, k, v, lim) = "ok" => FrameOf(c, k) = 0
    BY ONLY CacheShape(c), k \in Key, v \in Value, AddFrames
  <1> DEFINE n == Len(c.frames)
             fs == Add(c, k, v, lim).frames
  <1>2. DOMAIN fs = DOMAIN c.frames /\ n \in Nat
    BY <1>1, Numbered
  <1>3. Len(p) \in Nat
    BY LenProperties
  <1>4. \A i \in DOMAIN c.frames :
          DOMAIN fs[i] \subseteq DOMAIN c.frames[i] \cup (IF i = n THEN {k} ELSE {})
    BY <1>1
  <1> HIDE DEF fs, n
  <1>5. SUFFICES ASSUME NEW j \in DOMAIN fs, NEW x \in DOMAIN fs[j]
                 PROVE  /\ Len(p) - Len(h[x]) >= n - j
                        /\ \A q \in 1 .. Len(h[x]) : h[x][q] = p[q]
    BY <1>1 DEF Scoped, fs, n
  <1>6. CASE x \in DOMAIN c.frames[j]
    BY <1>2, <1>6 DEF Scoped, n
  <1>7. CASE x \notin DOMAIN c.frames[j]
    <2>1. x = k /\ j = n
      BY <1>2, <1>5, <1>7, <1>4
    <2>2. QED BY <1>2, <1>3, <2>1
  <1>8. QED BY <1>6, <1>7

\* LOAD: a symbol that is added was loaded where execution is now.
LEMMA LoadGood ==
  ASSUME NEW h \in Home, NEW o, Good(o, h), NEW i, i.sym \in Key, NEW r \in Result,
         FrameOf(o.ca, i.sym) = 0 => h[i.sym] = o.st.path
  PROVE  Good(RunLoad(o, i, r), h)
  <1> DEFINE lim == i.size % U16
             c == Add(o.ca, i.sym, r.content, lim)
             s == Refreshed(o.st, r)
             e == IF AddOutcome(o.ca, i.sym, r.content, lim) \in {"ok", "dup"}
                  THEN "ok" ELSE "fail"
  <1>1. CASE FrameOf(o.ca, i.sym) # 0
    BY <1>1 DEF RunLoad
  <1>2. CASE FrameOf(o.ca, i.sym) = 0 /\ r.fail
    BY <1>2, RefreshFailsGood DEF RunLoad
  <1>3. CASE FrameOf(o.ca, i.sym) = 0 /\ ~r.fail
    <2>1. /\ s \in StateType /\ s.path = o.st.path /\ s.code = <<>>
          /\ "WAIT" \notin s.flags /\ r.content \in Value
      BY <1>3, RefreshedGood
    <2>2. RunLoad(o, i, r) = [o EXCEPT !.st = s, !.ca = c, !.err = e]
      BY <1>3 DEF RunLoad
    <2>3. e \in Outcome
      BY DEF Outcome
    <2> HIDE DEF s, e, lim
    <2>4. /\ CacheShape(o.ca) /\ o.st.path \in Seq(Node)
          /\ Scoped(o.st.path, o.ca.frames, h) /\ h[i.sym] = o.st.path
      BY <1>3 DEF Good, StateType
    <2>5. CacheShape(c) /\ Scoped(o.st.path, c.frames, h)
      BY <2>1, <2>4, AddScope
    <2> HIDE DEF c
    <2>6. QED BY <2>1, <2>2, <2>3, <2>5 DEF Good
  <1>4. QED BY <1>1, <1>2, <1>3

\* MAP: what is mapped is read from the cache.
LEMMA MapGood ==
  ASSUME NEW h \in Home, NEW o, Good(o, h), NEW k
  PROVE  Good(MapSym(o, k), h)
  <1>1. Good(Fails(o, "fail"), h)
    BY PartsGood DEF Fails, Outcome
  <1>2. CASE FrameOf(o.ca, k) # 0
    <2> DEFINE mapped == Put(o.pg.mapped, k, Get(o.ca, k))
               sink == IF o.ca.sizes[k] = 0 THEN k ELSE o.pg.sink
               p == [o.pg EXCEPT !.mapped = mapped, !.sink = sink]
    <2>1. k \in Key /\ Get(o.ca, k) \in Value
      BY <1>2, GetIsValue DEF Good
    <2>2. o.pg.mapped \in Frame /\ o.pg \in Page /\ o.pg.sink \in Key \cup {None}
      BY DEF Good, Page
    <2>3. mapped \in Frame /\ sink \in Key \cup {None}
      BY <2>1, <2>2, PutInFrame
    <2> HIDE DEF mapped, sink
    <2>4. p \in Page
      BY <2>2, <2>3 DEF Page
    <2>5. Good([o EXCEPT !.pg = p], h)
      BY <2>4, PartsGood
    <2>6. \/ MapSym(o, k) = Fails(o, "fail")
          \/ MapSym(o, k) = [o EXCEPT !.pg = p]
      BY DEF MapSym, mapped, sink, Good
    <2>7. QED BY <1>1, <2>5, <2>6
  <1>3. CASE FrameOf(o.ca, k) = 0
    BY <1>1, <1>3 DEF MapSym
  <1>4. QED BY <1>2, <1>3

\* RELOAD: no symbol moves.
LEMMA ReloadGood ==
  ASSUME NEW h \in Home, NEW o, Good(o, h), NEW i, NEW r \in Result
  PROVE  Good(RunReload(o, i, r), h)
  <1> DEFINE c == Update(o.ca, i.sym, r.content)
             s == Refreshed(o.st, r)
             o1 == [o EXCEPT !.st = s, !.ca = c]
  <1>1. CASE r.fail
    BY <1>1, RefreshFailsGood DEF RunReload
  <1>2. CASE ~r.fail
    <2>1. /\ s \in StateType /\ s.path = o.st.path /\ s.code = <<>>
          /\ "WAIT" \notin s.flags /\ r.content \in Value
      BY <1>2, RefreshedGood
    <2>2. /\ CacheShape(c) /\ Len(c.frames) = Len(o.ca.frames)
          /\ \A j \in DOMAIN o.ca.frames : DOMAIN c.frames[j] = DOMAIN o.ca.frames[j]
      BY <2>1, UpdateFrames DEF Good
    <2>3. DOMAIN c.frames = DOMAIN o.ca.frames
      BY <2>2, Numbered DEF Good
    <2> HIDE DEF c, s
    <2>4. Scoped(s.path, c.frames, h)
      <3>1. Scoped(o.st.path, o.ca.frames, h)
        BY DEF Good
      <3>2. Scoped(o.st.path, c.frames, h)
        BY <2>2, <2>3, <3>1, ScopeOfSymbols
      <3>3. QED BY <2>1, <3>2
    <2>5. Good(o1, h)
      BY <2>1, <2>2, <2>4 DEF Good
    <2>6. RunReload(o, i, r) = MapSym(o1, i.sym)
      BY <1>2 DEF RunReload, s, c
    <2> HIDE DEF o1
    <2>7. QED BY <2>5, <2>6, MapGood
  <1>3. QED BY <1>1, <1>2

\* INCMP.
LEMMA InCmpGood ==
  ASSUME NEW h \in Home, NEW o, Good(o, h), NEW i, i.node \in Target, NEW up
  PROVE  Good(RunInCmp(o, i, up), h)
  <1> DEFINE s == IF Have(o) THEN o ELSE [o EXCEPT !.st = SetFlag(o.st, "READIN")]
             f == (s.st.flags \cup {"INMATCH"}) \ {"READIN"}
             t == [s EXCEPT !.st = [s.st EXCEPT !.flags = f]]
             m == ApplyTarget(t, i.node)
  <1>1. {"READIN", "INMATCH"} \subseteq Flag
    BY DEF Flag, BaseFlag
  <1>2. Good(s, h)
    BY <1>1, FlagGood
  <1> HIDE DEF s
  <1>3. s.st \in StateType /\ s.st.flags \in SUBSET Flag /\ s.st.code = <<>>
        /\ "WAIT" \notin s.st.flags
    BY <1>2 DEF Good, StateType
  <1>4. f \in SUBSET Flag /\ "WAIT" \notin f
    BY <1>1, <1>3
  <1> HIDE DEF f
  <1>5. /\ [s.st EXCEPT !.flags = f] \in StateType
        /\ [s.st EXCEPT !.flags = f].path = s.st.path
        /\ [s.st EXCEPT !.flags = f].code = <<>>
        /\ "WAIT" \notin [s.st EXCEPT !.flags = f].flags
    BY <1>3, <1>4, FlagsOnly
  <1>6. Good(t, h)
    BY <1>2, <1>5, PartsGood
  <1> HIDE DEF t
  <1>7. Good(m, h)
    BY <1>6, ApplyTargetGood
  <1>8. Follow(s, i, up) = IF m.err = "index" THEN [Ok(m) EXCEPT !.st = SetFlag(@, "READIN")]
                           ELSE IF m.err # "ok" THEN m
                           ELSE AppendCode(FreshPage(m), up)
    BY DEF Follow, t, f
  <1> HIDE DEF m
  <1>9. Good(Ok(m), h)
    BY <1>7, PartsGood DEF Ok, Outcome
  <1>10. Good([Ok(m) EXCEPT !.st = SetFlag(@, "READIN")], h)
    BY <1>1, <1>9, FlagGood
  <1>11. Good(AppendCode(FreshPage(m), up), h)
    BY <1>7, FreshPageGood, AppendCodeGood
  <1>12. Good(Follow(s, i, up), h)
    BY <1>7, <1>8, <1>10, <1>11
  <1>13. Good(Fails(s, "fail"), h)
    BY <1>2, PartsGood DEF Fails, Outcome
  <1>14. RunInCmp(o, i, up) \in {o, Fails(s, "fail"), Follow(s, i, up), s}
    BY DEF RunInCmp, s
  <1>15. QED BY <1>2, <1>12, <1>13, <1>14

\* MOUT, MNEXT, MPREV and MSINK.
LEMMA MenuGood ==
  ASSUME NEW h \in Home, NEW o, Good(o, h), NEW i,
         i.op \in {"MOUT", "MNEXT", "MPREV", "MSINK"},
         i.op # "MSINK" => i.sel \in Selector
  PROVE  Good(RunMenu(o, i), h)
  <1>1. o.mn \in Menu
    BY DEF Good
  <1>2. /\ i.op = "MOUT" => [o.mn EXCEPT !.items = @ \cup {i.sel}] \in Menu
        /\ i.op = "MNEXT" => [o.mn EXCEPT !.next = i.sel] \in Menu
        /\ i.op = "MPREV" => [o.mn EXCEPT !.prev = i.sel] \in Menu
        /\ [o.mn EXCEPT !.sink = TRUE] \in Menu
    BY <1>1 DEF Menu
  <1>3. CASE i.op = "MOUT"
    BY <1>2, <1>3, PartsGood DEF RunMenu
  <1>4. CASE i.op = "MNEXT"
    BY <1>2, <1>4, PartsGood DEF RunMenu
  <1>5. CASE i.op = "MPREV"
    BY <1>2, <1>5, PartsGood DEF RunMenu
  <1>6. CASE i.op = "MSINK"
    BY <1>2, <1>6, PartsGood DEF RunMenu
  <1>7. QED BY <1>3, <1>4, <1>5, <1>6

-----------------------------------------------------------------------------
(* The loop, and the variables.                                            *)

\* A session that is over does not wait, and the code that is run is not kept.
Flow ==
  /\ run.pc \in {"on", "ret"} => st.code = <<>>
  /\ Terminated => "WAIT" \notin st.flags

IInv ==
  /\ TypeOK
  /\ CacheShape(ca)
  /\ home \in [Cached(ca) -> Seq(Node)]
  /\ Scoped(st.path, ca.frames, home)
  /\ Flow
  /\ YieldReason
  /\ LoadFailCaught

\* The home paths IInv knows, and for every other symbol the current path.
Homes == [k \in Key |-> IF k \in DOMAIN home THEN home[k] ELSE st.path]

\* Cached symbols are symbols, and are in some frame.
LEMMA CachedIsKey ==
  ASSUME NEW c, CacheShape(c)
  PROVE  /\ Cached(c) \subseteq Key
         /\ \A i \in DOMAIN c.frames : DOMAIN c.frames[i] \subseteq Cached(c)
  BY Numbered DEF Cached

\* runErrCheck and runDeadCheck keep the state well formed; a run that ends
\* without error and without code has terminated, and one that fails although
\* LOADFAIL is set has run out of code at _catch, or nowhere.
LEMMA CheckedGood ==
  ASSUME NEW h \in Home, NEW o, Good(o, h)
  PROVE  /\ Good(Checked(o), h)
         /\ Checked(o).err = "ok" /\ Checked(o).b = <<>>
              => "TERMINATE" \in Checked(o).st.flags
         /\ Checked(o).err \in {"fail", "index"} /\ "LOADFAIL" \in Checked(o).st.flags
              => Checked(o).b = <<>> /\ Where(Checked(o).st) \in {NoSym, Catch}
  <1> DEFINE p == [o.pg EXCEPT !.err = TRUE]
             toCatch == <<MOVE(Catch)>>
             shown == [o EXCEPT !.pg = p]
             caught == [[shown EXCEPT !.err = "ok"] EXCEPT !.b = toCatch]
             e == ErrCheck(o)
  <1>1. p \in Page
    BY DEF Good, Page
  <1>2. toCatch \in Seq(Instruction) /\ toCatch # <<>>
    <2>1. MOVE(Catch) \in Instruction
      BY VmAssumption DEF MOVE, Instruction, Target
    <2>2. QED BY <2>1
  <1>3. Good(shown, h)
    BY <1>1, PartsGood
  <1>4. Good(caught, h)
    <2> HIDE DEF shown, toCatch
    <2>1. Good([shown EXCEPT !.err = "ok"], h)
      BY <1>3, PartsGood DEF Outcome
    <2>2. QED BY <1>2, <2>1, PartsGood
  <1>5. e = IF o.err = "ok" THEN o ELSE IF "LOADFAIL" \in o.st.flags THEN caught ELSE shown
    BY DEF ErrCheck, Ok, Good
  <1>6. Good(e, h)
    BY <1>3, <1>4, <1>5
  <1>7. e.err # "ok" => "LOADFAIL" \notin e.st.flags
    BY <1>5 DEF Good
  <1> HIDE DEF e
  <1>8. ASSUME e.err = "ok", e.b = <<>>
        PROVE  /\ Good(DeadCheck(e), h)
               /\ DeadCheck(e).err = "ok" /\ DeadCheck(e).b = <<>>
                    => "TERMINATE" \in DeadCheck(e).st.flags
               /\ DeadCheck(e).err # "ok"
                    => DeadCheck(e).b = <<>> /\ Where(DeadCheck(e).st) \in {NoSym, Catch}
    <2> DEFINE d == DeadCheck(e)
               s == SetFlag(e.st, "TERMINATE")
               pe == [e.pg EXCEPT !.err = TRUE]
               e1 == [e EXCEPT !.pg = pe]
    <2>1. CASE "READIN" \notin e.st.flags
      <3>1. d = [e EXCEPT !.st = s] /\ "TERMINATE" \in Flag
        BY <2>1 DEF DeadCheck, Good, Flag, BaseFlag
      <3>2. Good(d, h)
        BY <1>6, <3>1, FlagGood
      <3>3. d.err = "ok" /\ "TERMINATE" \in d.st.flags
        BY <1>6, <1>8, <3>1 DEF Good, SetFlag, StateType
      <3>4. QED BY <3>2, <3>3
    <2>2. CASE "READIN" \in e.st.flags /\ "TERMINATE" \in e.st.flags
      BY <1>6, <1>8, <2>2 DEF DeadCheck
    <2>3. CASE /\ "READIN" \in e.st.flags /\ "TERMINATE" \notin e.st.flags
               /\ Where(e.st) \in {NoSym, Catch}
      <3>1. d = [e EXCEPT !.err = "fail"]
        BY <2>3 DEF DeadCheck, Fails
      <3> HIDE DEF d
      <3>2. Good(d, h)
        BY <1>6, <3>1, PartsGood DEF Outcome
      <3>3. d.err = "fail" /\ d.b = e.b /\ d.st = e.st
        BY <1>6, <3>1 DEF Good
      <3>4. QED BY <1>8, <2>3, <3>2, <3>3 DEF d
    <2>4. CASE /\ "READIN" \in e.st.flags /\ "TERMINATE" \notin e.st.flags
               /\ Where(e.st) \notin {NoSym, Catch}
      <3>1. d = [e1 EXCEPT !.b = toCatch]
        BY <1>6, <2>4 DEF DeadCheck, Good
      <3>2. pe \in Page
        BY <1>6 DEF Good, Page
      <3>3. Good(e1, h)
        BY <1>6, <3>2, PartsGood
      <3>4. d.err = "ok" /\ d.b # <<>>
        BY <1>2, <1>6, <1>8, <3>1 DEF Good
      <3> HIDE DEF e1, d, toCatch
      <3>5. Good([e1 EXCEPT !.b = toCatch], h)
        BY <1>2, <3>3, PartsGood
      <3>6. QED BY <3>1, <3>4, <3>5 DEF d
    <2>5. QED BY <2>1, <2>2, <2>3, <2>4
  <1>9. Checked(o) = IF o.err = "panic" THEN o
                     ELSE IF e.err = "ok" /\ e.b = <<>> THEN DeadCheck(e) ELSE e
    BY DEF Checked, e
  <1>10. QED BY <1>6, <1>7, <1>8, <1>9

\* An instruction starts from a state that does not wait, with the page and
\* menu of a HALT cleared, on the path and the cache as they are.
LEMMA CurrentGood ==
  ASSUME IInv, run.pc = "on", run.b # <<>>
  PROVE  /\ Homes \in Home
         /\ Good(Current, Homes)
         /\ Current.ca = ca /\ Current.st.path = st.path
         /\ "TERMINATE" \in Current.st.flags <=> Terminated
         /\ Instr \in Instruction
  <1>1. /\ st \in StateType /\ pg \in Page /\ mn \in Menu
        /\ run.b \in Seq(Instruction) /\ run.b # <<>> /\ st.code = <<>>
        /\ st.path \in Seq(Node) /\ st.flags \in SUBSET Flag
    BY DEF IInv, TypeOK, Flow, StateType
  <1>2. Tail(run.b) \in Seq(Instruction) /\ Instr \in Instruction
    BY <1>1, HeadTailProperties DEF Instr
  <1>3. Cached(ca) = DOMAIN home /\ \A k \in DOMAIN home : home[k] \in Seq(Node)
    BY DEF IInv
  <1>4. Homes \in Home
    BY <1>1, <1>3 DEF Homes, Home
  <1>5. Scoped(st.path, ca.frames, Homes)
    <2>1. \A i \in DOMAIN ca.frames : \A k \in DOMAIN ca.frames[i] : Homes[k] = home[k]
      BY <1>3, CachedIsKey DEF IInv, Homes
    <2>2. Scoped(st.path, ca.frames, home)
      BY DEF IInv
    <2>3. QED BY <2>1, <2>2, ScopeOfSymbols
  <1> DEFINE f == (st.flags \ {"LANG"}) \cup {"DIRTY"}
             g == IF "WAIT" \in st.flags THEN f \ {"WAIT", "INMATCH"} ELSE f
             s == [st EXCEPT !.flags = g]
             p == IF "WAIT" \in st.flags THEN PageReset(pg) ELSE pg
             m == IF "WAIT" \in st.flags THEN MenuReset(mn) ELSE mn
  <1>6. g \in SUBSET Flag /\ "WAIT" \notin g /\ ("TERMINATE" \in g <=> "TERMINATE" \in st.flags)
    BY <1>1 DEF Flag, BaseFlag
  <1>7. s \in StateType /\ s.path = st.path /\ s.code = <<>> /\ s.flags = g
    <2> HIDE DEF g
    <2>1. QED BY <1>1, <1>6, FlagsOnly
  <1>8. p \in Page /\ m \in Menu
    BY <1>1, NewMapIsFrame DEF PageReset, MenuReset, Page, Menu
  <1>9. Current = [st |-> s, ca |-> ca, pg |-> p, mn |-> m, b |-> Tail(run.b), err |-> "ok"]
    BY <1>1 DEF Current, LoopHead, Wake, StateType
  <1> HIDE DEF s, p, m
  <1>10. Good(Current, Homes)
    BY <1>2, <1>5, <1>6, <1>7, <1>8, <1>9 DEF Good, IInv, Outcome
  <1>11. QED BY <1>2, <1>4, <1>6, <1>7, <1>9, <1>10 DEF Terminated

\* The home paths after a turn.
LEMMA BecomesIInv ==
  ASSUME IInv, NEW o, NEW pc \in {"on", "ret", "panic"}, Homes \in Home,
         o.st \in StateType, CacheShape(o.ca), o.pg \in Page, o.mn \in Menu,
         o.b \in Seq(Instruction), o.err \in Outcome, o.st.code = <<>>,
         Scoped(o.st.path, o.ca.frames, Homes),
         Becomes(o, pc), hits' \in Nat
  PROVE  /\ TypeOK'
         /\ CacheShape(ca)'
         /\ (home \in [Cached(ca) -> Seq(Node)])'
         /\ Scoped(st.path, ca.frames, home)'
         /\ run' = [pc |-> pc, b |-> o.b, err |-> o.err]
         /\ st' = o.st
  <1>1. /\ st' = o.st /\ ca' = o.ca /\ pg' = o.pg /\ mn' = o.mn
        /\ run' = [pc |-> pc, b |-> o.b, err |-> o.err]
        /\ home' = [k \in Cached(o.ca) |-> IF k \in DOMAIN home THEN home[k] ELSE st.path]
    BY DEF Becomes
  <1>2. /\ Cached(o.ca) \subseteq Key
        /\ \A i \in DOMAIN o.ca.frames : DOMAIN o.ca.frames[i] \subseteq Cached(o.ca)
    BY CachedIsKey
  <1>3. \A k \in Cached(o.ca) : home'[k] = Homes[k] /\ Homes[k] \in Seq(Node)
    BY <1>1, <1>2 DEF Homes, Home
  <1>4. home' \in [Cached(o.ca) -> Seq(Node)]
    BY <1>1, <1>3
  <1>5. Scoped(o.st.path, o.ca.frames, home')
    BY <1>2, <1>3 DEF Scoped
  <1>6. run' \in [pc : {"off", "on", "ret", "panic"}, b : Seq(Instruction), err : Outcome]
    BY <1>1
  <1>7. ca'.frames \in Seq(Frame) \ {<<>>}
    BY <1>1 DEF CacheShape
  <1>8. TypeOK'
    BY <1>1, <1>6, <1>7 DEF TypeOK
  <1>9. QED BY <1>1, <1>4, <1>5, <1>8

\* A turn of the loop that left o before its checks.
LEMMA TurnIInv ==
  ASSUME IInv, NEW o, Homes \in Home, Good(o, Homes), Turn(o), hits' \in Nat
  PROVE  IInv'
  <1> DEFINE c == Checked(o)
             pc == Pc(c)
  <1>1. Becomes(c, pc)
    BY DEF Turn
  <1>2. /\ Good(c, Homes)
        /\ c.err = "ok" /\ c.b = <<>> => "TERMINATE" \in c.st.flags
        /\ c.err \in {"fail", "index"} /\ "LOADFAIL" \in c.st.flags
             => c.b = <<>> /\ Where(c.st) \in {NoSym, Catch}
    BY CheckedGood
  <1> HIDE DEF c
  <1>3. /\ pc \in {"on", "ret", "panic"}
        /\ pc = "ret" /\ c.err = "ok" => c.b = <<>>
    BY DEF Pc
  <1> HIDE DEF pc
  <1>4. /\ c.st \in StateType /\ CacheShape(c.ca) /\ c.pg \in Page /\ c.mn \in Menu
        /\ c.b \in Seq(Instruction) /\ c.err \in Outcome /\ c.st.code = <<>>
        /\ Scoped(c.st.path, c.ca.frames, Homes) /\ "WAIT" \notin c.st.flags
    BY <1>2 DEF Good
  <1>5. /\ TypeOK' /\ CacheShape(ca)'
        /\ (home \in [Cached(ca) -> Seq(Node)])'
        /\ Scoped(st.path, ca.frames, home)'
        /\ run' = [pc |-> pc, b |-> c.b, err |-> c.err]
        /\ st' = c.st
    BY <1>1, <1>3, <1>4, BecomesIInv
  <1>6. Flow'
    BY <1>3, <1>4, <1>5 DEF Flow, Terminated
  <1>7. YieldReason'
    BY <1>2, <1>3, <1>4, <1>5 DEF YieldReason, Terminated
  <1>8. LoadFailCaught'
    BY <1>2, <1>5 DEF LoadFailCaught
  <1>9. QED BY <1>5, <1>6, <1>7, <1>8 DEF IInv

\* What an action of the loop starts from.
LEMMA OnIInv ==
  ASSUME IInv, NEW op, Executing(op)
  PROVE  /\ run.pc = "on" /\ run.b # <<>> /\ ~Terminated /\ Instr.op = op
         /\ hits \in Nat
  BY DEF Executing, IInv, TypeOK

\* The parameters an instruction has.
LEMMA Parameters ==
  ASSUME NEW i \in Instruction
  PROVE  /\ i.op \in {"MOVE", "CATCH", "INCMP"} => i.node \in Target
         /\ i.op \in {"LOAD", "RELOAD", "MAP"} => i.sym \in Key
         /\ i.op \in {"MOUT", "MNEXT", "MPREV"} => i.sel \in Selector
  BY DEF Instruction

\* External functions return results.
LEMMA ResultsAreResults ==
  ASSUME NEW k
  PROVE  Results(k) \subseteq Result
  <1>1. Missing \in [fail : {TRUE}, found : BOOLEAN]
    BY DEF Missing
  <1>2. Missing \in Result
    BY <1>1 DEF Result
  <1>3. k \in DOMAIN Ext => Ext[k] \subseteq Result
    BY VmAssumption
  <1>4. QED BY <1>2, <1>3 DEF Results

\* Every instruction but HALT is a turn that keeps the state well formed.
LEMMA InstructionIInv ==
  ASSUME IInv,
         \/ ExecMove \/ ExecCatch \/ ExecCroak \/ ExecLoad \/ ExecReload
         \/ ExecMap \/ ExecInCmp \/ ExecMenu
  PROVE  IInv'
  <1>1. run.pc = "on" /\ run.b # <<>> /\ hits \in Nat
    BY DEF IInv, TypeOK, Executing, ExecMove, ExecCatch, ExecCroak, ExecLoad,
           ExecReload, ExecMap, ExecInCmp, ExecMenu
  <1>2. /\ Homes \in Home /\ Good(Current, Homes) /\ Current.ca = ca
        /\ Current.st.path = st.path /\ Instr \in Instruction
    BY <1>1, CurrentGood
  <1>3. /\ Instr.op \in {"MOVE", "CATCH", "INCMP"} => Instr.node \in Target
        /\ Instr.op \in {"LOAD", "RELOAD", "MAP"} => Instr.sym \in Key
        /\ Instr.op \in {"MOUT", "MNEXT", "MPREV"} => Instr.sel \in Selector
    BY <1>2, Parameters
  <1>4. ASSUME NEW o, Good(o, Homes), Turn(o), hits' \in Nat PROVE IInv'
    BY <1>2, <1>4, TurnIInv
  <1>5. CASE ExecMove
    <2>1. PICK up \in BOOLEAN : Turn(RunMove(Current, Instr, up))
      BY <1>5 DEF ExecMove
    <2>2. Good(RunMove(Current, Instr, up), Homes)
      BY <1>2, <1>3, <1>5, MoveGood DEF ExecMove, Executing
    <2>3. QED BY <1>1, <1>4, <1>5, <2>1, <2>2 DEF ExecMove
  <1>6. CASE ExecCatch
    <2>1. PICK up \in BOOLEAN : Turn(RunCatch(Current, Instr, up))
      BY <1>6 DEF ExecCatch
    <2>2. Good(RunCatch(Current, Instr, up), Homes)
      BY <1>2, <1>3, <1>6, CatchGood DEF ExecCatch, Executing
    <2>3. QED BY <1>1, <1>4, <1>6, <2>1, <2>2 DEF ExecCatch
  <1>7. CASE ExecCroak
    <2>1. Good(RunCroak(Current, Instr), Homes)
      BY <1>2, CroakGood
    <2>2. QED BY <1>1, <1>4, <1>7, <2>1 DEF ExecCroak
  <1>8. CASE ExecLoad
    <2>1. PICK r \in Results(Instr.sym) : Turn(RunLoad(Current, Instr, r))
      BY <1>8 DEF ExecLoad
    <2>2. r \in Result
      BY ResultsAreResults
    <2>3. Instr.sym \in Key
      BY <1>3, <1>8 DEF ExecLoad, Executing
    <2>4. FrameOf(Current.ca, Instr.sym) = 0 => Homes[Instr.sym] = Current.st.path
      <3>1. FrameOf(ca, Instr.sym) = 0 => Instr.sym \notin Cached(ca)
        BY FrameOfFinds DEF IInv, Cached
      <3>2. Cached(ca) = DOMAIN home
        BY DEF IInv
      <3>3. QED BY <1>2, <2>3, <3>1, <3>2 DEF Homes
    <2>5. Good(RunLoad(Current, Instr, r), Homes)
      BY <1>2, <2>2, <2>3, <2>4, LoadGood
    <2>6. QED BY <1>1, <1>4, <1>8, <2>1, <2>5 DEF ExecLoad
  <1>9. CASE ExecReload
    <2>1. PICK r \in Results(Instr.sym) : Turn(RunReload(Current, Instr, r))
      BY <1>9 DEF ExecReload
    <2>2. r \in Result
      BY ResultsAreResults
    <2>3. Good(RunReload(Current, Instr, r), Homes)
      BY <1>2, <2>2, ReloadGood
    <2>4. QED BY <1>1, <1>4, <1>9, <2>1, <2>3 DEF ExecReload
  <1>10. CASE ExecMap
    <2>1. Good(RunMap(Current, Instr), Homes)
      BY <1>2, MapGood DEF RunMap
    <2>2. QED BY <1>1, <1>4, <1>10, <2>1 DEF ExecMap
  <1>11. CASE ExecInCmp
    <2>1. PICK up \in BOOLEAN : Turn(RunInCmp(Current, Instr, up))
      BY <1>11 DEF ExecInCmp
    <2>2. Good(RunInCmp(Current, Instr, up), Homes)
      BY <1>2, <1>3, <1>11, InCmpGood DEF ExecInCmp, Executing
    <2>3. hits' \in Nat
      BY <1>1, <1>11 DEF ExecInCmp
    <2>4. QED BY <1>4, <2>1, <2>2, <2>3
  <1>12. CASE ExecMenu
    <2>1. Turn(RunMenu(Current, Instr)) /\ Instr.op \in {"MOUT", "MNEXT", "MPREV", "MSINK"}
      BY <1>12 DEF ExecMenu
    <2>2. Good(RunMenu(Current, Instr), Homes)
      BY <1>2, <1>3, <2>1, MenuGood
    <2>3. QED BY <1>1, <1>4, <1>12, <2>1, <2>2 DEF ExecMenu
  <1>13. QED BY <1>5, <1>6, <1>7, <1>8, <1>9, <1>10, <1>11, <1>12

\* HALT waits: nothing after it runs, and the session is not over.
LEMMA HaltIInv ==
  ASSUME IInv, ExecHalt
  PROVE  IInv'
  <1> DEFINE s == SetFlag(Current.st, "WAIT")
             o == [Current EXCEPT !.st = s]
  <1>1. run.pc = "on" /\ run.b # <<>> /\ ~Terminated /\ hits' \in Nat
    BY DEF ExecHalt, Executing, IInv, TypeOK
  <1>2. /\ Homes \in Home /\ Good(Current, Homes)
        /\ "TERMINATE" \notin Current.st.flags
    BY <1>1, CurrentGood
  <1>3. Becomes(o, "ret")
    BY DEF ExecHalt
  <1>4. Current.err = "ok"
    BY DEF Current, LoopHead, Wake
  <1>5. /\ s \in StateType /\ s.path = Current.st.path /\ s.code = <<>>
        /\ "WAIT" \in s.flags /\ "TERMINATE" \notin s.flags
    <2> DEFINE f == Current.st.flags \cup {"WAIT"}
    <2>1. /\ f \in SUBSET Flag /\ "WAIT" \in f /\ "TERMINATE" \notin f
          /\ Current.st \in StateType /\ Current.st.code = <<>>
      BY <1>2 DEF Good, StateType, Flag, BaseFlag
    <2>2. s = [Current.st EXCEPT !.flags = f]
      BY DEF SetFlag
    <2> HIDE DEF f, s
    <2>3. QED BY <2>1, <2>2, FlagsOnly
  <1> HIDE DEF s
  <1>6. /\ o.st = s /\ o.ca = Current.ca /\ o.pg = Current.pg /\ o.mn = Current.mn
        /\ o.b = Current.b /\ o.err = "ok"
    BY <1>2, <1>4 DEF Good
  <1> HIDE DEF o
  <1>7. /\ o.st \in StateType /\ CacheShape(o.ca) /\ o.pg \in Page /\ o.mn \in Menu
        /\ o.b \in Seq(Instruction) /\ o.err \in Outcome /\ o.st.code = <<>>
        /\ Scoped(o.st.path, o.ca.frames, Homes)
    BY <1>2, <1>5, <1>6 DEF Good, Outcome
  <1>8. /\ TypeOK' /\ CacheShape(ca)'
        /\ (home \in [Cached(ca) -> Seq(Node)])'
        /\ Scoped(st.path, ca.frames, home)'
        /\ run' = [pc |-> "ret", b |-> o.b, err |-> o.err]
        /\ st' = o.st
    BY <1>1, <1>2, <1>3, <1>7, BecomesIInv
  <1>9. Flow'
    BY <1>5, <1>6, <1>7, <1>8 DEF Flow, Terminated
  <1>10. YieldReason' /\ LoadFailCaught'
    BY <1>5, <1>6, <1>8 DEF YieldReason, LoadFailCaught, Terminated
  <1>11. QED BY <1>8, <1>9, <1>10 DEF IInv

\* TERMINATE drops the code; what was loaded stays as it is.
LEMMA BailIInv ==
  ASSUME IInv, Bail
  PROVE  IInv'
  <1>1. /\ run.pc = "on" /\ Terminated /\ run' = [pc |-> "ret", b |-> <<>>, err |-> "ok"]
        /\ UNCHANGED <<st, ca, pg, mn, home, hits>>
    BY DEF Bail
  <1>2. TypeOK'
    BY <1>1 DEF IInv, TypeOK, Outcome
  <1>3. Flow' /\ YieldReason' /\ LoadFailCaught'
    BY <1>1 DEF IInv, Flow, YieldReason, LoadFailCaught, Terminated
  <1>4. (/\ CacheShape(ca) /\ home \in [Cached(ca) -> Seq(Node)]
         /\ Scoped(st.path, ca.frames, home))'
    BY <1>1 DEF IInv
  <1>5. QED BY <1>2, <1>3, <1>4 DEF IInv

\* An input starts a run with the code that was kept.
LEMMA ExecIInv ==
  ASSUME IInv, NEW in \in Input, Exec(in)
  PROVE  IInv'
  <1>1. /\ run.pc = "off" /\ st.code # <<>>
        /\ st' = [st EXCEPT !.input = in, !.code = <<>>]
        /\ run' = [pc |-> "on", b |-> st.code, err |-> "ok"]
        /\ hits' = 0
        /\ UNCHANGED <<ca, pg, mn, home>>
    BY DEF Exec
  <1>2. st \in StateType /\ st.code \in Seq(Instruction)
    BY DEF IInv, TypeOK, StateType
  <1>3. /\ st' \in StateType /\ st'.path = st.path /\ st'.code = <<>>
        /\ st'.flags = st.flags
    <2>1. <<>> \in Seq(Instruction) /\ in \in Input \cup {NoInput}
      OBVIOUS
    <2>2. QED BY <1>1, <1>2, <2>1 DEF StateType
  <1>4. TypeOK'
    BY <1>1, <1>2, <1>3 DEF IInv, TypeOK, Outcome
  <1>5. Flow' /\ YieldReason' /\ LoadFailCaught'
    BY <1>1, <1>3 DEF IInv, Flow, YieldReason, LoadFailCaught, Terminated
  <1>6. (/\ CacheShape(ca) /\ home \in [Cached(ca) -> Seq(Node)]
         /\ Scoped(st.path, ca.frames, home))'
    BY <1>1, <1>3 DEF IInv
  <1>7. QED BY <1>4, <1>5, <1>6 DEF IInv

\* Code is kept only of a session that is not over.
LEMMA ReturnIInv ==
  ASSUME IInv, Return
  PROVE  IInv'
  <1>1. /\ run.pc = "ret" /\ run' = Idle
        /\ st' = IF run.err = "ok" /\ ~Terminated THEN [st EXCEPT !.code = run.b] ELSE st
        /\ UNCHANGED <<ca, pg, mn, home, hits>>
    BY DEF Return
  <1>2. st \in StateType /\ run.b \in Seq(Instruction) /\ st.code = <<>>
    BY <1>1 DEF IInv, TypeOK, Flow
  <1>3. /\ st' \in StateType /\ st'.path = st.path /\ st'.flags = st.flags
        /\ st'.code # <<>> => ~Terminated
    BY <1>1, <1>2 DEF StateType
  <1>4. TypeOK'
    BY <1>1, <1>3 DEF IInv, TypeOK, Outcome, Idle
  <1>5. Flow' /\ YieldReason' /\ LoadFailCaught'
    BY <1>1, <1>3 DEF IInv, Flow, YieldReason, LoadFailCaught, Terminated, Idle
  <1>6. (/\ CacheShape(ca) /\ home \in [Cached(ca) -> Seq(Node)]
         /\ Scoped(st.path, ca.frames, home))'
    BY <1>1, <1>3 DEF IInv
  <1>7. QED BY <1>4, <1>5, <1>6 DEF IInv

\* Nothing is loaded at first.
LEMMA InitIInv == Init => IInv
  <1> SUFFICES ASSUME Init PROVE IInv
    OBVIOUS
  <1> DEFINE fs == <<NewMap>>
             code == <<MOVE(Root)>>
  <1>1. code \in Seq(Instruction)
    <2>1. MOVE(Root) \in Instruction
      BY VmAssumption DEF MOVE, Instruction, Target
    <2>2. QED BY <2>1
  <1>2. fs \in Seq(Frame) /\ fs # <<>> /\ Len(fs) = 1 /\ DOMAIN fs = 1 .. 1
        /\ DOMAIN fs[1] = {}
    BY NewMapIsFrame
  <1>3. ca.frames = fs /\ DOMAIN ca = {"frames", "sizes", "use", "last"} /\ ca.last \in Value
    BY CacheAssumption DEF Init, NewCache
  <1> HIDE DEF fs, code
  <1>4. CacheShape(ca)
    BY <1>2, <1>3 DEF CacheShape
  <1>5. Cached(ca) = {}
    BY <1>2, <1>3 DEF Cached
  <1>6. home \in [Cached(ca) -> Seq(Node)]
    BY <1>5 DEF Init
  <1>7. Scoped(st.path, ca.frames, home)
    BY <1>2, <1>3 DEF Scoped
  <1>8. /\ st \in StateType /\ st.flags = {}
    <2>1. st = [path |-> <<>>, idx |-> 0, flags |-> {}, input |-> NoInput,
                lang |-> NoLang, code |-> code]
      BY DEF Init, NewState, code
    <2>2. 0 \in 0 .. (IdxMod - 1) /\ <<>> \in Seq(Node)
      BY StateAssumption
    <2>3. QED BY <1>1, <2>1, <2>2 DEF StateType
  <1>9. pg \in Page /\ mn \in Menu
    BY NewMapIsFrame DEF Init, NewPage, NewMenu, Page, Menu
  <1>10. TypeOK
    BY <1>2, <1>3, <1>8, <1>9 DEF Init, Idle, TypeOK, Outcome
  <1>11. Flow /\ YieldReason /\ LoadFailCaught
    BY <1>8 DEF Init, Idle, Flow, YieldReason, LoadFailCaught, Terminated
  <1>12. QED BY <1>4, <1>6, <1>7, <1>10, <1>11 DEF IInv

\* IInv is inductive.
LEMMA NextIInv == IInv /\ [Next]_vars => IInv'
  <1> SUFFICES ASSUME IInv, [Next]_vars PROVE IInv'
    OBVIOUS
  <1>1. ASSUME NEW in \in Input, Exec(in) PROVE IInv'
    BY <1>1, ExecIInv
  <1>2. CASE ExecHalt
    BY <1>2, HaltIInv
  <1>3. CASE Bail
    BY <1>3, BailIInv
  <1>4. CASE Return
    BY <1>4, ReturnIInv
  <1>5. CASE UNCHANGED vars
    BY <1>5 DEF vars, IInv, TypeOK, Flow, YieldReason, LoadFailCaught, Terminated
  <1>6. QED
    BY <1>1, <1>2, <1>3, <1>4, <1>5, InstructionIInv DEF Next, VmStep

\* vm.Vm: whatever the bytecode, the results and the inputs, state, cache,
\* page and menu stay well formed.
THEOREM WellFormed == Spec => []TypeOK
  <1>1. IInv => TypeOK
    BY DEF IInv
  <1>2. QED BY InitIInv, NextIInv, <1>1, PTL DEF Spec

\* A path is a prefix of another when it agrees with it node by node.
LEMMA PrefixByNode ==
  ASSUME NEW x \in Seq(Node), NEW p \in Seq(Node), Len(x) <= Len(p),
         \A j \in 1 .. Len(x) : x[j] = p[j]
  PROVE  IsPrefix(x, p)
  <1> DEFINE n == Len(x)
             q == SubSeq(x, 1, n)
             r == SubSeq(p, 1, n)
  <1>1. /\ n \in Nat /\ Len(p) \in Nat
        /\ \A j \in 1 .. n : x[j] \in Node /\ p[j] \in Node /\ x[j] = p[j]
    BY LenProperties, ElementOfSeq
  <1>2. 1 \in Int /\ n \in Int
    BY <1>1
  <1> HIDE DEF n
  <1>3. /\ q \in Seq(Node) /\ Len(q) = IF 1 <= n THEN n - 1 + 1 ELSE 0
        /\ \A j \in 1 .. n - 1 + 1 : q[j] = x[1 + j - 1]
    BY <1>1, <1>2, SubSeqProperties
  <1>4. /\ r \in Seq(Node) /\ Len(r) = IF 1 <= n THEN n - 1 + 1 ELSE 0
        /\ \A j \in 1 .. n - 1 + 1 : r[j] = p[1 + j - 1]
    BY <1>1, <1>2, SubSeqProperties
  <1> HIDE DEF q, r
  <1>5. Len(q) = n /\ Len(r) = n /\ \A j \in 1 .. n : q[j] = r[j]
    BY <1>1, <1>3, <1>4
  <1>6. q = r
    BY <1>3, <1>4, <1>5, SeqEqual
  <1>7. QED BY <1>6 DEF IsPrefix, n, q, r

\* What IInv says of depths puts every symbol in scope.
LEMMA InScope == IInv => ScopeHeld
  <1> SUFFICES ASSUME IInv PROVE ScopeHeld
    OBVIOUS
  <1>1. /\ DOMAIN home = Cached(ca) /\ \A k \in DOMAIN home : home[k] \in Seq(Node)
        /\ st.path \in Seq(Node) /\ Scoped(st.path, ca.frames, home)
    BY DEF IInv, TypeOK, StateType
  <1>2. ASSUME NEW k \in DOMAIN home PROVE IsPrefix(home[k], st.path)
    <2>1. PICK i \in DOMAIN ca.frames : k \in DOMAIN ca.frames[i]
      BY <1>1 DEF Cached
    <2> DEFINE x == home[k]  p == st.path  n == Len(ca.frames)
    <2>2. /\ Len(p) - Len(x) >= n - i
          /\ \A j \in 1 .. Len(x) : x[j] = p[j]
      BY <1>1, <2>1 DEF Scoped
    <2>3. x \in Seq(Node) /\ p \in Seq(Node) /\ i \in 1 .. n /\ n \in Nat
      BY <1>1, <1>2, <2>1, Numbered DEF IInv
    <2>4. Len(x) \in Nat /\ Len(p) \in Nat
      BY <2>3, LenProperties
    <2> HIDE DEF x, p, n
    <2>5. Len(x) <= Len(p)
      <3> DEFINE lx == Len(x)  lp == Len(p)
      <3>1. lx \in Nat /\ lp \in Nat /\ lp - lx >= n - i /\ i \in 1 .. n /\ n \in Nat
        BY <2>2, <2>3, <2>4
      <3> HIDE DEF lx, lp
      <3>2. lx <= lp
        BY <3>1
      <3>3. QED BY <3>2 DEF lx, lp
    <2>6. IsPrefix(x, p)
      BY <2>2, <2>3, <2>5, PrefixByNode
    <2>7. QED BY <2>6 DEF x, p
  <1>3. QED BY <1>1, <1>2 DEF ScopeHeld

\* vm.Vm: no symbol is left in the cache once execution has gone up past the
\* node it was loaded at, whichever instructions and targets led there.
THEOREM NothingOutlivesItsNode == Spec => []ScopeHeld
  BY InitIInv, NextIInv, InScope, PTL DEF Spec

\* Run never asks for input in a session that is over, and never returns
\* without error for any other reason than a HALT or the end.
THEOREM YieldsForAReason == Spec => []YieldReason
  <1>1. IInv => YieldReason
    BY DEF IInv
  <1>2. QED BY InitIInv, NextIInv, <1>1, PTL DEF Spec

\* runErrCheck: an error of external code is never returned to the client,
\* except at _catch itself.
THEOREM FailuresAreCaught == Spec => []LoadFailCaught
  <1>1. IInv => LoadFailCaught
    BY DEF IInv
  <1>2. QED BY InitIInv, NextIInv, <1>1, PTL DEF Spec

-----------------------------------------------------------------------------
(* Path, cache and code, opcode by opcode: an instruction other than CROAK *)
(* moves path and cache in step, whether it succeeds or not, and leaves    *)
(* the rest of the code where execution is, or the code of the node it     *)
(* reached.                                                                *)

\* The ways path p and cache c turn into q and d together: nodes are left with
\* their levels, one is entered with a level, or the level on top gains symbols
\* that were nowhere.
Together(p, c, q, d) ==
  \/ /\ q = p /\ Len(d.frames) = Len(c.frames)
     /\ \A i \in DOMAIN c.frames :
          IF i = Len(c.frames)
          THEN /\ DOMAIN c.frames[i] \subseteq DOMAIN d.frames[i]
               /\ DOMAIN d.frames[i] \cap Cached(c) \subseteq DOMAIN c.frames[i]
          ELSE DOMAIN d.frames[i] = DOMAIN c.frames[i]
  \/ \E n \in 1 .. Len(p) : /\ Len(q) = Len(p) - n /\ d = PopN(c, n)
                            /\ \A j \in 1 .. Len(q) : q[j] = p[j]
  \/ /\ Len(q) = Len(p) + 1 /\ d = Push(c)
     /\ \A j \in 1 .. Len(p) : q[j] = p[j]

\* Nothing may change.
LEMMA StaysTogether == \A p, c : Together(p, c, p, c)
  <1> SUFFICES ASSUME NEW p, NEW c PROVE Together(p, c, p, c)
    OBVIOUS
  <1> DEFINE s == /\ Len(c.frames) = Len(c.frames)
                  /\ \A i \in DOMAIN c.frames :
                       IF i = Len(c.frames)
                       THEN /\ DOMAIN c.frames[i] \subseteq DOMAIN c.frames[i]
                            /\ DOMAIN c.frames[i] \cap Cached(c) \subseteq DOMAIN c.frames[i]
                       ELSE DOMAIN c.frames[i] = DOMAIN c.frames[i]
  <1>1. s
    OBVIOUS
  <1>2. QED BY <1>1 DEF Together

\* What an instruction did to path and cache.
Along(o, r) == Together(o.st.path, o.ca, r.st.path, r.ca)

\* applyTarget moves path and cache together.
LEMMA TargetAlong ==
  ASSUME NEW h \in Home, NEW o, Good(o, h), o.err = "ok", NEW t \in Target
  PROVE  /\ Along(o, ApplyTarget(o, t))
         /\ ApplyTarget(o, t).b = o.b
         /\ ApplyTarget(o, t).err = "index" => ApplyTarget(o, t).st.path = o.st.path
  <1>1. /\ DOMAIN o = {"st", "ca", "pg", "mn", "b", "err"} /\ o.st \in StateType
        /\ o.st.path \in Seq(Node) /\ o.err = "ok"
    BY DEF Good, StateType
  <1>2. /\ \A e : Along(o, Fails(o, e)) /\ Fails(o, e).b = o.b
        /\ \A e : Fails(o, e).st = o.st
        /\ Along(o, o)
    BY <1>1, StaysTogether DEF Along, Fails
  <1>3. CASE t = "_"
    <2>1. CASE o.st.path = <<>>
      BY <1>2, <1>3, <2>1 DEF ApplyTarget
    <2>2. CASE o.st.path # <<>>
      <3> DEFINE r == Ascend(o)
      <3>1. r.st = Up(o.st) /\ r.ca = PopN(o.ca, 1) /\ r.b = o.b /\ r.err = "ok"
        BY <1>1 DEF Ascend, Pop
      <3>2. /\ Len(r.st.path) = Len(o.st.path) - 1
            /\ \A j \in 1 .. Len(o.st.path) - 1 : r.st.path[j] = o.st.path[j]
        BY <1>1, <2>2, <3>1, PathSteps
      <3>3. Len(o.st.path) \in Nat \ {0}
        BY <1>1, <2>2, EmptySeq
      <3> HIDE DEF r
      <3>4. 1 \in 1 .. Len(o.st.path)
        BY <3>3
      <3>5. Along(o, r)
        BY <3>1, <3>2, <3>4 DEF Along, Together
      <3>6. ApplyTarget(o, t) = r
        BY <1>3, <2>2 DEF ApplyTarget, r
      <3>7. QED BY <3>1, <3>2, <3>5, <3>6
    <2>3. QED BY <2>1, <2>2
  <1>4. CASE t = ">"
    <2> DEFINE r == [o EXCEPT !.st = NextIdx(o.st)]
    <2>1. r.st.path = o.st.path /\ r.ca = o.ca /\ r.b = o.b /\ r.err = "ok"
      BY <1>1, IndexSteps
    <2>2. Along(o, r)
      BY <2>1, StaysTogether DEF Along
    <2>3. QED BY <1>2, <1>4, <2>1, <2>2 DEF ApplyTarget
  <1>5. CASE t = "<"
    <2> DEFINE r == [o EXCEPT !.st = PreviousIdx(o.st)]
    <2>1. r.st.path = o.st.path /\ r.ca = o.ca /\ r.b = o.b /\ r.err = "ok"
      BY <1>1, IndexSteps
    <2>2. Along(o, r)
      BY <2>1, StaysTogether DEF Along
    <2>3. QED BY <1>2, <1>5, <2>1, <2>2 DEF ApplyTarget
  <1>6. CASE t = "^"
    <2>1. CASE Len(o.st.path) <= 1
      BY <1>2, <1>6, <2>1 DEF ApplyTarget, Rewind
    <2>2. CASE ~(Len(o.st.path) <= 1)
      <3> DEFINE n == Len(o.st.path) - 1
                 r == Rewind(o)
                 q == SubSeq(o.st.path, 1, 1)
      <3>1. /\ Len(o.st.path) \in Nat /\ n \in 1 .. Len(o.st.path)
            /\ 1 = Len(o.st.path) - n /\ o.st.path[1] \in Node
        BY <1>1, <2>2, LenProperties, ElementOfSeq
      <3>2. Len(q) = 1 /\ q[1] = o.st.path[1]
        BY <1>1, <3>1, SubSeqProperties
      <3> HIDE DEF q
      <3>3. r.st.path = q /\ r.ca = PopN(o.ca, n) /\ r.b = o.b /\ r.err = "ok"
        BY <1>1, <2>2 DEF Rewind, q, StateType
      <3> HIDE DEF r, n
      <3>4. /\ Len(r.st.path) = Len(o.st.path) - n
            /\ \A j \in 1 .. Len(r.st.path) : r.st.path[j] = o.st.path[j]
        <4>1. \A j \in 1 .. 1 : j = 1
          OBVIOUS
        <4>2. QED BY <3>1, <3>2, <3>3, <4>1
      <3>7. Along(o, r)
        BY <3>1, <3>3, <3>4 DEF Along, Together
      <3>5. ApplyTarget(o, t) = r
        BY <1>6 DEF ApplyTarget, r
      <3>6. QED BY <3>3, <3>7, <3>5
    <2>3. QED BY <2>1, <2>2
  <1>7. CASE t = "."
    BY <1>2, <1>7 DEF ApplyTarget
  <1>8. CASE t \notin {"_", ">", "<", "^", "."}
    <2> DEFINE r == Descend(o, t)
    <2>1. t \in Node
      BY <1>8 DEF Target
    <2>2. ApplyTarget(o, t) = IF DownPanics(o.st, t) THEN Fails(o, "panic") ELSE r
      BY <1>8 DEF ApplyTarget
    <2>3. r.st = Down(o.st, t) /\ r.ca = Push(o.ca) /\ r.b = o.b /\ r.err = "ok"
      BY <1>1 DEF Descend
    <2>4. /\ Len(r.st.path) = Len(o.st.path) + 1
          /\ \A j \in 1 .. Len(o.st.path) : r.st.path[j] = o.st.path[j]
      BY <1>1, <2>1, <2>3, PathSteps
    <2> HIDE DEF r
    <2>5. Along(o, r)
      BY <2>3, <2>4 DEF Along, Together
    <2>6. QED BY <1>2, <2>2, <2>3, <2>5
  <1>9. QED BY <1>3, <1>4, <1>5, <1>6, <1>7, <1>8

\* The code an instruction left, where it led: the rest where execution is, or
\* the code of the node reached, alone or after the rest, or nothing.
NextCode(o, r) ==
  \/ r.b = o.b /\ r.st.path = o.st.path
  \/ /\ Where(r.st) \in DOMAIN Code
     /\ r.b \in {Code[Where(r.st)], o.b \o Code[Where(r.st)]}
  \/ r.b = <<>>

\* What an instruction other than CROAK does to path, cache and code.
Effect(o, r) == Along(o, r) /\ (r.err = "ok" => NextCode(o, r))

\* What changes neither path nor cache nor code.
LEMMA NoEffect ==
  ASSUME NEW o, NEW r, r.st.path = o.st.path, r.ca = o.ca, r.b = o.b
  PROVE  Effect(o, r)
  <1>1. Along(o, r)
    BY StaysTogether DEF Along
  <1>2. QED BY <1>1 DEF Effect, NextCode

\* A path is what of the state Where reads.
LEMMA AppendCodeEffect ==
  ASSUME NEW h \in Home, NEW o, NEW m, Good(m, h), Along(o, m), m.b = o.b, NEW up
  PROVE  Effect(o, AppendCode(m, up))
  <1>1. DOMAIN m = {"st", "ca", "pg", "mn", "b", "err"}
    BY DEF Good
  <1>2. CASE CodeHere(m, up)
    <2> DEFINE r == AppendCode(m, up)
    <2>1. r.st = m.st /\ r.ca = m.ca /\ r.b = o.b \o Code[Where(m.st)]
      BY <1>1, <1>2 DEF AppendCode
    <2>2. Where(m.st) \in DOMAIN Code
      BY <1>2 DEF CodeHere, HasCode
    <2> HIDE DEF r
    <2>3. QED BY <2>1, <2>2 DEF Effect, Along, NextCode, r
  <1>3. CASE ~CodeHere(m, up)
    <2> DEFINE r == AppendCode(m, up)
    <2>1. r.st = m.st /\ r.ca = m.ca /\ r.err = "fail"
      BY <1>1, <1>3 DEF AppendCode, Fails
    <2> HIDE DEF r
    <2>2. QED BY <2>1 DEF Effect, Along, r
  <1>4. QED BY <1>2, <1>3

\* A new menu and an emptied page are no effect.
LEMMA FreshPageEffect ==
  ASSUME NEW h \in Home, NEW o, NEW m, Good(m, h), Effect(o, m)
  PROVE  Effect(o, FreshPage(m))
  <1> DEFINE r == FreshPage(m)
  <1>1. r.st = m.st /\ r.ca = m.ca /\ r.b = m.b /\ r.err = m.err
    BY DEF FreshPage, Good
  <1> HIDE DEF r
  <1>2. QED BY <1>1 DEF Effect, Along, NextCode, r

\* An error leaves path and cache as they are.
LEMMA FailsEffect ==
  ASSUME NEW h \in Home, NEW o, NEW m, Good(m, h), Along(o, m), NEW e, e # "ok"
  PROVE  Effect(o, Fails(m, e))
  <1> DEFINE r == Fails(m, e)
  <1>1. r.st = m.st /\ r.ca = m.ca /\ r.err = e
    BY DEF Fails, Good
  <1> HIDE DEF r
  <1>2. QED BY <1>1 DEF Effect, Along, r

\* MOVE.
LEMMA MoveEffect ==
  ASSUME NEW h \in Home, NEW o, Good(o, h), o.err = "ok", NEW i, i.node \in Target, NEW up
  PROVE  Effect(o, RunMove(o, i, up))
  <1> DEFINE m == ApplyTarget(o, i.node)
  <1>1. Good(m, h) /\ Along(o, m) /\ m.b = o.b
    BY ApplyTargetGood, TargetAlong
  <1>2. RunMove(o, i, up) = IF m.err # "ok" THEN m
                            ELSE IF CodeHere(m, up) THEN FreshPage(AppendCode(m, up))
                            ELSE Fails(m, "fail")
    BY DEF RunMove
  <1> HIDE DEF m
  <1>3. Effect(o, AppendCode(m, up)) /\ Good(AppendCode(m, up), h)
    BY <1>1, AppendCodeEffect, AppendCodeGood
  <1>4. Effect(o, FreshPage(AppendCode(m, up)))
    BY <1>3, FreshPageEffect
  <1>5. Effect(o, Fails(m, "fail"))
    BY <1>1, FailsEffect
  <1>6. m.err # "ok" => Effect(o, m)
    BY <1>1 DEF Effect
  <1>7. QED BY <1>2, <1>4, <1>5, <1>6

\* CATCH.
LEMMA CatchEffect ==
  ASSUME NEW h \in Home, NEW o, Good(o, h), o.err = "ok", NEW i, i.node \in Target, NEW up
  PROVE  Effect(o, RunCatch(o, i, up))
  <1> DEFINE m == ApplyTarget(o, i.node)
             r == [m EXCEPT !.b = Code[Where(m.st)]]
  <1>1. Good(m, h) /\ Along(o, m) /\ m.b = o.b
    BY ApplyTargetGood, TargetAlong
  <1>2. RunCatch(o, i, up) = IF ~MatchFlag(o.st, i.flag, i.set) THEN o
                             ELSE IF m.err # "ok" THEN m
                             ELSE IF CodeHere(m, up) THEN r
                             ELSE Fails(m, "fail")
    BY DEF RunCatch
  <1> HIDE DEF m
  <1>3. CodeHere(m, up) => Effect(o, r)
    <2>1. r.st = m.st /\ r.ca = m.ca /\ r.b = Code[Where(m.st)]
      BY <1>1 DEF Good
    <2>2. CodeHere(m, up) => Where(m.st) \in DOMAIN Code
      BY DEF CodeHere, HasCode
    <2> HIDE DEF r
    <2>3. QED BY <1>1, <2>1, <2>2 DEF Effect, Along, NextCode
  <1>4. Effect(o, Fails(m, "fail")) /\ Effect(o, o)
    BY <1>1, FailsEffect, NoEffect
  <1>5. m.err # "ok" => Effect(o, m)
    BY <1>1 DEF Effect
  <1> HIDE DEF r
  <1>6. QED BY <1>2, <1>3, <1>4, <1>5

\* A failing external function.
LEMMA RefreshFailsEffect ==
  ASSUME NEW h \in Home, NEW o, Good(o, h), NEW r
  PROVE  Effect(o, RefreshFails(o, r))
  <1> DEFINE s == RefreshFails(o, r)
  <1>1. s.st.path = o.st.path /\ s.ca = o.ca /\ s.b = o.b
    BY DEF RefreshFails, SetFlag, Good, StateType
  <1> HIDE DEF s
  <1>2. QED BY <1>1, NoEffect DEF s

\* The cache gains symbols on top, if any.
LEMMA CacheEffect ==
  ASSUME NEW o, NEW r, CacheShape(o.ca), r.st.path = o.st.path, r.b = o.b,
         Len(r.ca.frames) = Len(o.ca.frames),
         \A i \in DOMAIN o.ca.frames :
           IF i = Len(o.ca.frames)
           THEN /\ DOMAIN o.ca.frames[i] \subseteq DOMAIN r.ca.frames[i]
                /\ DOMAIN r.ca.frames[i] \cap Cached(o.ca) \subseteq DOMAIN o.ca.frames[i]
           ELSE DOMAIN r.ca.frames[i] = DOMAIN o.ca.frames[i]
  PROVE  Effect(o, r)
  BY DEF Effect, Along, Together, NextCode

\* A symbol that was added was not cached.
LEMMA AddedOnTop ==
  ASSUME NEW c, CacheShape(c), NEW k \in Key, NEW v \in Value, NEW lim
  PROVE  /\ Len(Add(c, k, v, lim).frames) = Len(c.frames)
         /\ \A i \in DOMAIN c.frames :
              IF i = Len(c.frames)
              THEN /\ DOMAIN c.frames[i] \subseteq DOMAIN Add(c, k, v, lim).frames[i]
                   /\ DOMAIN Add(c, k, v, lim).frames[i] \cap Cached(c)
                        \subseteq DOMAIN c.frames[i]
              ELSE DOMAIN Add(c, k, v, lim).frames[i] = DOMAIN c.frames[i]
  <1>1. /\ CacheShape(Add(c, k, v, lim))
        /\ Len(Add(c, k, v, lim).frames) = Len(c.frames)
        /\ \A i \in DOMAIN c.frames :
             DOMAIN Add(c, k, v, lim).frames[i] =
               IF AddOutcome(c, k, v, lim) = "ok" /\ i = Len(c.frames)
               THEN DOMAIN c.frames[i] \cup {k} ELSE DOMAIN c.frames[i]
        /\ AddOutcome(c, k, v, lim) = "ok" => FrameOf(c, k) = 0
    BY ONLY CacheShape(c), k \in Key, v \in Value, AddFrames
  <1> DEFINE d == Add(c, k, v, lim)
             ok == AddOutcome(c, k, v, lim) = "ok"
  <1>2. FrameOf(c, k) = 0 => k \notin Cached(c)
    BY FrameOfFinds DEF Cached
  <1>3. /\ Len(d.frames) = Len(c.frames)
        /\ \A i \in DOMAIN c.frames :
             DOMAIN d.frames[i] = IF ok /\ i = Len(c.frames) THEN DOMAIN c.frames[i] \cup {k}
                                  ELSE DOMAIN c.frames[i]
        /\ ok => FrameOf(c, k) = 0
    BY <1>1
  <1> HIDE DEF d, ok
  <1>4. QED BY <1>2, <1>3 DEF d

\* LOAD.
LEMMA LoadEffect ==
  ASSUME NEW h \in Home, NEW o, Good(o, h), NEW i, i.sym \in Key, NEW r \in Result
  PROVE  Effect(o, RunLoad(o, i, r))
  <1> DEFINE lim == i.size % U16
             d == RunLoad(o, i, r)
  <1>1. CASE FrameOf(o.ca, i.sym) # 0
    BY <1>1, NoEffect DEF RunLoad
  <1>2. CASE FrameOf(o.ca, i.sym) = 0 /\ r.fail
    BY <1>2, RefreshFailsEffect DEF RunLoad
  <1>3. CASE FrameOf(o.ca, i.sym) = 0 /\ ~r.fail
    <2>1. /\ d.st = Refreshed(o.st, r) /\ d.b = o.b
          /\ d.ca = Add(o.ca, i.sym, r.content, lim)
      BY <1>3 DEF RunLoad, Good
    <2>2. d.st.path = o.st.path /\ r.content \in Value
      BY <1>3, <2>1, RefreshedGood
    <2> HIDE DEF d, lim
    <2>3. CacheShape(o.ca)
      BY DEF Good
    <2>4. /\ Len(d.ca.frames) = Len(o.ca.frames)
          /\ \A j \in DOMAIN o.ca.frames :
               IF j = Len(o.ca.frames)
               THEN /\ DOMAIN o.ca.frames[j] \subseteq DOMAIN d.ca.frames[j]
                    /\ DOMAIN d.ca.frames[j] \cap Cached(o.ca) \subseteq DOMAIN o.ca.frames[j]
               ELSE DOMAIN d.ca.frames[j] = DOMAIN o.ca.frames[j]
      BY <2>1, <2>2, <2>3, AddedOnTop
    <2>5. QED BY <2>1, <2>2, <2>3, <2>4, CacheEffect DEF d
  <1>4. QED BY <1>1, <1>2, <1>3

\* MAP.
LEMMA MapEffect ==
  ASSUME NEW h \in Home, NEW o, NEW m, Good(m, h), Effect(o, m), m.b = o.b,
         m.st.path = o.st.path, NEW k
  PROVE  Effect(o, MapSym(m, k))
  <1> DEFINE r == MapSym(m, k)
  <1>1. r.st = m.st /\ r.ca = m.ca /\ r.b = m.b
    BY DEF MapSym, Fails, Good
  <1> HIDE DEF r
  <1>2. QED BY <1>1 DEF Effect, Along, NextCode, r

\* RELOAD.
LEMMA ReloadEffect ==
  ASSUME NEW h \in Home, NEW o, Good(o, h), NEW i, NEW r \in Result
  PROVE  Effect(o, RunReload(o, i, r))
  <1> DEFINE c == Update(o.ca, i.sym, r.content)
             s == Refreshed(o.st, r)
             o1 == [o EXCEPT !.st = s, !.ca = c]
  <1>1. CASE r.fail
    BY <1>1, RefreshFailsEffect DEF RunReload
  <1>2. CASE ~r.fail
    <2>1. /\ s \in StateType /\ s.path = o.st.path /\ s.code = <<>>
          /\ "WAIT" \notin s.flags /\ r.content \in Value
      BY <1>2, RefreshedGood
    <2>2. /\ CacheShape(c) /\ Len(c.frames) = Len(o.ca.frames)
          /\ \A j \in DOMAIN o.ca.frames : DOMAIN c.frames[j] = DOMAIN o.ca.frames[j]
      BY <2>1, UpdateFrames DEF Good
    <2>3. DOMAIN c.frames = DOMAIN o.ca.frames
      BY <2>2, Numbered DEF Good
    <2> HIDE DEF c, s
    <2>4. Scoped(s.path, c.frames, h)
      <3>1. Scoped(o.st.path, o.ca.frames, h)
        BY DEF Good
      <3>2. Scoped(o.st.path, c.frames, h)
        BY <2>2, <2>3, <3>1, ScopeOfSymbols
      <3>3. QED BY <2>1, <3>2
    <2>5. Good(o1, h)
      BY <2>1, <2>2, <2>4 DEF Good
    <2>6. RunReload(o, i, r) = MapSym(o1, i.sym)
      BY <1>2 DEF RunReload, s, c
    <2>7. o1.st.path = o.st.path /\ o1.b = o.b /\ o1.ca = c
      BY <2>1 DEF Good
    <2> HIDE DEF o1
    <2>8. CacheShape(o.ca)
      BY DEF Good
    <2>9. Effect(o, o1)
      BY <2>2, <2>7, <2>8, CacheEffect
    <2>10. QED BY <2>5, <2>6, <2>7, <2>9, MapEffect
  <1>3. QED BY <1>1, <1>2

\* INCMP.
LEMMA InCmpEffect ==
  ASSUME NEW h \in Home, NEW o, Good(o, h), o.err = "ok", NEW i, i.node \in Target, NEW up
  PROVE  Effect(o, RunInCmp(o, i, up))
  <1> DEFINE s == IF Have(o) THEN o ELSE [o EXCEPT !.st = SetFlag(o.st, "READIN")]
             f == (s.st.flags \cup {"INMATCH"}) \ {"READIN"}
             t == [s EXCEPT !.st = [s.st EXCEPT !.flags = f]]
             m == ApplyTarget(t, i.node)
  <1>1. {"READIN", "INMATCH"} \subseteq Flag
    BY DEF Flag, BaseFlag
  <1>2. Good(s, h)
    BY <1>1, FlagGood
  <1>3. s.st.path = o.st.path /\ s.ca = o.ca /\ s.b = o.b /\ s.err = "ok"
    BY DEF SetFlag, Good, StateType
  <1> HIDE DEF s
  <1>4. s.st \in StateType /\ s.st.flags \in SUBSET Flag /\ s.st.code = <<>>
        /\ "WAIT" \notin s.st.flags
    BY <1>2 DEF Good, StateType
  <1>5. f \in SUBSET Flag /\ "WAIT" \notin f
    BY <1>1, <1>4
  <1> HIDE DEF f
  <1>6. /\ [s.st EXCEPT !.flags = f] \in StateType
        /\ [s.st EXCEPT !.flags = f].path = s.st.path
        /\ [s.st EXCEPT !.flags = f].code = <<>>
        /\ "WAIT" \notin [s.st EXCEPT !.flags = f].flags
    BY <1>4, <1>5, FlagsOnly
  <1>7. Good(t, h)
    BY <1>2, <1>6, PartsGood
  <1>8. t.st.path = o.st.path /\ t.ca = o.ca /\ t.b = o.b /\ t.err = "ok"
    BY <1>2, <1>3, <1>6 DEF Good
  <1>9. Follow(s, i, up) = IF m.err = "index" THEN [Ok(m) EXCEPT !.st = SetFlag(@, "READIN")]
                           ELSE IF m.err # "ok" THEN m
                           ELSE AppendCode(FreshPage(m), up)
    BY DEF Follow, f
  <1> HIDE DEF t
  <1>10. /\ Good(m, h) /\ Along(t, m) /\ m.b = o.b
         /\ m.err = "index" => m.st.path = o.st.path
    BY <1>7, <1>8, ApplyTargetGood, TargetAlong
  <1>11. Along(o, m)
    BY <1>8, <1>10 DEF Along
  <1> HIDE DEF m
  <1>12. m.err = "index" => Effect(o, [Ok(m) EXCEPT !.st = SetFlag(@, "READIN")])
    <2> DEFINE r == [Ok(m) EXCEPT !.st = SetFlag(@, "READIN")]
    <2>1. r.st.path = m.st.path /\ r.ca = m.ca /\ r.b = m.b
      BY <1>10 DEF Ok, SetFlag, Good, StateType
    <2> HIDE DEF r
    <2>2. m.err = "index" => Effect(o, r)
      BY <1>10, <1>11, <2>1 DEF Effect, Along, NextCode
    <2>3. QED BY <2>2 DEF r
  <1>13. Effect(o, AppendCode(FreshPage(m), up))
    <2> DEFINE q == FreshPage(m)
    <2>1. Good(q, h) /\ q.st = m.st /\ q.ca = m.ca /\ q.b = m.b
      BY <1>10, FreshPageGood DEF FreshPage, Good
    <2> HIDE DEF q
    <2>2. Along(o, q) /\ q.b = o.b
      BY <1>10, <1>11, <2>1 DEF Along
    <2>3. Effect(o, AppendCode(q, up))
      BY <2>1, <2>2, AppendCodeEffect
    <2>4. QED BY <2>3 DEF q
  <1>14. m.err # "ok" => Effect(o, m)
    BY <1>11 DEF Effect
  <1>15. Effect(o, Follow(s, i, up))
    BY <1>9, <1>12, <1>13, <1>14
  <1>16. Effect(o, s) /\ Effect(o, o)
    BY <1>3, NoEffect
  <1>17. Effect(o, Fails(s, "fail"))
    BY <1>2, <1>16, FailsEffect DEF Effect
  <1>18. RunInCmp(o, i, up) \in {o, Fails(s, "fail"), Follow(s, i, up), s}
    BY DEF RunInCmp, s
  <1>19. QED BY <1>15, <1>16, <1>17, <1>18

\* MOUT, MNEXT, MPREV and MSINK.
LEMMA MenuEffect ==
  ASSUME NEW h \in Home, NEW o, Good(o, h), NEW i
  PROVE  Effect(o, RunMenu(o, i))
  <1> DEFINE r == RunMenu(o, i)
  <1>1. r.st = o.st /\ r.ca = o.ca /\ r.b = o.b
    BY DEF RunMenu, Good
  <1> HIDE DEF r
  <1>2. QED BY <1>1, NoEffect DEF r

\* The checks after an instruction: the code stays, or becomes the way to _catch.
LEMMA CheckedKeeps ==
  ASSUME NEW h \in Home, NEW o, Good(o, h)
  PROVE  /\ Checked(o).ca = o.ca /\ Checked(o).st.path = o.st.path
         /\ Checked(o).err = "ok" =>
              \/ Checked(o).b = <<MOVE(Catch)>>
              \/ o.err = "ok" /\ Checked(o).b = o.b
  <1> DEFINE e == ErrCheck(o)
  <1>1. /\ DOMAIN o = {"st", "ca", "pg", "mn", "b", "err"} /\ o.st \in StateType
    BY DEF Good
  <1>2. /\ DOMAIN e = {"st", "ca", "pg", "mn", "b", "err"} /\ e.st = o.st /\ e.ca = o.ca
        /\ e.err = "ok" => e.b = <<MOVE(Catch)>> \/ (o.err = "ok" /\ e.b = o.b)
    BY <1>1 DEF ErrCheck, Ok
  <1> HIDE DEF e
  <1>3. ASSUME e.err = "ok"
        PROVE  /\ DeadCheck(e).ca = e.ca /\ DeadCheck(e).st.path = e.st.path
               /\ DeadCheck(e).err = "ok" =>
                    DeadCheck(e).b = <<MOVE(Catch)>> \/ DeadCheck(e).b = e.b
    <2> DEFINE toCatch == <<MOVE(Catch)>>
    <2>1. e.st \in StateType
      BY <1>1, <1>2
    <2> HIDE DEF toCatch
    <2>2. /\ DeadCheck(e).ca = e.ca /\ DeadCheck(e).st.path = e.st.path
          /\ DeadCheck(e).err = "ok" => DeadCheck(e).b = toCatch \/ DeadCheck(e).b = e.b
      BY <1>2, <1>3, <2>1 DEF DeadCheck, Fails, SetFlag, toCatch, StateType
    <2>3. QED BY <2>2 DEF toCatch
  <1>4. Checked(o) = IF o.err = "panic" THEN o
                     ELSE IF e.err = "ok" /\ e.b = <<>> THEN DeadCheck(e) ELSE e
    BY DEF Checked, e
  <1>5. QED BY <1>2, <1>3, <1>4

\* CROAK leaves no code, and the path as it is, or it does nothing.
LEMMA CroakCode ==
  ASSUME NEW h \in Home, NEW o, Good(o, h), NEW i
  PROVE  NextCode(o, RunCroak(o, i))
  <1> DEFINE r == [FreshPage(o) EXCEPT !.ca = Reset(@), !.b = <<>>]
  <1>1. r.b = <<>>
    BY DEF FreshPage, Good
  <1>2. NextCode(o, o)
    BY DEF NextCode
  <1>3. QED BY <1>1, <1>2 DEF RunCroak, NextCode

\* The code after a step, unless it failed: the way to _catch, nothing, what is left
\* of it at the same node, or the code of the node reached.
CodeStep ==
  run'.err = "ok" =>
    \/ run'.b = <<MOVE(Catch)>> /\ run'.pc = "on"
    \/ run'.b = <<>>
    \/ /\ run'.b = Tail(run.b) /\ st'.path = st.path
       /\ run'.pc = "ret" => Instr.op = "HALT"
    \/ /\ run'.pc = "on" /\ Where(st') \in DOMAIN Code
       /\ run'.b \in {Code[Where(st')], Tail(run.b) \o Code[Where(st')]}

\* What a turn that left o before its checks does.
LEMMA TurnStep ==
  ASSUME IInv, run.pc = "on", run.b # <<>>, NEW o, Good(o, Homes), Turn(o),
         o.err = "ok" => NextCode(Current, o)
  PROVE  /\ st'.path = o.st.path /\ st'.code = <<>> /\ ca' = o.ca
         /\ home' = [k \in Cached(ca') |-> IF k \in DOMAIN home THEN home[k] ELSE st.path]
         /\ CodeStep
         /\ run'.pc = "on" => run'.err = "ok"
         /\ "WAIT" \in st'.flags => "DIRTY" \in st'.flags
  <1> DEFINE c == Checked(o)
             pc == Pc(c)
             toCatch == <<MOVE(Catch)>>
  <1>1. Becomes(c, pc) /\ Homes \in Home /\ Current.b = Tail(run.b) /\ Current.st.path = st.path
    <2>1. Current.b = Tail(run.b)
      BY DEF Current, LoopHead, Wake
    <2>2. QED BY <2>1, CurrentGood DEF Turn
  <1>2. /\ c.ca = o.ca /\ c.st.path = o.st.path /\ c.st.code = <<>>
        /\ "WAIT" \notin c.st.flags
        /\ c.err = "ok" => c.b = toCatch \/ (o.err = "ok" /\ c.b = o.b)
    BY <1>1, CheckedKeeps, CheckedGood DEF Good
  <1>3. toCatch # <<>>
    OBVIOUS
  <1> HIDE DEF c, toCatch
  <1>4. pc = "on" => c.err = "ok"
    BY DEF Pc
  <1>5. c.err = "ok" => pc = IF c.b = <<>> THEN "ret" ELSE "on"
    BY DEF Pc
  <1> HIDE DEF pc
  <1>6. /\ st' = c.st /\ ca' = c.ca /\ run' = [pc |-> pc, b |-> c.b, err |-> c.err]
        /\ home' = [k \in Cached(ca') |-> IF k \in DOMAIN home THEN home[k] ELSE st.path]
    BY <1>1 DEF Becomes
  <1>7. Where(st') = Where(o.st)
    BY <1>2, <1>6 DEF Where
  <1>8. CodeStep
    <2>1. SUFFICES ASSUME c.err = "ok", c.b # <<>>
                   PROVE \/ run'.b = toCatch /\ run'.pc = "on"
                         \/ /\ run'.b = Tail(run.b) /\ st'.path = st.path
                            /\ run'.pc = "ret" => Instr.op = "HALT"
                         \/ /\ run'.pc = "on" /\ Where(st') \in DOMAIN Code
                            /\ run'.b \in {Code[Where(st')], Tail(run.b) \o Code[Where(st')]}
      BY <1>6 DEF CodeStep, toCatch
    <2>2. run'.pc = "on" /\ run'.b = c.b
      BY <1>5, <1>6, <2>1
    <2>3. CASE c.b = toCatch
      BY <2>2, <2>3
    <2>4. CASE o.err = "ok" /\ c.b = o.b
      <3>1. NextCode(Current, o) /\ o.b # <<>>
        BY <2>1, <2>4
      <3>2. \/ o.b = Tail(run.b) /\ o.st.path = st.path
            \/ /\ Where(o.st) \in DOMAIN Code
               /\ o.b \in {Code[Where(o.st)], Tail(run.b) \o Code[Where(o.st)]}
        BY <1>1, <3>1 DEF NextCode
      <3>3. QED BY <1>2, <1>6, <1>7, <2>2, <2>4, <3>2
    <2>5. QED BY <1>2, <2>1, <2>3, <2>4
  <1>9. QED BY <1>2, <1>4, <1>6, <1>8

\* A step of the vm: TERMINATE drops the code and nothing else happens, or an
\* instruction is executed.
LEMMA StepShape ==
  ASSUME IInv, VmStep
  PROVE  /\ run.pc = "on"
         /\ \/ Bail
            \/ /\ ~Terminated /\ run.b # <<>> /\ Instr \in Instruction
               /\ CodeStep /\ st'.code = <<>>
               /\ run'.pc = "on" => run'.err = "ok"
               /\ "WAIT" \in st'.flags => "DIRTY" \in st'.flags
               /\ home' = [k \in Cached(ca') |-> IF k \in DOMAIN home THEN home[k] ELSE st.path]
               /\ Instr.op # "CROAK" => Together(st.path, ca, st'.path, ca')
  <1> DEFINE shape == /\ CodeStep /\ st'.code = <<>>
                      /\ run'.pc = "on" => run'.err = "ok"
                      /\ "WAIT" \in st'.flags => "DIRTY" \in st'.flags
                      /\ home' = [k \in Cached(ca') |->
                                    IF k \in DOMAIN home THEN home[k] ELSE st.path]
                      /\ Instr.op # "CROAK" => Together(st.path, ca, st'.path, ca')
  <1>1. CASE Bail
    BY <1>1 DEF Bail
  <1>2. CASE ~Bail
    <2>1. run.pc = "on" /\ run.b # <<>> /\ ~Terminated
      BY <1>2 DEF VmStep, Executing, ExecMove, ExecCatch, ExecCroak, ExecLoad, ExecReload,
                  ExecMap, ExecInCmp, ExecMenu, ExecHalt
    <2>2. /\ Homes \in Home /\ Good(Current, Homes) /\ Current.ca = ca
          /\ Current.st.path = st.path /\ Instr \in Instruction
      BY <2>1, CurrentGood
    <2>3. Current.err = "ok" /\ Current.b = Tail(run.b)
      BY DEF Current, LoopHead, Wake
    <2>4. /\ Instr.op \in {"MOVE", "CATCH", "INCMP"} => Instr.node \in Target
          /\ Instr.op \in {"LOAD", "RELOAD", "MAP"} => Instr.sym \in Key
          /\ Instr.op \in {"MOUT", "MNEXT", "MPREV"} => Instr.sel \in Selector
      BY <2>2, Parameters
    <2>5. ASSUME NEW o, Good(o, Homes), Turn(o), Effect(Current, o) PROVE shape
      <3>1. /\ st'.path = o.st.path /\ ca' = o.ca /\ CodeStep /\ st'.code = <<>>
            /\ home' = [k \in Cached(ca') |-> IF k \in DOMAIN home THEN home[k] ELSE st.path]
            /\ run'.pc = "on" => run'.err = "ok"
            /\ "WAIT" \in st'.flags => "DIRTY" \in st'.flags
        BY <2>1, <2>5, TurnStep DEF Effect
      <3>2. Together(st.path, ca, st'.path, ca')
        BY <2>2, <2>5, <3>1 DEF Effect, Along
      <3>3. QED BY <3>1, <3>2
    <2> HIDE DEF shape
    <2>6. ASSUME ExecMove PROVE shape
      <3>1. PICK up \in BOOLEAN : Turn(RunMove(Current, Instr, up))
        BY <2>6 DEF ExecMove
      <3>2. Good(RunMove(Current, Instr, up), Homes) /\ Effect(Current, RunMove(Current, Instr, up))
        BY <2>2, <2>3, <2>4, <2>6, MoveGood, MoveEffect DEF ExecMove, Executing
      <3>3. QED BY <2>5, <3>1, <3>2
    <2>7. ASSUME ExecCatch PROVE shape
      <3>1. PICK up \in BOOLEAN : Turn(RunCatch(Current, Instr, up))
        BY <2>7 DEF ExecCatch
      <3>2. /\ Good(RunCatch(Current, Instr, up), Homes)
            /\ Effect(Current, RunCatch(Current, Instr, up))
        BY <2>2, <2>3, <2>4, <2>7, CatchGood, CatchEffect DEF ExecCatch, Executing
      <3>3. QED BY <2>5, <3>1, <3>2
    <2>8. ASSUME ExecCroak PROVE shape
      <3> DEFINE o == RunCroak(Current, Instr)
      <3>1. Good(o, Homes) /\ NextCode(Current, o) /\ Turn(o) /\ Instr.op = "CROAK"
        BY <2>2, <2>8, CroakGood, CroakCode DEF ExecCroak, Executing
      <3> HIDE DEF o
      <3>2. /\ CodeStep /\ st'.code = <<>> /\ (run'.pc = "on" => run'.err = "ok")
            /\ "WAIT" \in st'.flags => "DIRTY" \in st'.flags
            /\ home' = [k \in Cached(ca') |-> IF k \in DOMAIN home THEN home[k] ELSE st.path]
        BY <2>1, <3>1, TurnStep
      <3>3. QED BY <3>1, <3>2 DEF shape
    <2>9. ASSUME ExecLoad PROVE shape
      <3>1. PICK r \in Results(Instr.sym) : Turn(RunLoad(Current, Instr, r))
        BY <2>9 DEF ExecLoad
      <3>2. r \in Result
        BY ResultsAreResults
      <3>3. Instr.sym \in Key
        BY <2>4, <2>9 DEF ExecLoad, Executing
      <3>4. FrameOf(Current.ca, Instr.sym) = 0 => Homes[Instr.sym] = Current.st.path
        <4>1. FrameOf(ca, Instr.sym) = 0 => Instr.sym \notin Cached(ca)
          BY FrameOfFinds DEF IInv, Cached
        <4>2. Cached(ca) = DOMAIN home
          BY DEF IInv
        <4>3. QED BY <2>2, <3>3, <4>1, <4>2 DEF Homes
      <3>5. Good(RunLoad(Current, Instr, r), Homes)
        BY <2>2, <3>2, <3>3, <3>4, LoadGood
      <3>6. Effect(Current, RunLoad(Current, Instr, r))
        BY <2>2, <3>2, <3>3, LoadEffect
      <3>7. QED BY <2>5, <3>1, <3>5, <3>6
    <2>10. ASSUME ExecReload PROVE shape
      <3>1. PICK r \in Results(Instr.sym) : Turn(RunReload(Current, Instr, r))
        BY <2>10 DEF ExecReload
      <3>2. r \in Result
        BY ResultsAreResults
      <3>3. /\ Good(RunReload(Current, Instr, r), Homes)
            /\ Effect(Current, RunReload(Current, Instr, r))
        BY <2>2, <3>2, ReloadGood, ReloadEffect
      <3>4. QED BY <2>5, <3>1, <3>3
    <2>11. ASSUME ExecMap PROVE shape
      <3>1. Effect(Current, Current)
        BY NoEffect
      <3>2. Good(RunMap(Current, Instr), Homes) /\ Effect(Current, RunMap(Current, Instr))
        BY <2>2, <3>1, MapGood, MapEffect DEF RunMap
      <3>3. QED BY <2>5, <2>11, <3>2 DEF ExecMap
    <2>12. ASSUME ExecInCmp PROVE shape
      <3>1. PICK up \in BOOLEAN : Turn(RunInCmp(Current, Instr, up))
        BY <2>12 DEF ExecInCmp
      <3>2. /\ Good(RunInCmp(Current, Instr, up), Homes)
            /\ Effect(Current, RunInCmp(Current, Instr, up))
        BY <2>2, <2>3, <2>4, <2>12, InCmpGood, InCmpEffect DEF ExecInCmp, Executing
      <3>3. QED BY <2>5, <3>1, <3>2
    <2>13. ASSUME ExecMenu PROVE shape
      <3>1. Turn(RunMenu(Current, Instr)) /\ Instr.op \in {"MOUT", "MNEXT", "MPREV", "MSINK"}
        BY <2>13 DEF ExecMenu
      <3>2. Good(RunMenu(Current, Instr), Homes) /\ Effect(Current, RunMenu(Current, Instr))
        BY <2>2, <2>4, <3>1, MenuGood, MenuEffect
      <3>3. QED BY <2>5, <3>1, <3>2
    <2>14. ASSUME ExecHalt PROVE shape
      <3> DEFINE s == SetFlag(Current.st, "WAIT")
                 o == [Current EXCEPT !.st = s]
      <3>1. Becomes(o, "ret") /\ Instr.op = "HALT"
        BY <2>14 DEF ExecHalt, Executing
      <3>2. o.st.path = st.path /\ o.st.code = <<>> /\ o.ca = ca /\ o.b = Tail(run.b)
            /\ "DIRTY" \in o.st.flags
        <4>1. st \in StateType
          BY DEF IInv, TypeOK
        <4>2. "DIRTY" \in Current.st.flags
          BY <4>1 DEF Current, LoopHead, Wake, StateType
        <4>3. QED BY <2>2, <2>3, <4>2 DEF Good, SetFlag, StateType
      <3> HIDE DEF o
      <3>3. /\ st' = o.st /\ ca' = o.ca /\ run' = [pc |-> "ret", b |-> o.b, err |-> o.err]
            /\ home' = [k \in Cached(o.ca) |-> IF k \in DOMAIN home THEN home[k] ELSE st.path]
        BY <3>1 DEF Becomes
      <3>4. Together(st.path, ca, st'.path, ca')
        BY <3>2, <3>3, StaysTogether
      <3>5. CodeStep
        BY <3>1, <3>2, <3>3 DEF CodeStep
      <3>6. QED BY <3>2, <3>3, <3>4, <3>5 DEF shape
    <2>15. shape
      BY <1>2, <2>6, <2>7, <2>8, <2>9, <2>10, <2>11, <2>12, <2>13, <2>14 DEF VmStep
    <2>16. QED BY <2>1, <2>2, <2>15 DEF shape
  <1>3. QED BY <1>1, <1>2

-----------------------------------------------------------------------------
(* Programs without CROAK.                                                 *)

\* Programs without CROAK.
Uncroaked == {i \in Instruction : i.op # "CROAK"}
NoCroak == \A n \in DOMAIN Code : Code[n] \in Seq(Uncroaked)

\* A cache level for every node of the path and one below.
LEMMA DepthKept ==
  ASSUME NEW p \in Seq(Node), NEW q \in Seq(Node), NEW c, CacheShape(c), NEW d,
         Together(p, c, q, d), Len(c.frames) = Len(p) + 1
  PROVE  Len(d.frames) = Len(q) + 1
  <1>1. Len(p) \in Nat /\ Len(c.frames) \in Nat
    BY Numbered, LenProperties
  <1>2. CASE q = p /\ Len(d.frames) = Len(c.frames)
    BY <1>2
  <1>3. ASSUME NEW n \in 1 .. Len(p), Len(q) = Len(p) - n, d = PopN(c, n)
        PROVE  Len(d.frames) = Len(q) + 1
    <2>1. n \in Nat /\ Len(c.frames) > n
      BY <1>1, <1>3
    <2>2. Len(d.frames) = Len(c.frames) - n
      BY <1>3, <2>1, PopNFrames
    <2>3. QED BY <1>1, <1>3, <2>2
  <1>4. CASE Len(q) = Len(p) + 1 /\ d = Push(c)
    <2>1. Len(d.frames) = Len(c.frames) + 1
      BY <1>4, PushFrames
    <2>2. QED BY <1>1, <1>4, <2>1
  <1>5. QED BY <1>2, <1>3, <1>4 DEF Together

\* Every symbol is in the frame of the node it was loaded at.
AtHome(frames, h) ==
  \A i \in DOMAIN frames : \A k \in DOMAIN frames[i] : Len(h[k]) = i - 1

\* Which frames stay, and what is new in the others.
LEMMA FramesOfNodes ==
  ASSUME NEW p \in Seq(Node), NEW q \in Seq(Node), NEW c, CacheShape(c), NEW d, CacheShape(d),
         Together(p, c, q, d), Len(c.frames) = Len(p) + 1
  PROVE  \A i \in DOMAIN d.frames :
           /\ i \in DOMAIN c.frames => DOMAIN c.frames[i] \subseteq DOMAIN d.frames[i]
           /\ \A k \in DOMAIN d.frames[i] :
                \/ i \in DOMAIN c.frames /\ k \in DOMAIN c.frames[i]
                \/ k \notin Cached(c) /\ i = Len(p) + 1
  <1>1. /\ Len(p) \in Nat /\ Len(c.frames) \in Nat \ {0} /\ DOMAIN c.frames = 1 .. Len(c.frames)
        /\ DOMAIN d.frames = 1 .. Len(d.frames) /\ Len(d.frames) \in Nat \ {0}
    BY Numbered, LenProperties
  <1> DEFINE goal == \A i \in DOMAIN d.frames :
                       /\ i \in DOMAIN c.frames => DOMAIN c.frames[i] \subseteq DOMAIN d.frames[i]
                       /\ \A k \in DOMAIN d.frames[i] :
                            \/ i \in DOMAIN c.frames /\ k \in DOMAIN c.frames[i]
                            \/ k \notin Cached(c) /\ i = Len(p) + 1
  <1>2. ASSUME Len(d.frames) = Len(c.frames),
               \A i \in DOMAIN c.frames :
                 IF i = Len(c.frames)
                 THEN /\ DOMAIN c.frames[i] \subseteq DOMAIN d.frames[i]
                      /\ DOMAIN d.frames[i] \cap Cached(c) \subseteq DOMAIN c.frames[i]
                 ELSE DOMAIN d.frames[i] = DOMAIN c.frames[i]
        PROVE  goal
    <2>1. DOMAIN d.frames = DOMAIN c.frames
      BY <1>1, <1>2
    <2>2. QED BY <1>2, <2>1
  <1>3. ASSUME NEW n \in 1 .. Len(p), d = PopN(c, n)
        PROVE  goal
    <2>1. n \in Nat /\ Len(c.frames) > n
      BY <1>1, <1>3
    <2>2. \A i \in DOMAIN d.frames : i \in DOMAIN c.frames /\ d.frames[i] = c.frames[i]
      BY <1>3, <2>1, PopNFrames
    <2>3. QED BY <2>2
  <1>4. ASSUME d = Push(c)
        PROVE  goal
    <2> DEFINE n == Len(c.frames)
    <2>1. /\ Len(d.frames) = n + 1 /\ \A i \in DOMAIN c.frames : d.frames[i] = c.frames[i]
          /\ DOMAIN d.frames[n + 1] = {}
      BY <1>4, PushFrames
    <2>2. \A i \in DOMAIN d.frames : i \in DOMAIN c.frames \/ i = n + 1
      BY <1>1, <2>1
    <2>3. n + 1 \notin DOMAIN c.frames
      BY <1>1
    <2> HIDE DEF n
    <2>4. ASSUME NEW i \in DOMAIN d.frames
          PROVE  /\ i \in DOMAIN c.frames => DOMAIN c.frames[i] \subseteq DOMAIN d.frames[i]
                 /\ \A k \in DOMAIN d.frames[i] : i \in DOMAIN c.frames /\ k \in DOMAIN c.frames[i]
      <3>1. CASE i \in DOMAIN c.frames
        BY <2>1, <3>1
      <3>2. CASE i = n + 1
        BY <2>1, <2>3, <3>2
      <3>3. QED BY <2>2, <3>1, <3>2
    <2>5. QED BY <2>4
  <1> HIDE DEF goal
  <1>5. goal
    BY <1>2, <1>3, <1>4 DEF Together
  <1>6. QED BY <1>5 DEF goal

\* What a program without CROAK keeps.
Deep ==
  /\ Levels(ca) = Len(st.path) + 1
  /\ st.code \in Seq(Uncroaked)
  /\ run.err = "ok" => run.b \in Seq(Uncroaked)
  /\ run.pc = "on" => run.err = "ok"

\* The only instructions there are.
LEMMA UncroakedCode ==
  /\ MOVE(Catch) \in Uncroaked /\ MOVE(Root) \in Uncroaked
  /\ <<MOVE(Catch)>> \in Seq(Uncroaked) /\ <<MOVE(Root)>> \in Seq(Uncroaked)
  /\ <<>> \in Seq(Uncroaked)
  <1>1. MOVE(Catch) \in Uncroaked /\ MOVE(Root) \in Uncroaked
    BY VmAssumption DEF MOVE, Instruction, Target, Uncroaked
  <1>2. QED BY <1>1

\* Code without CROAK leads to code without CROAK.
LEMMA CodeStepUncroaked ==
  ASSUME NoCroak, CodeStep, run.b # <<>>, run.b \in Seq(Uncroaked), run'.err = "ok"
  PROVE  run'.b \in Seq(Uncroaked)
  <1>1. Tail(run.b) \in Seq(Uncroaked)
    BY HeadTailProperties
  <1>2. \A n \in DOMAIN Code : /\ Code[n] \in Seq(Uncroaked)
                               /\ Tail(run.b) \o Code[n] \in Seq(Uncroaked)
    BY <1>1, ConcatProperties DEF NoCroak
  <1>3. QED BY <1>1, <1>2, UncroakedCode DEF CodeStep

\* A step keeps code without CROAK, and with it the depth of the cache.
LEMMA VmStepDeep ==
  ASSUME NoCroak, IInv, IInv', Deep, VmStep
  PROVE  /\ Deep'
         /\ Together(st.path, ca, st'.path, ca')
         /\ home' = [k \in Cached(ca') |-> IF k \in DOMAIN home THEN home[k] ELSE st.path]
  <1>1. /\ st.path \in Seq(Node) /\ st'.path \in Seq(Node) /\ CacheShape(ca) /\ CacheShape(ca')
        /\ DOMAIN home = Cached(ca) /\ home' \in [Cached(ca') -> Seq(Node)]
    BY DEF IInv, TypeOK, StateType
  <1>2. run.pc = "on" /\ run.b \in Seq(Uncroaked) /\ st.code = <<>>
    BY StepShape DEF Deep, IInv, Flow
  <1>3. CASE Bail
    <2>1. run' = [pc |-> "ret", b |-> <<>>, err |-> "ok"] /\ UNCHANGED <<st, ca, home>>
      BY <1>3 DEF Bail
    <2>2. Deep'
      BY <2>1, UncroakedCode DEF Deep, Levels
    <2>3. Together(st.path, ca, st'.path, ca')
      BY <2>1, StaysTogether
    <2>4. home' = [k \in Cached(ca') |-> IF k \in DOMAIN home THEN home[k] ELSE st.path]
      BY <1>1, <2>1
    <2>5. QED BY <2>2, <2>3, <2>4
  <1>4. CASE ~Bail
    <2>1. /\ run.b # <<>> /\ CodeStep /\ st'.code = <<>>
          /\ run'.pc = "on" => run'.err = "ok"
          /\ home' = [k \in Cached(ca') |-> IF k \in DOMAIN home THEN home[k] ELSE st.path]
          /\ Instr.op # "CROAK" => Together(st.path, ca, st'.path, ca')
      BY <1>4, StepShape
    <2>2. Instr.op # "CROAK"
      BY <1>2, <2>1, HeadTailProperties DEF Instr, Uncroaked
    <2>3. Levels(ca)' = Len(st'.path) + 1
      <3>1. Len(ca.frames) = Len(st.path) + 1
        BY DEF Deep, Levels
      <3>2. Len(ca'.frames) = Len(st'.path) + 1
        BY <1>1, <2>1, <2>2, <3>1, DepthKept
      <3>3. QED BY <3>2 DEF Levels
    <2>4. run'.err = "ok" => run'.b \in Seq(Uncroaked)
      BY <1>2, <2>1, CodeStepUncroaked
    <2>5. st'.code \in Seq(Uncroaked)
      BY <2>1, UncroakedCode
    <2>6. QED BY <2>1, <2>2, <2>3, <2>4, <2>5 DEF Deep
  <1>5. QED BY <1>3, <1>4

\* An input and a return move nothing.
LEMMA ClientDeep ==
  ASSUME IInv, Deep, (\E in \in Input : Exec(in)) \/ Return \/ UNCHANGED vars
  PROVE  Deep' /\ UNCHANGED <<st.path, ca, home>>
  <1>1. st \in StateType
    BY DEF IInv, TypeOK
  <1>2. ASSUME NEW in \in Input, Exec(in) PROVE Deep' /\ UNCHANGED <<st.path, ca, home>>
    <2>1. /\ st' = [st EXCEPT !.input = in, !.code = <<>>]
          /\ run' = [pc |-> "on", b |-> st.code, err |-> "ok"]
          /\ UNCHANGED <<ca, home>>
      BY <1>2 DEF Exec
    <2>2. st'.path = st.path /\ st'.code = <<>>
      BY <1>1, <2>1 DEF StateType
    <2>3. QED BY <2>1, <2>2, UncroakedCode DEF Deep, Levels
  <1>3. ASSUME Return PROVE Deep' /\ UNCHANGED <<st.path, ca, home>>
    <2>1. /\ st' = IF run.err = "ok" /\ ~Terminated THEN [st EXCEPT !.code = run.b] ELSE st
          /\ run' = Idle /\ UNCHANGED <<ca, home>>
      BY <1>3 DEF Return
    <2>2. st'.path = st.path /\ st'.code \in Seq(Uncroaked)
      BY <1>1, <2>1 DEF StateType, Deep
    <2>3. QED BY <2>1, <2>2, UncroakedCode DEF Deep, Levels, Idle
  <1>4. ASSUME UNCHANGED vars PROVE Deep' /\ UNCHANGED <<st.path, ca, home>>
    BY <1>4 DEF vars, Deep, Levels
  <1>5. QED BY <1>2, <1>3, <1>4

\* Symbols stay in the frame of their node.
LEMMA StaysAtHome ==
  ASSUME NEW p \in Seq(Node), NEW q \in Seq(Node), NEW c, CacheShape(c), NEW d, CacheShape(d),
         Together(p, c, q, d), Len(c.frames) = Len(p) + 1,
         NEW h, DOMAIN h = Cached(c), AtHome(c.frames, h)
  PROVE  AtHome(d.frames, [k \in Cached(d) |-> IF k \in DOMAIN h THEN h[k] ELSE p])
  <1> DEFINE g == [k \in Cached(d) |-> IF k \in DOMAIN h THEN h[k] ELSE p]
  <1>1. ASSUME NEW i \in DOMAIN d.frames, NEW k \in DOMAIN d.frames[i]
        PROVE  Len(g[k]) = i - 1
    <2>1. k \in Cached(d)
      BY CachedIsKey
    <2>2. CASE i \in DOMAIN c.frames /\ k \in DOMAIN c.frames[i]
      <3>1. k \in DOMAIN h /\ Len(h[k]) = i - 1
        BY <2>2, CachedIsKey DEF AtHome
      <3>2. QED BY <2>1, <3>1
    <2>3. CASE k \notin Cached(c) /\ i = Len(p) + 1
      <3>1. g[k] = p /\ Len(p) \in Nat
        BY <2>1, <2>3, LenProperties
      <3>2. QED BY <2>3, <3>1
    <2>4. QED BY <2>2, <2>3, FramesOfNodes
  <1> HIDE DEF g
  <1>2. AtHome(d.frames, g)
    BY <1>1 DEF AtHome
  <1>3. QED BY <1>2 DEF g

\* A symbol stays cached while there is a frame for its node.
LEMMA StaysCached ==
  ASSUME NEW p \in Seq(Node), NEW q \in Seq(Node), NEW c, CacheShape(c), NEW d, CacheShape(d),
         Together(p, c, q, d), Len(c.frames) = Len(p) + 1,
         NEW h, DOMAIN h = Cached(c), AtHome(c.frames, h),
         NEW k \in Cached(c), Len(h[k]) <= Len(q)
  PROVE  k \in Cached(d)
  <1>1. PICK i \in DOMAIN c.frames : k \in DOMAIN c.frames[i]
    BY DEF Cached
  <1>2. Len(h[k]) = i - 1
    BY <1>1 DEF AtHome
  <1>3. Len(d.frames) = Len(q) + 1
    BY DepthKept
  <1> DEFINE n == Len(d.frames)
             lq == Len(q)
  <1>4. i \in Nat \ {0} /\ DOMAIN d.frames = 1 .. n /\ n = lq + 1 /\ i - 1 <= lq /\ lq \in Nat
    BY <1>1, <1>2, <1>3, Numbered, LenProperties
  <1> HIDE DEF n, lq
  <1>5. i \in DOMAIN d.frames
    BY <1>4
  <1>6. k \in DOMAIN d.frames[i]
    BY <1>1, <1>5, FramesOfNodes
  <1>7. QED BY <1>5, <1>6 DEF Cached

\* The inductive invariant of programs without CROAK.
DInv == IInv /\ Deep /\ AtHome(ca.frames, home)

\* Every step keeps it, and no symbol is lost by it.
LEMMA NextDInv ==
  ASSUME NoCroak, DInv, [Next]_vars
  PROVE  DInv' /\ \A k \in DOMAIN home : IsPrefix(home[k], st'.path) => k \in DOMAIN home'
  <1>1. IInv /\ IInv' /\ Deep
    BY NextIInv DEF DInv
  <1>2. /\ st.path \in Seq(Node) /\ st'.path \in Seq(Node) /\ CacheShape(ca) /\ CacheShape(ca')
        /\ DOMAIN home = Cached(ca) /\ DOMAIN home' = Cached(ca')
        /\ AtHome(ca.frames, home)
    BY <1>1 DEF IInv, TypeOK, StateType, DInv
  <1>3. CASE VmStep
    <2>1. /\ Deep' /\ Together(st.path, ca, st'.path, ca')
          /\ home' = [k \in Cached(ca') |-> IF k \in DOMAIN home THEN home[k] ELSE st.path]
      BY <1>1, <1>3, VmStepDeep
    <2>2. Len(ca.frames) = Len(st.path) + 1
      BY <1>1 DEF Deep, Levels
    <2>4. ASSUME NEW k \in DOMAIN home, IsPrefix(home[k], st'.path)
          PROVE  k \in DOMAIN home'
      <3>1. Len(home[k]) <= Len(st'.path)
        BY <2>4 DEF IsPrefix
      <3>2. QED BY <1>2, <2>1, <2>2, <2>4, <3>1, StaysCached
    <2>5. AtHome(ca'.frames, home')
      BY <1>2, <2>1, <2>2, StaysAtHome
    <2>6. QED BY <1>1, <2>1, <2>4, <2>5 DEF DInv
  <1>4. CASE (\E in \in Input : Exec(in)) \/ Return \/ UNCHANGED vars
    <2>1. Deep' /\ UNCHANGED <<st.path, ca, home>>
      BY <1>1, <1>4, ClientDeep
    <2>2. QED BY <1>1, <1>2, <2>1 DEF DInv
  <1>5. QED BY <1>3, <1>4 DEF Next

\* Nothing is loaded at first, at no node.
LEMMA InitDInv == Init => DInv
  <1> SUFFICES ASSUME Init PROVE DInv
    OBVIOUS
  <1> DEFINE fs == <<NewMap>>
             code == <<MOVE(Root)>>
  <1>1. Len(fs) = 1 /\ DOMAIN fs = {1} /\ DOMAIN fs[1] = {} /\ ca.frames = fs
    BY NewMapIsFrame DEF Init, NewCache
  <1>2. st.path = <<>> /\ st.code = code /\ code \in Seq(Uncroaked) /\ run = Idle
    BY UncroakedCode DEF Init, NewState
  <1> HIDE DEF fs, code
  <1>3. Deep
    BY <1>1, <1>2, UncroakedCode DEF Deep, Levels, Idle
  <1>4. AtHome(ca.frames, home)
    BY <1>1 DEF AtHome
  <1>5. QED BY <1>3, <1>4, InitIInv DEF DInv

\* vm.Vm: no symbol is lost while the node it was loaded at is on the path, in
\* any program without CROAK. (CROAK drops frames and keeps the path; what is
\* loaded after it lies in a lower frame than its node.)
THEOREM NothingIsLostEarly ==
  ASSUME NoCroak
  PROVE  Spec => ScopeKept
  <1> DEFINE kept == \A k \in DOMAIN home :
                       IsPrefix(home[k], st'.path) /\ ~(run.pc = "on" /\ Instr.op = "CROAK")
                         => k \in DOMAIN home'
  <1>1. DInv /\ [Next]_vars => DInv' /\ [kept]_vars
    BY NextDInv
  <1> HIDE DEF kept
  <1>2. Spec => [][kept]_vars
    BY InitDInv, <1>1, PTL DEF Spec
  <1>3. QED BY <1>2 DEF ScopeKept, kept

-----------------------------------------------------------------------------
(* Code that belongs to a node.                                            *)

\* Two sequences that agree from the end, as far as both go.
SameEnd(b, c) ==
  \A j \in Nat \ {0} : j <= Len(b) /\ j <= Len(c) => b[Len(b) - j + 1] = c[Len(c) - j + 1]

\* Suffixes are reversed prefixes.
LEMMA SuffixByEnd ==
  ASSUME NEW S, NEW b \in Seq(S), NEW c \in Seq(S)
  PROVE  IsSuffix(b, c) <=> Len(b) <= Len(c) /\ SameEnd(b, c)
  <1> DEFINE lb == Len(b)  lc == Len(c)
             rb == Reverse(b)  rc == Reverse(c)
  <1>1. /\ lb \in Nat /\ lc \in Nat
        /\ \A i \in 1 .. lb : b[i] \in S
        /\ \A i \in 1 .. lc : c[i] \in S
    BY LenProperties, ElementOfSeq
  <1>2. /\ rb = [i \in 1 .. lb |-> b[(lb - i) + 1]]
        /\ rc = [i \in 1 .. lc |-> c[(lc - i) + 1]]
    BY DEF Reverse
  <1> HIDE DEF lb, lc
  <1>3. /\ \A i \in 1 .. lb : (lb - i) + 1 \in 1 .. lb
        /\ \A i \in 1 .. lc : (lc - i) + 1 \in 1 .. lc
    BY <1>1
  <1>4. /\ rb \in Seq(S) /\ Len(rb) = lb /\ \A i \in 1 .. lb : rb[i] = b[(lb - i) + 1]
        /\ rc \in Seq(S) /\ Len(rc) = lc /\ \A i \in 1 .. lc : rc[i] = c[(lc - i) + 1]
    BY <1>1, <1>2, <1>3
  <1> HIDE DEF rb, rc
  <1>5. IsSuffix(b, c) <=> lb <= lc /\ SubSeq(rb, 1, lb) = SubSeq(rc, 1, lb)
    BY <1>4 DEF IsSuffix, IsPrefix, rb, rc
  <1>6. ASSUME lb <= lc
        PROVE  SubSeq(rb, 1, lb) = SubSeq(rc, 1, lb) <=> SameEnd(b, c)
    <2> DEFINE p == SubSeq(rb, 1, lb)
               q == SubSeq(rc, 1, lb)
    <2>1. \A i \in 1 .. lb : rb[i] \in S /\ rc[i] \in S
      BY <1>1, <1>4, <1>6, ElementOfSeq
    <2>2. 1 \in Int /\ lb \in Int
      BY <1>1
    <2>3. /\ p \in Seq(S) /\ Len(p) = IF 1 <= lb THEN lb - 1 + 1 ELSE 0
          /\ \A i \in 1 .. lb - 1 + 1 : p[i] = rb[1 + i - 1]
      BY <2>1, <2>2, SubSeqProperties
    <2>4. /\ q \in Seq(S) /\ Len(q) = IF 1 <= lb THEN lb - 1 + 1 ELSE 0
          /\ \A i \in 1 .. lb - 1 + 1 : q[i] = rc[1 + i - 1]
      BY <2>1, <2>2, SubSeqProperties
    <2> HIDE DEF p, q
    <2>5. Len(p) = lb /\ Len(q) = lb /\ \A i \in 1 .. lb : p[i] = rb[i] /\ q[i] = rc[i]
      BY <1>1, <2>3, <2>4
    <2>6. p = q <=> \A i \in 1 .. lb : rb[i] = rc[i]
      BY <2>3, <2>4, <2>5, SeqEqual
    <2>7. \A i \in 1 .. lb : i \in 1 .. lc /\ (lb - i) + 1 = lb - i + 1 /\ (lc - i) + 1 = lc - i + 1
      BY <1>1, <1>6
    <2>8. \A i \in 1 .. lb : rb[i] = b[lb - i + 1] /\ rc[i] = c[lc - i + 1]
      BY <1>4, <2>7
    <2>9. SameEnd(b, c) <=> \A i \in 1 .. lb : b[lb - i + 1] = c[lc - i + 1]
      <3>1. \A j : j \in 1 .. lb <=> j \in Nat \ {0} /\ j <= lb /\ j <= lc
        BY <1>1, <1>6
      <3>2. QED BY <3>1 DEF SameEnd, lb, lc
    <2>10. p = q <=> SameEnd(b, c)
      BY <2>6, <2>8, <2>9
    <2>11. QED BY <2>10 DEF p, q
  <1>7. QED BY <1>5, <1>6 DEF lb, lc

\* One of two sequences is a suffix of the other.
Ends(b, c) == IsSuffix(b, c) \/ IsSuffix(c, b)

\* That is so when they agree from the end.
LEMMA EndsBySameEnd ==
  ASSUME NEW S, NEW b \in Seq(S), NEW c \in Seq(S)
  PROVE  Ends(b, c) <=> SameEnd(b, c)
  <1>1. Len(b) \in Nat /\ Len(c) \in Nat
    BY LenProperties
  <1>2. SameEnd(b, c) <=> SameEnd(c, b)
    BY DEF SameEnd
  <1>3. IsSuffix(b, c) <=> Len(b) <= Len(c) /\ SameEnd(b, c)
    BY SuffixByEnd
  <1>4. IsSuffix(c, b) <=> Len(c) <= Len(b) /\ SameEnd(c, b)
    BY SuffixByEnd
  <1>5. QED BY <1>1, <1>2, <1>3, <1>4 DEF Ends

\* Taking the first element away, or putting something in front.
LEMMA EndsOfParts ==
  ASSUME NEW S, NEW b \in Seq(S), NEW c \in Seq(S)
  PROVE  /\ Ends(c, c)
         /\ Ends(b \o c, c)
         /\ b # <<>> /\ Ends(b, c) => Ends(Tail(b), c)
  <1> DEFINE lb == Len(b)  lc == Len(c)
  <1>1. lb \in Nat /\ lc \in Nat
    BY LenProperties
  <1>2. Ends(c, c)
    BY EndsBySameEnd DEF SameEnd
  <1>3. Ends(b \o c, c)
    <2> DEFINE d == b \o c
    <2>1. /\ d \in Seq(S) /\ Len(d) = lb + lc
          /\ \A i \in 1 .. lb + lc : d[i] = IF i <= lb THEN b[i] ELSE c[i - lb]
      BY ConcatProperties
    <2> HIDE DEF d, lb, lc
    <2>2. \A j \in Nat \ {0} : j <= lc =>
            /\ lb + lc - j + 1 \in 1 .. lb + lc /\ ~(lb + lc - j + 1 <= lb)
            /\ (lb + lc - j + 1) - lb = lc - j + 1
      BY <1>1
    <2>3. \A j \in Nat \ {0} : j <= lc => d[lb + lc - j + 1] = c[lc - j + 1]
      BY <2>1, <2>2
    <2>4. SameEnd(d, c)
      <3> DEFINE ld == Len(d)
      <3>1. ld = lb + lc
        BY <2>1
      <3> HIDE DEF ld
      <3>2. \A j \in Nat \ {0} : j <= lc => d[ld - j + 1] = c[lc - j + 1]
        BY <1>1, <2>3, <3>1
      <3>3. QED BY <3>2 DEF SameEnd, lc, ld
    <2>5. QED BY <2>1, <2>4, EndsBySameEnd DEF d
  <1>4. ASSUME b # <<>>, Ends(b, c) PROVE Ends(Tail(b), c)
    <2> DEFINE t == Tail(b)
    <2>1. /\ t \in Seq(S) /\ Len(t) = lb - 1 /\ \A i \in 1 .. lb - 1 : t[i] = b[i + 1]
          /\ lb > 0
      BY <1>4, HeadTailProperties, EmptySeq
    <2>2. SameEnd(b, c)
      BY <1>4, EndsBySameEnd
    <2> HIDE DEF t, lb, lc
    <2>3. \A j \in Nat \ {0} : j <= lb - 1 =>
            /\ (lb - 1) - j + 1 \in 1 .. lb - 1 /\ j <= lb
            /\ ((lb - 1) - j + 1) + 1 = lb - j + 1
      BY <1>1, <2>1
    <2>4. \A j \in Nat \ {0} : j <= lb - 1 => t[(lb - 1) - j + 1] = b[lb - j + 1]
      BY <2>1, <2>3
    <2>5. \A j \in Nat \ {0} : j <= lb /\ j <= lc => b[lb - j + 1] = c[lc - j + 1]
      BY <2>2 DEF SameEnd, lb, lc
    <2>6. \A j \in Nat \ {0} : j <= lb - 1 /\ j <= lc => t[(lb - 1) - j + 1] = c[lc - j + 1]
      BY <2>3, <2>4, <2>5
    <2>7. SameEnd(t, c)
      BY <2>1, <2>6 DEF SameEnd, lc
    <2>8. QED BY <2>1, <2>7, EndsBySameEnd DEF t
  <1>5. QED BY <1>2, <1>3, <1>4

\* Code that ends with the code of the node the session is at, or is the end of it.
EndsAt(b, s) == Where(s) \in DOMAIN Code /\ Ends(b, Code[Where(s)])

Starts == {<<>>, <<MOVE(Root)>>}

\* The code that is run, and what of it is kept.
RunBelongs ==
  /\ run.pc = "on" => run.b \in Starts \cup {<<MOVE(Catch)>>} \/ EndsAt(run.b, st)
  /\ run.pc = "ret" /\ run.err = "ok" => run.b \in Starts \/ EndsAt(run.b, st)

\* Every step keeps it.
LEMMA VmStepBelongs ==
  ASSUME IInv, RunBelongs, VmStep
  PROVE  RunBelongs'
  <1>1. CASE Bail
    BY <1>1 DEF Bail, RunBelongs, Starts
  <1>2. CASE ~Bail
    <2>1. /\ run.pc = "on" /\ run.b # <<>> /\ CodeStep /\ Instr \in Instruction
          /\ run'.pc = "on" => run'.err = "ok"
      BY <1>2, StepShape
    <2>2. run.b \in Seq(Instruction) /\ Tail(run.b) \in Seq(Instruction)
      BY <2>1, HeadTailProperties DEF IInv, TypeOK
    <2>3. SUFFICES ASSUME run'.err = "ok"
                   PROVE  /\ run'.pc = "on" => run'.b \in Starts \cup {<<MOVE(Catch)>>}
                                               \/ EndsAt(run'.b, st')
                          /\ run'.pc = "ret" => run'.b \in Starts \/ EndsAt(run'.b, st')
      BY <2>1 DEF RunBelongs
    <2>4. CASE run'.b = <<MOVE(Catch)>> /\ run'.pc = "on"
      BY <2>4
    <2>5. CASE run'.b = <<>>
      BY <2>5 DEF Starts
    <2>6. CASE /\ run'.b = Tail(run.b) /\ st'.path = st.path
               /\ run'.pc = "ret" => Instr.op = "HALT"
      <3>1. Where(st') = Where(st)
        BY <2>6 DEF Where
      <3>2. CASE EndsAt(run.b, st)
        <4>1. Code[Where(st)] \in Seq(Instruction)
          BY <3>2, VmAssumption DEF EndsAt
        <4>2. Ends(Tail(run.b), Code[Where(st)])
          BY <2>1, <2>2, <3>2, <4>1, EndsOfParts DEF EndsAt
        <4>3. EndsAt(run'.b, st')
          BY <2>6, <3>1, <3>2, <4>2 DEF EndsAt
        <4>4. QED BY <4>3
      <3>3. CASE run.b \in Starts \cup {<<MOVE(Catch)>>}
        <4>1. Len(run.b) = 1
          BY <2>1, <3>3 DEF Starts
        <4>3. Len(Tail(run.b)) = 0
          BY <2>1, <2>2, <4>1, HeadTailProperties
        <4>4. Tail(run.b) = <<>>
          BY <2>2, <4>3, EmptySeq
        <4>5. QED BY <2>6, <4>4 DEF Starts
      <3>4. QED BY <2>1, <3>2, <3>3 DEF RunBelongs
    <2>7. CASE /\ run'.pc = "on" /\ Where(st') \in DOMAIN Code
               /\ run'.b \in {Code[Where(st')], Tail(run.b) \o Code[Where(st')]}
      <3>1. Code[Where(st')] \in Seq(Instruction)
        BY <2>7, VmAssumption
      <3>2. EndsAt(run'.b, st')
        BY <2>2, <2>7, <3>1, EndsOfParts DEF EndsAt
      <3>3. QED BY <2>7, <3>2
    <2>8. QED BY <2>1, <2>3, <2>4, <2>5, <2>6, <2>7 DEF CodeStep
  <1>3. QED BY <1>1, <1>2

-----------------------------------------------------------------------------
(* Sequences of instructions: heads, tails and concatenation.              *)

\* The tail of code is the code but for its first instruction.
LEMMA TailOfCode ==
  ASSUME NEW b \in Seq(Instruction), b # <<>>
  PROVE  /\ Tail(b) \in Seq(Instruction)
         /\ 1 \in DOMAIN b /\ b[1] = Head(b) /\ DOMAIN b \subseteq Nat \ {0}
         /\ \A i \in DOMAIN Tail(b) : i \in Nat \ {0} /\ i + 1 \in DOMAIN b /\ Tail(b)[i] = b[i + 1]
         /\ \A i \in DOMAIN b : i # 1 => i - 1 \in DOMAIN Tail(b) /\ Tail(b)[i - 1] = b[i]
  <1> DEFINE n == Len(b)
             t == Tail(b)
  <1>1. /\ n \in Nat \ {0} /\ DOMAIN b = 1 .. n /\ b[1] = Head(b)
        /\ t \in Seq(Instruction) /\ Len(t) = n - 1
        /\ \A i \in 1 .. Len(t) : t[i] = b[i + 1]
    BY HeadTailProperties, LenProperties, EmptySeq
  <1>2. DOMAIN t = 1 .. Len(t)
    BY <1>1, LenProperties
  <1> HIDE DEF n, t
  <1>3. DOMAIN t = 1 .. (n - 1)
    BY <1>1, <1>2
  <1>4. \A i \in 1 .. (n - 1) : t[i] = b[i + 1]
    BY <1>1
  <1>5. \A i \in 1 .. n : i # 1 => i - 1 \in 1 .. (n - 1) /\ t[i - 1] = b[i]
    <2>1. \A i \in 1 .. n : i # 1 => i - 1 \in 1 .. (n - 1) /\ (i - 1) + 1 = i
      BY <1>1
    <2>2. QED BY <1>4, <2>1
  <1>6. \A i \in 1 .. (n - 1) : i \in Nat \ {0} /\ i + 1 \in 1 .. n
    BY <1>1
  <1>7. /\ t \in Seq(Instruction) /\ 1 \in DOMAIN b /\ b[1] = Head(b)
        /\ DOMAIN b \subseteq Nat \ {0}
    BY <1>1
  <1>8. /\ \A i \in DOMAIN t : i \in Nat \ {0} /\ i + 1 \in DOMAIN b /\ t[i] = b[i + 1]
        /\ \A i \in DOMAIN b : i # 1 => i - 1 \in DOMAIN t /\ t[i - 1] = b[i]
    BY <1>1, <1>3, <1>4, <1>5, <1>6
  <1>9. QED BY <1>7, <1>8 DEF t

\* An instruction of a concatenation is one of its left or of its right part.
LEMMA PartsOfCode ==
  ASSUME NEW b \in Seq(Instruction), NEW c \in Seq(Instruction)
  PROVE  /\ b \o c \in Seq(Instruction) /\ Len(b) \in Nat
         /\ DOMAIN b \subseteq 1 .. Len(b) /\ DOMAIN c \subseteq Nat \ {0}
         /\ \A i \in DOMAIN b : i \in DOMAIN (b \o c) /\ (b \o c)[i] = b[i]
         /\ \A i \in DOMAIN c : Len(b) + i \in DOMAIN (b \o c) /\ (b \o c)[Len(b) + i] = c[i]
         /\ \A i \in DOMAIN (b \o c) :
              i \in Nat /\ (i \in DOMAIN b \/ (i > Len(b) /\ i - Len(b) \in DOMAIN c))
  <1> DEFINE n == Len(b)  m == Len(c)  d == b \o c
  <1>1. /\ n \in Nat /\ m \in Nat /\ DOMAIN b = 1 .. n /\ DOMAIN c = 1 .. m
        /\ d \in Seq(Instruction) /\ Len(d) = n + m
        /\ \A i \in 1 .. (n + m) : d[i] = IF i <= n THEN b[i] ELSE c[i - n]
    BY ConcatProperties, LenProperties
  <1>2. DOMAIN d = 1 .. Len(d)
    BY <1>1, LenProperties
  <1> HIDE DEF n, m, d
  <1>3. DOMAIN d = 1 .. (n + m)
    BY <1>1, <1>2
  <1>4. \A i \in 1 .. n : i \in 1 .. (n + m) /\ i <= n
    BY <1>1
  <1>5. \A i \in 1 .. m : n + i \in 1 .. (n + m) /\ ~(n + i <= n) /\ (n + i) - n = i
    BY <1>1
  <1>6. \A i \in 1 .. n : i \in DOMAIN d /\ d[i] = b[i]
    BY <1>1, <1>3, <1>4
  <1>7. \A i \in 1 .. m : n + i \in DOMAIN d /\ d[n + i] = c[i]
    BY <1>1, <1>3, <1>5
  <1>8. \A i \in DOMAIN d : i \in Nat /\ (i \in 1 .. n \/ (i > n /\ i - n \in 1 .. m))
    BY <1>1, <1>3
  <1>9. QED BY <1>1, <1>6, <1>7, <1>8 DEF n, m, d

-----------------------------------------------------------------------------
(* One move per input.                                                     *)

\* No INCMP for the input before a HALT.
Quiet(b, in) == \A j \in Compares(b) : b[j].sel = in => HaltBetween(b, 0, j)

\* A HALT is where it was, one place further in front.
LEMMA HaltInTail ==
  ASSUME NEW b \in Seq(Instruction), b # <<>>, NEW i \in Nat, NEW j \in Nat
  PROVE  /\ HaltBetween(b, i + 1, j + 1) => HaltBetween(Tail(b), i, j)
         /\ HaltBetween(b, 0, j + 1) /\ Head(b).op # "HALT" => HaltBetween(Tail(b), 0, j)
  <1>1. ASSUME NEW h \in DOMAIN b, i + 1 < h, h < j + 1, b[h].op = "HALT"
        PROVE  HaltBetween(Tail(b), i, j)
    <2>1. h \in Nat /\ h # 1
      BY <1>1, TailOfCode
    <2>2. h - 1 \in DOMAIN Tail(b) /\ Tail(b)[h - 1] = b[h]
      BY <2>1, TailOfCode
    <2>3. i < h - 1 /\ h - 1 < j
      BY <1>1, <2>1
    <2>4. QED BY <1>1, <2>2, <2>3 DEF HaltBetween
  <1>2. ASSUME NEW h \in DOMAIN b, h < j + 1, b[h].op = "HALT", Head(b).op # "HALT"
        PROVE  HaltBetween(Tail(b), 0, j)
    <2>1. h \in Nat \ {0} /\ h # 1
      BY <1>2, TailOfCode
    <2>2. h - 1 \in DOMAIN Tail(b) /\ Tail(b)[h - 1] = b[h]
      BY <2>1, TailOfCode
    <2>3. 0 < h - 1 /\ h - 1 < j
      BY <1>2, <2>1
    <2>4. QED BY <1>2, <2>2, <2>3 DEF HaltBetween
  <1>3. QED BY <1>1, <1>2 DEF HaltBetween

\* What is compared in the tail is compared in the code.
LEMMA TailCompares ==
  ASSUME NEW b \in Seq(Instruction), b # <<>>, NEW j \in Compares(Tail(b))
  PROVE  j \in Nat /\ j + 1 \in Compares(b) /\ Tail(b)[j] = b[j + 1]
  BY TailOfCode DEF Compares

\* ComparesOnce holds of the rest of the code.
LEMMA TailOnce ==
  ASSUME NEW b \in Seq(Instruction), b # <<>>, ComparesOnce(b)
  PROVE  ComparesOnce(Tail(b))
  <1>1. ASSUME NEW i \in Compares(Tail(b)), NEW j \in Compares(Tail(b)), i < j,
               Tail(b)[i].sel \in {Tail(b)[j].sel, Wildcard}
        PROVE  HaltBetween(Tail(b), i, j)
    <2>1. /\ i \in Nat /\ j \in Nat /\ i + 1 \in Compares(b) /\ j + 1 \in Compares(b)
          /\ b[i + 1].sel \in {b[j + 1].sel, Wildcard}
      BY <1>1, TailCompares
    <2>2. i + 1 < j + 1
      BY <1>1, <2>1
    <2>3. HaltBetween(b, i + 1, j + 1)
      BY <2>1, <2>2 DEF ComparesOnce
    <2>4. QED BY <2>1, <2>3, HaltInTail
  <1>2. QED BY <1>1 DEF ComparesOnce

\* A HALT in a part of the code is one in the code.
LEMMA HaltInParts ==
  ASSUME NEW b \in Seq(Instruction), NEW c \in Seq(Instruction), NEW i \in Int, NEW j \in Int
  PROVE  /\ HaltBetween(b, i, j) => HaltBetween(b \o c, i, j)
         /\ HaltBetween(c, i, j) => \A k \in Int : k <= Len(b) + i =>
                                      HaltBetween(b \o c, k, Len(b) + j)
  <1>1. ASSUME NEW h \in DOMAIN b, i < h, h < j, b[h].op = "HALT"
        PROVE  HaltBetween(b \o c, i, j)
    BY <1>1, PartsOfCode DEF HaltBetween
  <1>2. ASSUME NEW h \in DOMAIN c, i < h, h < j, c[h].op = "HALT", NEW k \in Int, k <= Len(b) + i
        PROVE  HaltBetween(b \o c, k, Len(b) + j)
    <2> DEFINE n == Len(b)
    <2>1. h \in Nat /\ n \in Nat /\ n + h \in DOMAIN (b \o c) /\ (b \o c)[n + h] = c[h]
      BY PartsOfCode
    <2> HIDE DEF n
    <2>2. k <= n + i
      BY <1>2 DEF n
    <2>3. k < n + h /\ n + h < n + j
      BY <1>2, <2>1, <2>2
    <2>4. HaltBetween(b \o c, k, n + j)
      BY <1>2, <2>1, <2>3 DEF HaltBetween
    <2>5. QED BY <2>4 DEF n
  <1>3. QED BY <1>1, <1>2 DEF HaltBetween

\* What is compared in code is compared in one of its parts.
LEMMA PartsCompare ==
  ASSUME NEW b \in Seq(Instruction), NEW c \in Seq(Instruction), NEW j \in Compares(b \o c)
  PROVE  /\ j \in Nat /\ Len(b) \in Nat
         /\ \/ j \in Compares(b) /\ (b \o c)[j] = b[j] /\ j <= Len(b)
            \/ j > Len(b) /\ j - Len(b) \in Compares(c) /\ (b \o c)[j] = c[j - Len(b)]
  <1> DEFINE n == Len(b)
             d == b \o c
  <1>1. /\ n \in Nat /\ j \in DOMAIN d /\ d[j].op = "INCMP" /\ DOMAIN b \subseteq 1 .. n
        /\ \A i \in DOMAIN b : d[i] = b[i]
        /\ \A i \in DOMAIN c : d[n + i] = c[i]
        /\ j \in Nat /\ (j \in DOMAIN b \/ (j > n /\ j - n \in DOMAIN c))
    <2>1. j \in DOMAIN d /\ d[j].op = "INCMP"
      BY DEF Compares
    <2>2. QED BY ONLY b \in Seq(Instruction), c \in Seq(Instruction), <2>1, PartsOfCode
  <1> HIDE DEF n, d
  <1>2. CASE j \in DOMAIN b
    BY <1>1, <1>2 DEF Compares, n, d
  <1>3. CASE j > n /\ j - n \in DOMAIN c
    <2>1. n + (j - n) = j
      BY <1>1
    <2>2. d[j] = c[j - n]
      BY <1>1, <1>3, <2>1
    <2>3. QED BY <1>1, <1>3, <2>2 DEF Compares, n, d
  <1>4. QED BY <1>1, <1>2, <1>3

\* Code that asks first may follow any code.
LEMMA ConcatOnce ==
  ASSUME NEW b \in Seq(Instruction), NEW c \in Seq(Instruction),
         ComparesOnce(b), ComparesOnce(c), AsksFirst(c)
  PROVE  ComparesOnce(b \o c)
  <1> DEFINE n == Len(b)
             d == b \o c
  <1>1. ASSUME NEW i \in Compares(d), NEW j \in Compares(d), i < j,
               d[i].sel \in {d[j].sel, Wildcard}
        PROVE  HaltBetween(d, i, j)
    <2>1. /\ i \in Nat /\ j \in Nat /\ n \in Nat
          /\ \/ i \in Compares(b) /\ d[i] = b[i] /\ i <= n
             \/ i > n /\ i - n \in Compares(c) /\ d[i] = c[i - n]
          /\ \/ j \in Compares(b) /\ d[j] = b[j] /\ j <= n
             \/ j > n /\ j - n \in Compares(c) /\ d[j] = c[j - n]
      BY PartsCompare
    <2>2. CASE j \in Compares(b) /\ d[j] = b[j] /\ j <= n
      <3>1. i \in Compares(b) /\ d[i] = b[i]
        <4> HIDE DEF n, d
        <4>1. QED BY <1>1, <2>1, <2>2
      <3>2. HaltBetween(b, i, j)
        <4> HIDE DEF n, d
        <4>1. QED BY <1>1, <2>2, <3>1 DEF ComparesOnce
      <3>3. QED BY <2>1, <3>2, HaltInParts
    <2>3. CASE j > n /\ j - n \in Compares(c) /\ d[j] = c[j - n]
      <3>1. CASE i <= n
        <4>1. HaltBetween(c, 0, j - n)
          BY <2>3 DEF AsksFirst
        <4>2. i <= n + 0 /\ j - n \in Int /\ n + (j - n) = j
          BY <2>1, <3>1
        <4>3. HaltBetween(d, i, n + (j - n))
          BY <2>1, <4>1, <4>2, HaltInParts
        <4>4. QED BY <4>2, <4>3
      <3>2. CASE i > n
        <4> HIDE DEF n, d
        <4>1. i - n \in Compares(c) /\ d[i] = c[i - n] /\ i - n \in Int
          BY <2>1, <3>2
        <4>2. i - n < j - n /\ j - n \in Int /\ n + (j - n) = j /\ i <= n + (i - n)
          BY <1>1, <2>1
        <4>3. HaltBetween(c, i - n, j - n)
          BY <1>1, <2>3, <4>1, <4>2 DEF ComparesOnce
        <4>4. HaltBetween(d, i, n + (j - n))
          BY <2>1, <4>1, <4>2, <4>3, HaltInParts DEF n, d
        <4>5. QED BY <4>2, <4>4
      <3>3. QED BY <2>1, <3>1, <3>2
    <2>4. QED BY <2>1, <2>2, <2>3
  <1>2. QED BY <1>1 DEF ComparesOnce

\* What is quiet stays quiet when the instruction at its head is done.
LEMMA TailQuiet ==
  ASSUME NEW b \in Seq(Instruction), b # <<>>, NEW in
  PROVE  /\ Quiet(b, in) /\ Head(b).op # "HALT" => Quiet(Tail(b), in)
         /\ /\ ComparesOnce(b) /\ Head(b).op = "INCMP" /\ Head(b).sel \in {in, Wildcard}
            => Quiet(Tail(b), in)
  <1>1. ASSUME NEW j \in Compares(Tail(b)), Tail(b)[j].sel = in
        PROVE  /\ Quiet(b, in) /\ Head(b).op # "HALT" => HaltBetween(Tail(b), 0, j)
               /\ /\ ComparesOnce(b) /\ Head(b).op = "INCMP" /\ Head(b).sel \in {in, Wildcard}
                  => HaltBetween(Tail(b), 0, j)
    <2>1. j \in Nat /\ j + 1 \in Compares(b) /\ b[j + 1].sel = in
      BY <1>1, TailCompares
    <2>2. CASE Quiet(b, in) /\ Head(b).op # "HALT"
      <3>1. HaltBetween(b, 0, j + 1)
        BY <2>1, <2>2 DEF Quiet
      <3>2. QED BY <2>1, <2>2, <3>1, HaltInTail
    <2>3. CASE /\ ComparesOnce(b) /\ Head(b).op = "INCMP" /\ Head(b).sel \in {in, Wildcard}
      <3>1. 1 \in Compares(b) /\ b[1].sel \in {in, Wildcard}
        BY <2>3, TailOfCode DEF Compares
      <3>2. 1 < j + 1
        <4>1. j # 0
          BY TailOfCode DEF Compares
        <4>2. QED BY <2>1, <4>1
      <3>3. HaltBetween(b, 0 + 1, j + 1)
        BY <2>1, <2>3, <3>1, <3>2 DEF ComparesOnce
      <3>4. QED BY <2>1, <3>3, HaltInTail
    <2>4. QED BY <2>2, <2>3
  <1>2. QED BY <1>1 DEF Quiet

\* Code that asks first is quiet, also behind other code that is.
LEMMA ConcatQuiet ==
  ASSUME NEW b \in Seq(Instruction), NEW c \in Seq(Instruction), AsksFirst(c), NEW in
  PROVE  /\ Quiet(c, in)
         /\ Quiet(b, in) => Quiet(b \o c, in)
  <1>1. Quiet(c, in)
    BY DEF AsksFirst, Quiet
  <1>2. ASSUME Quiet(b, in), NEW j \in Compares(b \o c), (b \o c)[j].sel = in
        PROVE  HaltBetween(b \o c, 0, j)
    <2> DEFINE n == Len(b)
               d == b \o c
    <2>1. /\ j \in Nat /\ n \in Nat
          /\ \/ j \in Compares(b) /\ d[j] = b[j] /\ j <= n
             \/ j > n /\ j - n \in Compares(c) /\ d[j] = c[j - n]
      BY PartsCompare
    <2>2. CASE j \in Compares(b) /\ d[j] = b[j]
      <3>1. HaltBetween(b, 0, j)
        BY <1>2, <2>2 DEF Quiet
      <3>2. 0 \in Int /\ j \in Int
        BY <2>1
      <3> HIDE DEF n, d
      <3>3. QED BY <3>1, <3>2, HaltInParts
    <2>3. CASE j > n /\ j - n \in Compares(c)
      <3>1. HaltBetween(c, 0, j - n)
        BY <2>3 DEF AsksFirst
      <3>2. 0 <= n + 0 /\ j - n \in Int /\ n + (j - n) = j
        BY <2>1
      <3>3. HaltBetween(d, 0, n + (j - n))
        BY <2>1, <3>1, <3>2, HaltInParts
      <3>4. QED BY <3>2, <3>3
    <2>4. QED BY <2>1, <2>2, <2>3
  <1>3. QED BY <1>1, <1>2 DEF Quiet

\* What no instruction changes: the input, and that a selector has matched it.
Steady(o, r) ==
  /\ r.st.input = o.st.input
  /\ Have(o) => Have(r)

\* applyTarget moves, and leaves input and flags alone.
LEMMA TargetSteady ==
  ASSUME NEW h \in Home, NEW o, Good(o, h), NEW t \in Target
  PROVE  /\ ApplyTarget(o, t).st.input = o.st.input
         /\ ApplyTarget(o, t).st.flags = o.st.flags
  <1>1. DOMAIN o = {"st", "ca", "pg", "mn", "b", "err"} /\ o.st \in StateType
    BY DEF Good
  <1>2. \A e : Fails(o, e).st = o.st
    BY <1>1 DEF Fails
  <1>3. CASE t = "_"
    <2>1. Ascend(o).st = Up(o.st)
      BY <1>1 DEF Ascend
    <2>2. Up(o.st).input = o.st.input /\ Up(o.st).flags = o.st.flags
      BY <1>1 DEF Up, StateType
    <2>3. QED BY <1>2, <1>3, <2>1, <2>2 DEF ApplyTarget
  <1>4. CASE t = ">"
    <2>1. NextIdx(o.st).input = o.st.input /\ NextIdx(o.st).flags = o.st.flags
      BY <1>1 DEF NextIdx, StateType
    <2>2. QED BY <1>1, <1>2, <1>4, <2>1 DEF ApplyTarget
  <1>5. CASE t = "<"
    <2>1. PreviousIdx(o.st).input = o.st.input /\ PreviousIdx(o.st).flags = o.st.flags
      BY <1>1 DEF PreviousIdx, StateType
    <2>2. QED BY <1>1, <1>2, <1>5, <2>1 DEF ApplyTarget
  <1>6. CASE t = "^"
    <2>1. Rewind(o).st.input = o.st.input /\ Rewind(o).st.flags = o.st.flags
      BY <1>1 DEF Rewind, StateType
    <2>2. QED BY <1>6, <2>1 DEF ApplyTarget
  <1>7. CASE t = "."
    BY <1>7 DEF ApplyTarget
  <1>8. CASE t \notin {"_", ">", "<", "^", "."}
    <2>1. Descend(o, t).st = Down(o.st, t)
      BY <1>1 DEF Descend
    <2>2. Down(o.st, t).input = o.st.input /\ Down(o.st, t).flags = o.st.flags
      BY <1>1 DEF Down, StateType
    <2>3. ApplyTarget(o, t) = IF DownPanics(o.st, t) THEN Fails(o, "panic") ELSE Descend(o, t)
      BY <1>8 DEF ApplyTarget
    <2>4. QED BY <1>2, <2>1, <2>2, <2>3
  <1>9. QED BY <1>3, <1>4, <1>5, <1>6, <1>7, <1>8

\* An error, a new page and code that follows leave the state alone.
LEMMA StateStays ==
  ASSUME NEW o, DOMAIN o = {"st", "ca", "pg", "mn", "b", "err"}
  PROVE  /\ \A e : Fails(o, e).st = o.st /\ DOMAIN Fails(o, e) = DOMAIN o
         /\ FreshPage(o).st = o.st /\ DOMAIN FreshPage(o) = DOMAIN o
         /\ \A up : AppendCode(o, up).st = o.st
  BY DEF Fails, FreshPage, AppendCode

\* MOVE and CATCH.
LEMMA MovesSteady ==
  ASSUME NEW h \in Home, NEW o, Good(o, h), NEW i, i.node \in Target, NEW up
  PROVE  Steady(o, RunMove(o, i, up)) /\ Steady(o, RunCatch(o, i, up))
  <1> DEFINE m == ApplyTarget(o, i.node)
             a == AppendCode(m, up)
             r == [m EXCEPT !.b = Code[Where(m.st)]]
  <1>1. m.st.input = o.st.input /\ m.st.flags = o.st.flags /\ Good(m, h)
    BY TargetSteady, ApplyTargetGood
  <1>2. RunMove(o, i, up) = IF m.err # "ok" THEN m
                            ELSE IF CodeHere(m, up) THEN FreshPage(a)
                            ELSE Fails(m, "fail")
    BY DEF RunMove
  <1>3. RunCatch(o, i, up) = IF ~MatchFlag(o.st, i.flag, i.set) THEN o
                             ELSE IF m.err # "ok" THEN m
                             ELSE IF CodeHere(m, up) THEN r
                             ELSE Fails(m, "fail")
    BY DEF RunCatch
  <1> HIDE DEF m
  <1>4. DOMAIN m = {"st", "ca", "pg", "mn", "b", "err"}
    BY <1>1 DEF Good
  <1>5. DOMAIN a = DOMAIN m
    BY <1>1, <1>4, AppendCodeGood DEF Good
  <1>6. a.st = m.st /\ Fails(m, "fail").st = m.st /\ r.st = m.st
    BY <1>4, StateStays
  <1>7. FreshPage(a).st = m.st
    BY <1>4, <1>5, <1>6, StateStays
  <1> HIDE DEF a, r
  <1>8. \A x : x.st = m.st => Steady(o, x)
    BY <1>1 DEF Steady, Have
  <1>9. Steady(o, o)
    BY DEF Steady
  <1>10. Steady(o, RunMove(o, i, up))
    BY <1>2, <1>6, <1>7, <1>8
  <1>11. Steady(o, RunCatch(o, i, up))
    BY <1>3, <1>6, <1>8, <1>9
  <1>12. QED BY <1>10, <1>11

\* CROAK, the menu instructions and a failing function.
LEMMA OthersSteady ==
  ASSUME NEW h \in Home, NEW o, Good(o, h), NEW i, NEW r
  PROVE  Steady(o, RunCroak(o, i)) /\ Steady(o, RunMenu(o, i)) /\ Steady(o, RefreshFails(o, r))
  <1>1. DOMAIN o = {"st", "ca", "pg", "mn", "b", "err"} /\ o.st \in StateType
    BY DEF Good
  <1>2. RunCroak(o, i).st = o.st
    BY <1>1 DEF RunCroak, FreshPage
  <1>3. RunMenu(o, i).st = o.st
    BY <1>1 DEF RunMenu
  <1>4. /\ RefreshFails(o, r).st.input = o.st.input
        /\ o.st.flags \subseteq RefreshFails(o, r).st.flags
    BY <1>1 DEF RefreshFails, SetFlag, StateType
  <1>5. QED BY <1>2, <1>3, <1>4 DEF Steady, Have

\* refresh touches no flag but those external code may write, and never the input.
LEMMA RefreshedSteady ==
  ASSUME NEW s \in StateType, NEW r \in Result, ~r.fail
  PROVE  /\ Refreshed(s, r).input = s.input
         /\ "INMATCH" \in s.flags => "INMATCH" \in Refreshed(s, r).flags
  <1> DEFINE g == (s.flags \ (r.reset \cap Writeable)) \cup (r.set \cap Writeable)
             t == [s EXCEPT !.flags = g]
  <1>1. t.input = s.input
    BY DEF StateType
  <1>2. Refreshed(s, r) = IF "LANG" \in t.flags THEN SetLanguage(t, r.content) ELSE t
    BY DEF Refreshed
  <1>3. SetLanguage(t, r.content).input = t.input
    BY DEF SetLanguage, StateType
  <1> HIDE DEF t
  <1>4. Refreshed(s, r).input = s.input
    BY <1>1, <1>2, <1>3
  <1>5. QED BY <1>4, RefreshedType

\* MAP reads.
LEMMA MapState ==
  ASSUME NEW o, DOMAIN o = {"st", "ca", "pg", "mn", "b", "err"}, NEW k
  PROVE  MapSym(o, k).st = o.st
  BY DEF MapSym, Fails

\* LOAD and RELOAD.
LEMMA LoadsSteady ==
  ASSUME NEW h \in Home, NEW o, Good(o, h), NEW i, NEW r \in Result
  PROVE  Steady(o, RunLoad(o, i, r)) /\ Steady(o, RunReload(o, i, r))
  <1>1. DOMAIN o = {"st", "ca", "pg", "mn", "b", "err"} /\ o.st \in StateType
    BY DEF Good
  <1>2. Steady(o, o) /\ Steady(o, RefreshFails(o, r))
    BY OthersSteady DEF Steady
  <1>3. CASE r.fail
    BY <1>2, <1>3 DEF RunLoad, RunReload
  <1>4. CASE ~r.fail
    <2> DEFINE s == Refreshed(o.st, r)
               c == Update(o.ca, i.sym, r.content)
               u == [o EXCEPT !.st = s, !.ca = c]
    <2>1. /\ s.input = o.st.input
          /\ "INMATCH" \in o.st.flags => "INMATCH" \in s.flags
      BY <1>1, <1>4, RefreshedSteady
    <2>2. RunReload(o, i, r) = MapSym(u, i.sym)
      BY <1>4 DEF RunReload
    <2>3. FrameOf(o.ca, i.sym) = 0 => RunLoad(o, i, r).st = s
      BY <1>1, <1>4 DEF RunLoad
    <2>4. FrameOf(o.ca, i.sym) # 0 => RunLoad(o, i, r) = o
      BY DEF RunLoad
    <2> HIDE DEF s, c
    <2>5. DOMAIN u = DOMAIN o /\ u.st = s
      BY <1>1
    <2> HIDE DEF u
    <2>6. MapSym(u, i.sym).st = s
      BY <1>1, <2>5, MapState
    <2>7. QED BY <1>2, <2>1, <2>2, <2>3, <2>4, <2>6 DEF Steady, Have
  <1>5. QED BY <1>3, <1>4

\* INCMP leaves the input alone, and what it takes is marked as matched.
LEMMA InCmpSteady ==
  ASSUME NEW h \in Home, NEW o, Good(o, h), NEW i, i.node \in Target, NEW up
  PROVE  /\ Steady(o, RunInCmp(o, i, up))
         /\ Taken(o, i) => Have(RunInCmp(o, i, up))
  <1> DEFINE s == IF Have(o) THEN o ELSE [o EXCEPT !.st = SetFlag(o.st, "READIN")]
             f == (s.st.flags \cup {"INMATCH"}) \ {"READIN"}
             t == [s EXCEPT !.st = [s.st EXCEPT !.flags = f]]
             m == ApplyTarget(t, i.node)
  <1>1. {"READIN", "INMATCH"} \subseteq Flag
    BY DEF Flag, BaseFlag
  <1>2. Good(s, h)
    BY <1>1, FlagGood
  <1>3. s.st.input = o.st.input /\ o.st.flags \subseteq s.st.flags
    BY DEF SetFlag, Good, StateType
  <1> HIDE DEF s
  <1>4. s.st \in StateType /\ s.st.flags \in SUBSET Flag /\ s.st.code = <<>>
        /\ "WAIT" \notin s.st.flags
    BY <1>2 DEF Good, StateType
  <1>5. f \in SUBSET Flag /\ "WAIT" \notin f /\ "INMATCH" \in f
    BY <1>1, <1>4
  <1> HIDE DEF f
  <1>6. /\ [s.st EXCEPT !.flags = f] \in StateType
        /\ [s.st EXCEPT !.flags = f].path = s.st.path
        /\ [s.st EXCEPT !.flags = f].code = <<>>
        /\ [s.st EXCEPT !.flags = f].flags = f
        /\ "WAIT" \notin [s.st EXCEPT !.flags = f].flags
        /\ [s.st EXCEPT !.flags = f].input = s.st.input
    BY <1>4, <1>5, FlagsOnly DEF StateType
  <1>7. Good(t, h)
    BY <1>2, <1>6, PartsGood
  <1>8. t.st.input = o.st.input /\ t.st.flags = f
    BY <1>2, <1>3, <1>6 DEF Good
  <1>9. Follow(s, i, up) = IF m.err = "index" THEN [Ok(m) EXCEPT !.st = SetFlag(@, "READIN")]
                           ELSE IF m.err # "ok" THEN m
                           ELSE AppendCode(FreshPage(m), up)
    BY DEF Follow, f
  <1> HIDE DEF t
  <1>10. Good(m, h) /\ m.st.input = o.st.input /\ "INMATCH" \in m.st.flags
    BY <1>5, <1>7, <1>8, ApplyTargetGood, TargetSteady
  <1> HIDE DEF m
  <1> DEFINE x == [Ok(m) EXCEPT !.st = SetFlag(@, "READIN")]
             y == AppendCode(FreshPage(m), up)
  <1>11. x.st.input = o.st.input /\ "INMATCH" \in x.st.flags
    BY <1>10 DEF Ok, SetFlag, Good, StateType
  <1>12. y.st = m.st
    <2>1. DOMAIN m = {"st", "ca", "pg", "mn", "b", "err"}
      BY <1>10 DEF Good
    <2>2. DOMAIN FreshPage(m) = DOMAIN m /\ FreshPage(m).st = m.st
      BY <2>1, StateStays
    <2>3. QED BY <2>1, <2>2, StateStays
  <1> HIDE DEF x, y
  <1>13. Follow(s, i, up).st.input = o.st.input /\ "INMATCH" \in Follow(s, i, up).st.flags
    BY <1>9, <1>10, <1>11, <1>12 DEF x, y
  <1>14. Fails(s, "fail").st = s.st
    BY <1>2, StateStays DEF Good
  <1>15. RunInCmp(o, i, up) = IF Ignored(o) THEN o
                              ELSE IF o.st.input = NoInput THEN Fails(s, "fail")
                              ELSE IF Taken(o, i) THEN Follow(s, i, up)
                              ELSE s
    BY DEF RunInCmp, s
  <1>16. Taken(o, i) => ~Ignored(o) /\ o.st.input # NoInput
    BY DEF Taken
  <1>17. QED BY <1>3, <1>13, <1>14, <1>15, <1>16 DEF Steady, Have

\* The checks after an instruction set TERMINATE at most.
LEMMA CheckedSteady ==
  ASSUME NEW h \in Home, NEW o, Good(o, h)
  PROVE  Checked(o).st.input = o.st.input /\ o.st.flags \subseteq Checked(o).st.flags
  <1> DEFINE e == ErrCheck(o)
             d == DeadCheck(e)
  <1>1. DOMAIN o = {"st", "ca", "pg", "mn", "b", "err"} /\ o.st \in StateType
    BY DEF Good
  <1>2. e.st = o.st /\ DOMAIN e = DOMAIN o
    BY <1>1 DEF ErrCheck, Ok
  <1> HIDE DEF e
  <1>3. d.st \in {e.st, SetFlag(e.st, "TERMINATE")}
    BY <1>1, <1>2 DEF DeadCheck, Fails
  <1>4. SetFlag(e.st, "TERMINATE").input = o.st.input
        /\ o.st.flags \subseteq SetFlag(e.st, "TERMINATE").flags
    BY <1>1, <1>2 DEF SetFlag, StateType
  <1>5. Checked(o).st \in {o.st, d.st}
    BY <1>2 DEF Checked, e
  <1>6. QED BY <1>2, <1>3, <1>4, <1>5

\* What a step other than that of TERMINATE keeps.
LEMMA TurnSteady ==
  ASSUME IInv, run.pc = "on", run.b # <<>>, NEW o, Good(o, Homes), Turn(o), Steady(Current, o)
  PROVE  /\ st'.input = st.input
         /\ "WAIT" \notin st'.flags
         /\ Have(o) => "INMATCH" \in st'.flags
         /\ "INMATCH" \in st.flags /\ "WAIT" \notin st.flags => "INMATCH" \in st'.flags
  <1> DEFINE c == Checked(o)
  <1>1. Homes \in Home /\ st \in StateType
    BY CurrentGood DEF IInv, TypeOK
  <1>2. /\ c.st.input = o.st.input /\ o.st.flags \subseteq c.st.flags
        /\ "WAIT" \notin c.st.flags
    BY <1>1, CheckedSteady, CheckedGood DEF Good
  <1>3. st' = c.st
    BY DEF Turn, Becomes
  <1> HIDE DEF c
  <1>4. /\ Current.st.input = st.input
        /\ "INMATCH" \in st.flags /\ "WAIT" \notin st.flags => Have(Current)
    BY <1>1 DEF Current, LoopHead, Wake, Have, StateType
  <1>5. QED BY <1>2, <1>3, <1>4 DEF Steady, Have

\* What keeps an input from being followed twice: the code in use compares a
\* selector once, and once an INCMP was followed nothing before the next HALT is for
\* this input.
OnceInv ==
  /\ hits \in {0, 1}
  /\ ComparesOnce(st.code)
  /\ run.err = "ok" => ComparesOnce(run.b)
  /\ run.pc = "on" => run.err = "ok"
  /\ run.pc = "on" /\ hits = 1 =>
       "INMATCH" \in st.flags /\ "WAIT" \notin st.flags /\ Quiet(run.b, st.input)

\* Of programs whose nodes ask for input before they compare it, each selector once.
OnceOnly == \A n \in DOMAIN Code : ComparesOnce(Code[n]) /\ AsksFirst(Code[n])

\* Code that does not compare, as the ways to _catch and to the entry point.
LEMMA ComparesNothing ==
  /\ ComparesOnce(<<>>) /\ \A in : Quiet(<<>>, in)
  /\ \A n : ComparesOnce(<<MOVE(n)>>) /\ \A in : Quiet(<<MOVE(n)>>, in)
  <1>1. Compares(<<>>) = {}
    BY DEF Compares
  <1>2. ASSUME NEW n PROVE Compares(<<MOVE(n)>>) = {}
    <2> DEFINE c == <<MOVE(n)>>
    <2>1. DOMAIN c = {1} /\ c[1] = MOVE(n)
      OBVIOUS
    <2>2. MOVE(n).op = "MOVE"
      BY DEF MOVE
    <2> HIDE DEF c
    <2>3. Compares(c) = {}
      BY <2>1, <2>2 DEF Compares
    <2>4. QED BY <2>3 DEF c
  <1>3. \A c : Compares(c) = {} => ComparesOnce(c) /\ \A in : Quiet(c, in)
    BY DEF ComparesOnce, Quiet
  <1>4. QED BY <1>1, <1>2, <1>3

\* The code that a step leads to compares once, and is quiet if the tail is.
LEMMA CodeStepOnce ==
  ASSUME OnceOnly, CodeStep, run.b \in Seq(Instruction), run.b # <<>>, ComparesOnce(run.b),
         run'.err = "ok"
  PROVE  /\ ComparesOnce(run'.b)
         /\ \A in : Quiet(Tail(run.b), in) => Quiet(run'.b, in)
  <1> DEFINE t == Tail(run.b)
  <1>1. t \in Seq(Instruction) /\ ComparesOnce(t)
    BY TailOfCode, TailOnce
  <1> HIDE DEF t
  <1>2. ASSUME NEW n \in DOMAIN Code
        PROVE  /\ ComparesOnce(Code[n]) /\ ComparesOnce(t \o Code[n])
               /\ \A in : Quiet(Code[n], in)
               /\ \A in : Quiet(t, in) => Quiet(t \o Code[n], in)
    <2>1. Code[n] \in Seq(Instruction) /\ ComparesOnce(Code[n]) /\ AsksFirst(Code[n])
      BY VmAssumption DEF OnceOnly
    <2> DEFINE c == Code[n]
    <2> HIDE DEF c
    <2>2. c \in Seq(Instruction) /\ ComparesOnce(c) /\ AsksFirst(c)
      BY <2>1 DEF c
    <2>3. /\ ComparesOnce(t \o c)
          /\ \A in : Quiet(c, in) /\ (Quiet(t, in) => Quiet(t \o c, in))
      BY <1>1, <2>2, ConcatOnce, ConcatQuiet
    <2>4. QED BY <2>2, <2>3 DEF c
  <1>3. \/ run'.b = <<MOVE(Catch)>>
        \/ run'.b = <<>>
        \/ run'.b = t
        \/ \E n \in DOMAIN Code : run'.b \in {Code[n], t \o Code[n]}
    BY DEF CodeStep, t
  <1>4. CASE run'.b \in {<<MOVE(Catch)>>, <<>>}
    BY <1>4, ComparesNothing
  <1>5. CASE run'.b = t
    BY <1>1, <1>5 DEF t
  <1>6. ASSUME NEW n \in DOMAIN Code, run'.b \in {Code[n], t \o Code[n]}
        PROVE  ComparesOnce(run'.b) /\ \A in : Quiet(t, in) => Quiet(run'.b, in)
    BY <1>2, <1>6
  <1>7. QED BY <1>3, <1>4, <1>5, <1>6 DEF t

\* An instruction other than INCMP is a turn that is steady, or a HALT, and takes no input.
LEMMA InstructionSteady ==
  ASSUME IInv, VmStep, ~Bail, ~ExecInCmp, ~ExecHalt
  PROVE  /\ \E o : Good(o, Homes) /\ Turn(o) /\ Steady(Current, o)
         /\ hits' = hits
         /\ Instr.op # "HALT"
  <1>1. run.pc = "on" /\ run.b # <<>>
    BY DEF VmStep, Executing, ExecMove, ExecCatch, ExecCroak, ExecLoad, ExecReload,
           ExecMap, ExecInCmp, ExecMenu, ExecHalt
  <1>2. Homes \in Home /\ Good(Current, Homes) /\ Instr \in Instruction
        /\ Current.ca = ca /\ Current.st.path = st.path
    BY <1>1, CurrentGood
  <1>3. /\ Instr.op \in {"MOVE", "CATCH", "INCMP"} => Instr.node \in Target
        /\ Instr.op \in {"LOAD", "RELOAD", "MAP"} => Instr.sym \in Key
        /\ Instr.op \in {"MOUT", "MNEXT", "MPREV"} => Instr.sel \in Selector
    BY <1>2, Parameters
  <1> DEFINE goal == /\ \E o : Good(o, Homes) /\ Turn(o) /\ Steady(Current, o)
                     /\ hits' = hits
                     /\ Instr.op # "HALT"
  <1>4. ASSUME NEW o, Good(o, Homes), Turn(o), Steady(Current, o), hits' = hits, Instr.op # "HALT"
        PROVE  goal
    BY <1>4
  <1> HIDE DEF goal
  <1>5. ASSUME ExecMove PROVE goal
    <2>1. PICK up \in BOOLEAN : Turn(RunMove(Current, Instr, up))
      BY <1>5 DEF ExecMove
    <2>2. Instr.op = "MOVE" /\ hits' = hits
      BY <1>5 DEF ExecMove, Executing
    <2>3. Good(RunMove(Current, Instr, up), Homes) /\ Steady(Current, RunMove(Current, Instr, up))
      BY <1>2, <1>3, <2>2, MoveGood, MovesSteady
    <2>4. QED BY <1>4, <2>1, <2>2, <2>3
  <1>6. ASSUME ExecCatch PROVE goal
    <2>1. PICK up \in BOOLEAN : Turn(RunCatch(Current, Instr, up))
      BY <1>6 DEF ExecCatch
    <2>2. Instr.op = "CATCH" /\ hits' = hits
      BY <1>6 DEF ExecCatch, Executing
    <2>3. Good(RunCatch(Current, Instr, up), Homes) /\ Steady(Current, RunCatch(Current, Instr, up))
      BY <1>2, <1>3, <2>2, CatchGood, MovesSteady
    <2>4. QED BY <1>4, <2>1, <2>2, <2>3
  <1>7. ASSUME ExecCroak PROVE goal
    <2>1. Instr.op = "CROAK" /\ hits' = hits /\ Turn(RunCroak(Current, Instr))
      BY <1>7 DEF ExecCroak, Executing
    <2>2. Good(RunCroak(Current, Instr), Homes) /\ Steady(Current, RunCroak(Current, Instr))
      BY <1>2, CroakGood, OthersSteady
    <2>3. QED BY <1>4, <2>1, <2>2
  <1>8. ASSUME ExecLoad PROVE goal
    <2>1. PICK r \in Results(Instr.sym) : Turn(RunLoad(Current, Instr, r))
      BY <1>8 DEF ExecLoad
    <2>2. Instr.op = "LOAD" /\ hits' = hits /\ r \in Result
      BY <1>8, ResultsAreResults DEF ExecLoad, Executing
    <2>3. FrameOf(Current.ca, Instr.sym) = 0 => Homes[Instr.sym] = Current.st.path
      <3>1. FrameOf(ca, Instr.sym) = 0 => Instr.sym \notin Cached(ca)
        BY FrameOfFinds DEF IInv, Cached
      <3>2. Cached(ca) = DOMAIN home
        BY DEF IInv
      <3>3. QED BY <1>2, <1>3, <2>2, <3>1, <3>2 DEF Homes
    <2>4. Good(RunLoad(Current, Instr, r), Homes)
      BY <1>2, <1>3, <2>2, <2>3, LoadGood
    <2>5. Steady(Current, RunLoad(Current, Instr, r))
      BY <1>2, <2>2, LoadsSteady
    <2>6. QED BY <1>4, <2>1, <2>2, <2>4, <2>5
  <1>9. ASSUME ExecReload PROVE goal
    <2>1. PICK r \in Results(Instr.sym) : Turn(RunReload(Current, Instr, r))
      BY <1>9 DEF ExecReload
    <2>2. Instr.op = "RELOAD" /\ hits' = hits /\ r \in Result
      BY <1>9, ResultsAreResults DEF ExecReload, Executing
    <2>3. Good(RunReload(Current, Instr, r), Homes) /\ Steady(Current, RunReload(Current, Instr, r))
      BY <1>2, <2>2, ReloadGood, LoadsSteady
    <2>4. QED BY <1>4, <2>1, <2>2, <2>3
  <1>10. ASSUME ExecMap PROVE goal
    <2>1. Instr.op = "MAP" /\ hits' = hits /\ Turn(RunMap(Current, Instr))
      BY <1>10 DEF ExecMap, Executing
    <2>2. Good(RunMap(Current, Instr), Homes)
      BY <1>2, MapGood DEF RunMap
    <2>3. RunMap(Current, Instr).st = Current.st
      BY <1>2, MapState DEF RunMap, Good
    <2>4. QED BY <1>4, <2>1, <2>2, <2>3 DEF Steady, Have
  <1>11. ASSUME ExecMenu PROVE goal
    <2>1. /\ Instr.op \in {"MOUT", "MNEXT", "MPREV", "MSINK"} /\ hits' = hits
          /\ Turn(RunMenu(Current, Instr))
      BY <1>11 DEF ExecMenu
    <2>2. Good(RunMenu(Current, Instr), Homes)
      BY <1>2, <1>3, <2>1, MenuGood
    <2>3. Steady(Current, RunMenu(Current, Instr))
      BY <1>2, OthersSteady
    <2>4. QED BY <1>4, <2>1, <2>2, <2>3
  <1>12. goal
    BY <1>5, <1>6, <1>7, <1>8, <1>9, <1>10, <1>11 DEF VmStep
  <1>13. QED BY <1>12 DEF goal

\* A step of the vm follows no INCMP twice.
LEMMA VmStepOnce ==
  ASSUME OnceOnly, IInv, OnceInv, VmStep
  PROVE  OnceInv'
  <1>1. run.pc = "on"
    BY StepShape
  <1>2. CASE Bail
    BY <1>2, ComparesNothing DEF Bail, OnceInv
  <1>3. CASE ~Bail
    <2>1. /\ run.b # <<>> /\ CodeStep /\ st'.code = <<>> /\ (run'.pc = "on" => run'.err = "ok")
      BY <1>3, StepShape
    <2>2. run.b \in Seq(Instruction) /\ ComparesOnce(run.b) /\ hits \in {0, 1}
      BY <1>1 DEF IInv, TypeOK, OnceInv
    <2>3. /\ run'.err = "ok" => ComparesOnce(run'.b)
          /\ run'.err = "ok" => \A in : Quiet(Tail(run.b), in) => Quiet(run'.b, in)
      BY <2>1, <2>2, CodeStepOnce
    <2>4. ComparesOnce(st'.code)
      BY <2>1, ComparesNothing
    <2>5. SUFFICES /\ hits' \in {0, 1}
                   /\ run'.pc = "on" /\ hits' = 1 =>
                        /\ "INMATCH" \in st'.flags /\ "WAIT" \notin st'.flags
                        /\ Quiet(Tail(run.b), st'.input)
      BY <2>1, <2>3, <2>4 DEF OnceInv
    <2>6. hits = 1 => /\ "INMATCH" \in st.flags /\ "WAIT" \notin st.flags
                      /\ Quiet(run.b, st.input)
      BY <1>1 DEF OnceInv
    <2>7. CASE ExecHalt
      <3>1. hits' = hits /\ run'.pc = "ret"
        BY <2>7 DEF ExecHalt, Becomes
      <3>2. QED BY <2>2, <3>1
    <2>8. CASE ~ExecHalt /\ ~ExecInCmp
      <3>1. PICK o : Good(o, Homes) /\ Turn(o) /\ Steady(Current, o)
        BY <1>3, <2>8, InstructionSteady
      <3>2. hits' = hits /\ Head(run.b).op # "HALT"
        BY <1>3, <2>8, InstructionSteady DEF Instr
      <3>3. /\ st'.input = st.input /\ "WAIT" \notin st'.flags
            /\ "INMATCH" \in st.flags /\ "WAIT" \notin st.flags => "INMATCH" \in st'.flags
        BY <1>1, <2>1, <3>1, TurnSteady
      <3>4. Quiet(run.b, st.input) => Quiet(Tail(run.b), st.input)
        BY <2>1, <2>2, <3>2, TailQuiet
      <3>5. QED BY <2>2, <2>6, <3>2, <3>3, <3>4
    <2>9. CASE ExecInCmp
      <3>1. PICK up \in BOOLEAN : Turn(RunInCmp(Current, Instr, up))
        BY <2>9 DEF ExecInCmp
      <3>2. Instr.op = "INCMP" /\ hits' = IF Taken(Current, Instr) THEN hits + 1 ELSE hits
        BY <2>9 DEF ExecInCmp, Executing
      <3>3. Homes \in Home /\ Good(Current, Homes) /\ Instr.node \in Target
        BY <1>1, <2>1, <3>2, CurrentGood, Parameters
      <3> DEFINE o == RunInCmp(Current, Instr, up)
      <3>4. Good(o, Homes) /\ Steady(Current, o) /\ (Taken(Current, Instr) => Have(o))
        BY <3>3, InCmpGood, InCmpSteady
      <3> HIDE DEF o
      <3>5. /\ st'.input = st.input /\ "WAIT" \notin st'.flags
            /\ Have(o) => "INMATCH" \in st'.flags
            /\ "INMATCH" \in st.flags /\ "WAIT" \notin st.flags => "INMATCH" \in st'.flags
        BY <1>1, <2>1, <3>1, <3>4, TurnSteady DEF o
      <3>6. /\ Quiet(run.b, st.input) => Quiet(Tail(run.b), st.input)
            /\ Instr.sel \in {st.input, Wildcard} => Quiet(Tail(run.b), st.input)
        BY <2>1, <2>2, <3>2, TailQuiet DEF Instr
      <3>7. /\ Current.st.input = st.input
            /\ ~Have(Current) => "INMATCH" \notin st.flags \/ "WAIT" \in st.flags
        <4>1. st \in StateType
          BY DEF IInv, TypeOK
        <4>2. QED BY <4>1 DEF Current, LoopHead, Wake, Have, StateType
      <3>8. Taken(Current, Instr) =>
              \/ Instr.sel = st.input
              \/ Instr.sel = Wildcard /\ ("INMATCH" \notin st.flags \/ "WAIT" \in st.flags)
        BY <3>7 DEF Taken, Matches
      <3>9. ~(Quiet(run.b, st.input) /\ Instr.sel = st.input)
        <4>1. 1 \in Compares(run.b) /\ run.b[1].sel = Instr.sel
          BY <2>1, <2>2, <3>2, TailOfCode DEF Compares, Instr
        <4>2. ~HaltBetween(run.b, 0, 1)
          <5>1. \A h \in DOMAIN run.b : ~(0 < h /\ h < 1)
            BY <2>1, <2>2, TailOfCode
          <5>2. QED BY <5>1 DEF HaltBetween
        <4>3. QED BY <4>1, <4>2 DEF Quiet
      <3>10. hits = 1 => ~Taken(Current, Instr)
        BY <2>6, <3>8, <3>9
      <3>11. CASE Taken(Current, Instr)
        BY <2>2, <3>2, <3>4, <3>5, <3>6, <3>8, <3>10, <3>11
      <3>12. CASE ~Taken(Current, Instr)
        BY <2>2, <2>6, <3>2, <3>5, <3>6, <3>12
      <3>13. QED BY <3>11, <3>12
    <2>10. QED BY <2>7, <2>8, <2>9
  <1>4. QED BY <1>2, <1>3

\* Every step follows at most one INCMP for an input.
LEMMA NextOnce ==
  ASSUME OnceOnly, IInv, OnceInv, [Next]_vars
  PROVE  OnceInv'
  <1>1. ASSUME NEW in \in Input, Exec(in) PROVE OnceInv'
    <2>1. /\ st' = [st EXCEPT !.input = in, !.code = <<>>] /\ hits' = 0
          /\ run' = [pc |-> "on", b |-> st.code, err |-> "ok"] /\ st \in StateType
      BY <1>1 DEF Exec, IInv, TypeOK
    <2>2. st'.code = <<>>
      BY <2>1 DEF StateType
    <2>3. QED BY <2>1, <2>2, ComparesNothing DEF OnceInv
  <1>2. CASE Return
    <2>1. /\ st' \in {[st EXCEPT !.code = run.b], st} /\ hits' = hits /\ run' = Idle
          /\ run.err = "ok" \/ st' = st
          /\ st \in StateType
      BY <1>2 DEF Return, IInv, TypeOK
    <2>2. st'.code \in {run.b, st.code} /\ (run.err = "ok" \/ st'.code = st.code)
      BY <2>1 DEF StateType
    <2>3. QED BY <2>1, <2>2, ComparesNothing DEF OnceInv, Idle
  <1>3. CASE UNCHANGED vars
    BY <1>3 DEF vars, OnceInv
  <1>4. QED BY <1>1, <1>2, <1>3, VmStepOnce DEF Next

\* Nothing was followed at first.
LEMMA InitOnce == Init => OnceInv
  <1> SUFFICES ASSUME Init PROVE OnceInv
    OBVIOUS
  <1>1. st.code = <<MOVE(Root)>> /\ hits = 0 /\ run = Idle
    BY DEF Init, NewState
  <1>2. QED BY <1>1, ComparesNothing DEF OnceInv, Idle

\* runInCmp: one input makes one move, in every program whose nodes ask for input
\* before they compare it, and compare a selector once. The code that is left of the
\* nodes before, and that of the node reached, is not compared with it again.
THEOREM OneInputOneMove ==
  ASSUME OnceOnly
  PROVE  Spec => []OneMovePerInput
  <1>1. IInv /\ OnceInv /\ [Next]_vars => (IInv /\ OnceInv)'
    BY NextIInv, NextOnce
  <1>2. OnceInv => OneMovePerInput
    BY DEF OnceInv, OneMovePerInput
  <1>3. QED BY InitIInv, InitOnce, <1>1, <1>2, PTL DEF Spec

-----------------------------------------------------------------------------
(* What is mapped is current, and what the menu offers is answered.        *)

\* A HALT that shows what is on the page, seen from the tail of the code.
LEMMA TailShown ==
  ASSUME NEW b \in Seq(Instruction), b # <<>>
  PROVE  /\ \A i \in Nat : Shown(b, i + 1) => Shown(Tail(b), i)
         /\ Shown(b, 0) /\ Head(b).op # "HALT" => ~LeavesPage(Head(b)) /\ Shown(Tail(b), 0)
  <1>1. ASSUME NEW i \in Nat, NEW h \in DOMAIN b, i + 1 < h, b[h].op = "HALT",
               \A n \in DOMAIN b : i + 1 < n /\ n < h => ~LeavesPage(b[n])
        PROVE  Shown(Tail(b), i)
    <2>1. h \in Nat /\ h # 1
      BY <1>1, TailOfCode
    <2>2. h - 1 \in DOMAIN Tail(b) /\ Tail(b)[h - 1] = b[h] /\ i < h - 1
      BY <1>1, <2>1, TailOfCode
    <2>3. ASSUME NEW n \in DOMAIN Tail(b), i < n, n < h - 1 PROVE ~LeavesPage(Tail(b)[n])
      <3>1. n \in Nat /\ n + 1 \in DOMAIN b /\ Tail(b)[n] = b[n + 1]
        BY TailOfCode
      <3>2. i + 1 < n + 1 /\ n + 1 < h
        BY <2>1, <2>3, <3>1
      <3>3. QED BY <1>1, <3>1, <3>2
    <2>4. QED BY <1>1, <2>2, <2>3 DEF Shown
  <1>2. ASSUME NEW h \in DOMAIN b, b[h].op = "HALT", Head(b).op # "HALT",
               \A n \in DOMAIN b : 0 < n /\ n < h => ~LeavesPage(b[n])
        PROVE  ~LeavesPage(Head(b)) /\ Shown(Tail(b), 0)
    <2>1. h \in Nat \ {0} /\ h # 1 /\ 1 \in DOMAIN b /\ b[1] = Head(b)
      BY <1>2, TailOfCode
    <2>2. 0 < 1 /\ 1 < h
      BY <2>1
    <2>3. ~LeavesPage(Head(b))
      BY <1>2, <2>1, <2>2
    <2>4. 0 + 1 < h /\ \A n \in DOMAIN b : 0 + 1 < n /\ n < h => 0 < n
      <3>1. \A n \in DOMAIN b : n \in Nat \ {0}
        BY TailOfCode
      <3>2. QED BY <2>2, <3>1
    <2>5. \A n \in DOMAIN b : 0 + 1 < n /\ n < h => ~LeavesPage(b[n])
      BY <1>2, <2>4
    <2>6. Shown(Tail(b), 0)
      BY <1>1, <1>2, <2>4, <2>5
    <2>7. QED BY <2>3, <2>6
  <1>3. QED BY <1>1, <1>2 DEF Shown

\* ShowsMapped holds of the rest of the code.
LEMMA TailShows ==
  ASSUME NEW b \in Seq(Instruction), b # <<>>, ShowsMapped(b)
  PROVE  ShowsMapped(Tail(b))
  <1>1. ASSUME NEW i \in DOMAIN Tail(b), Tail(b)[i].op \in {"MAP", "RELOAD"}
        PROVE  Shown(Tail(b), i)
    <2>1. i \in Nat /\ i + 1 \in DOMAIN b /\ Tail(b)[i] = b[i + 1]
      BY TailOfCode
    <2>2. Shown(b, i + 1)
      BY <1>1, <2>1 DEF ShowsMapped
    <2>3. QED BY <2>1, <2>2, TailShown
  <1>2. QED BY <1>1 DEF ShowsMapped

\* Places in the parts of a concatenation.
LEMMA PlaceInPart ==
  ASSUME NEW b \in Seq(Instruction), NEW c \in Seq(Instruction), NEW n \in DOMAIN (b \o c)
  PROVE  /\ n \in Nat
         /\ \A h \in DOMAIN b : n < h => n \in DOMAIN b /\ (b \o c)[n] = b[n]
         /\ \A i \in Nat : Len(b) + i < n =>
              n - Len(b) \in DOMAIN c /\ i < n - Len(b) /\ (b \o c)[n] = c[n - Len(b)]
  <1> DEFINE m == Len(b)
             d == b \o c
  <1>1. /\ m \in Nat /\ DOMAIN b \subseteq 1 .. m /\ n \in Nat
        /\ n \in DOMAIN b \/ (n > m /\ n - m \in DOMAIN c)
        /\ \A i \in DOMAIN b : d[i] = b[i]
        /\ \A i \in DOMAIN c : d[m + i] = c[i]
    BY PartsOfCode
  <1> HIDE DEF m, d
  <1>2. ASSUME NEW h \in DOMAIN b, n < h PROVE n \in DOMAIN b /\ d[n] = b[n]
    <2>1. h \in Nat /\ h <= m
      BY <1>1
    <2>2. ~(n > m)
      BY <1>1, <1>2, <2>1
    <2>3. QED BY <1>1, <2>2
  <1>3. ASSUME NEW i \in Nat, m + i < n
        PROVE  n - m \in DOMAIN c /\ i < n - m /\ d[n] = c[n - m]
    <2>1. n \notin DOMAIN b
      BY <1>1, <1>3
    <2>2. n - m \in DOMAIN c /\ i < n - m /\ m + (n - m) = n
      BY <1>1, <1>3, <2>1
    <2>3. QED BY <1>1, <2>2
  <1>4. QED BY <1>1, <1>2, <1>3 DEF m, d

\* ShowsMapped holds of code followed by code of which it holds.
LEMMA ConcatShows ==
  ASSUME NEW b \in Seq(Instruction), NEW c \in Seq(Instruction), ShowsMapped(b), ShowsMapped(c)
  PROVE  ShowsMapped(b \o c)
  <1> DEFINE m == Len(b)
             d == b \o c
  <1>1. /\ m \in Nat /\ DOMAIN c \subseteq Nat \ {0}
        /\ \A i \in DOMAIN b : i \in DOMAIN d /\ d[i] = b[i]
        /\ \A i \in DOMAIN c : m + i \in DOMAIN d /\ d[m + i] = c[i]
        /\ \A i \in DOMAIN d : i \in Nat /\ (i \in DOMAIN b \/ (i > m /\ i - m \in DOMAIN c))
    BY PartsOfCode
  <1>2. ASSUME NEW i \in DOMAIN b, d[i].op \in {"MAP", "RELOAD"} PROVE Shown(d, i)
    <2>1. b[i].op \in {"MAP", "RELOAD"}
      <3> HIDE DEF d
      <3>1. QED BY <1>1, <1>2
    <2>2. PICK h \in DOMAIN b : /\ i < h /\ b[h].op = "HALT"
                                /\ \A n \in DOMAIN b : i < n /\ n < h => ~LeavesPage(b[n])
      BY <2>1 DEF ShowsMapped, Shown
    <2>3. ASSUME NEW n \in DOMAIN d, i < n, n < h PROVE ~LeavesPage(d[n])
      <3>1. n \in DOMAIN b /\ d[n] = b[n]
        BY <2>3, PlaceInPart
      <3> HIDE DEF d
      <3>2. QED BY <2>2, <2>3, <3>1
    <2> HIDE DEF d
    <2>4. QED BY <1>1, <2>2, <2>3 DEF Shown
  <1>3. ASSUME NEW i \in DOMAIN d, i > m, i - m \in DOMAIN c, d[i].op \in {"MAP", "RELOAD"}
        PROVE  Shown(d, i)
    <2> DEFINE k == i - m
    <2>1. i \in Nat /\ m + k = i /\ k \in Nat
      <3> HIDE DEF m, d
      <3>1. QED BY <1>1, <1>3
    <2> HIDE DEF k, m, d
    <2>2. k \in DOMAIN c /\ c[k].op \in {"MAP", "RELOAD"}
      <3>1. k \in DOMAIN c
        BY <1>3 DEF k
      <3>2. QED BY <1>1, <1>3, <2>1, <3>1
    <2>3. PICK h \in DOMAIN c : /\ k < h /\ c[h].op = "HALT"
                                /\ \A n \in DOMAIN c : k < n /\ n < h => ~LeavesPage(c[n])
      BY <2>2 DEF ShowsMapped, Shown
    <2>4. h \in Nat /\ m + h \in DOMAIN d /\ d[m + h].op = "HALT" /\ i < m + h
      BY <1>1, <2>1, <2>3
    <2>5. ASSUME NEW n \in DOMAIN d, i < n, n < m + h PROVE ~LeavesPage(d[n])
      <3>1. n \in Nat /\ m + k < n
        BY <1>1, <2>1, <2>5
      <3>2. n - m \in DOMAIN c /\ k < n - m /\ d[n] = c[n - m]
        BY <2>1, <3>1, PlaceInPart DEF m, d
      <3>3. n - m < h
        BY <1>1, <2>4, <2>5, <3>1
      <3>4. QED BY <2>3, <3>2, <3>3
    <2>6. QED BY <2>4, <2>5 DEF Shown
  <1> HIDE DEF m
  <1>4. \A i \in DOMAIN d : d[i].op \in {"MAP", "RELOAD"} => Shown(d, i)
    BY <1>1, <1>2, <1>3
  <1>5. QED BY <1>4 DEF ShowsMapped

\* The answer to a menu entry, seen from the tail of the code.
LEMMA TailAnswer ==
  ASSUME NEW b \in Seq(Instruction), b # <<>>, NEW sel
  PROVE  /\ \A i \in Nat : Answered(b, i + 1, sel) => Answered(Tail(b), i, sel)
         /\ Answered(b, 0, sel) /\ Head(b).op # "HALT" =>
              Head(b).op # "CATCH" /\ Answered(Tail(b), 0, sel)
         /\ Answered(b, 0, sel) =>
              \E n \in DOMAIN Tail(b) :
                Tail(b)[n].op = "INCMP" /\ Tail(b)[n].sel \in {sel, Wildcard}
  <1>1. ASSUME NEW i \in Nat, NEW h \in DOMAIN b, NEW j \in Compares(b),
               i + 1 < h, h < j, b[h].op = "HALT", b[j].sel \in {sel, Wildcard},
               \A n \in DOMAIN b : i + 1 < n /\ n < h => b[n].op # "CATCH"
        PROVE  Answered(Tail(b), i, sel)
    <2>1. h \in Nat /\ h # 1 /\ j \in DOMAIN b /\ j \in Nat /\ j # 1
      BY <1>1, TailOfCode DEF Compares
    <2>2. h - 1 \in DOMAIN Tail(b) /\ Tail(b)[h - 1] = b[h] /\ i < h - 1
      BY <1>1, <2>1, TailOfCode
    <2>3. j - 1 \in DOMAIN Tail(b) /\ Tail(b)[j - 1] = b[j] /\ h - 1 < j - 1
      BY <1>1, <2>1, TailOfCode
    <2>4. j - 1 \in Compares(Tail(b))
      BY <2>3 DEF Compares
    <2>5. ASSUME NEW n \in DOMAIN Tail(b), i < n, n < h - 1 PROVE Tail(b)[n].op # "CATCH"
      <3>1. n \in Nat /\ n + 1 \in DOMAIN b /\ Tail(b)[n] = b[n + 1]
        BY TailOfCode
      <3>2. i + 1 < n + 1 /\ n + 1 < h
        BY <2>1, <2>5, <3>1
      <3>3. QED BY <1>1, <3>1, <3>2
    <2>6. QED BY <1>1, <2>2, <2>3, <2>4, <2>5 DEF Answered
  <1>2. ASSUME NEW h \in DOMAIN b, NEW j \in Compares(b), h < j,
               b[h].op = "HALT", b[j].sel \in {sel, Wildcard},
               \A n \in DOMAIN b : 0 < n /\ n < h => b[n].op # "CATCH"
        PROVE  /\ Head(b).op # "HALT" => Head(b).op # "CATCH" /\ Answered(Tail(b), 0, sel)
               /\ \E n \in DOMAIN Tail(b) :
                    Tail(b)[n].op = "INCMP" /\ Tail(b)[n].sel \in {sel, Wildcard}
    <2>1. /\ h \in Nat \ {0} /\ 1 \in DOMAIN b /\ b[1] = Head(b)
          /\ j \in DOMAIN b /\ b[j].op = "INCMP" /\ j \in Nat /\ j # 1
      BY <1>2, TailOfCode DEF Compares
    <2>2. j - 1 \in DOMAIN Tail(b) /\ Tail(b)[j - 1] = b[j]
      BY <2>1, TailOfCode
    <2>3. ASSUME Head(b).op # "HALT"
          PROVE  Head(b).op # "CATCH" /\ Answered(Tail(b), 0, sel)
      <3>1. h # 1 /\ 0 < 1 /\ 1 < h
        BY <1>2, <2>1, <2>3
      <3>2. Head(b).op # "CATCH"
        BY <1>2, <2>1, <3>1
      <3>3. 0 + 1 < h /\ \A n \in DOMAIN b : 0 + 1 < n /\ n < h => 0 < n
        <4>1. \A n \in DOMAIN b : n \in Nat \ {0}
          BY TailOfCode
        <4>2. QED BY <3>1, <4>1
      <3>4. \A n \in DOMAIN b : 0 + 1 < n /\ n < h => b[n].op # "CATCH"
        BY <1>2, <3>3
      <3>5. Answered(Tail(b), 0, sel)
        BY <1>1, <1>2, <3>3, <3>4
      <3>6. QED BY <3>2, <3>5
    <2>4. QED BY <1>2, <2>1, <2>2, <2>3
  <1>3. QED BY <1>1, <1>2 DEF Answered

\* AnswersMenu holds of the rest of the code.
LEMMA TailAnswers ==
  ASSUME NEW b \in Seq(Instruction), b # <<>>, AnswersMenu(b)
  PROVE  AnswersMenu(Tail(b))
  <1>1. ASSUME NEW i \in DOMAIN Tail(b), Tail(b)[i].op = "MOUT"
        PROVE  Answered(Tail(b), i, Tail(b)[i].sel)
    <2>1. i \in Nat /\ i + 1 \in DOMAIN b /\ Tail(b)[i] = b[i + 1]
      BY TailOfCode
    <2>2. Answered(b, i + 1, b[i + 1].sel)
      BY <1>1, <2>1 DEF AnswersMenu
    <2>3. QED BY <2>1, <2>2, TailAnswer
  <1>2. QED BY <1>1 DEF AnswersMenu

\* AnswersMenu holds of code followed by code of which it holds.
LEMMA ConcatAnswers ==
  ASSUME NEW b \in Seq(Instruction), NEW c \in Seq(Instruction), AnswersMenu(b), AnswersMenu(c)
  PROVE  AnswersMenu(b \o c)
  <1> DEFINE m == Len(b)
             d == b \o c
  <1>1. /\ m \in Nat /\ DOMAIN c \subseteq Nat \ {0}
        /\ \A i \in DOMAIN b : i \in DOMAIN d /\ d[i] = b[i]
        /\ \A i \in DOMAIN c : m + i \in DOMAIN d /\ d[m + i] = c[i]
        /\ \A i \in DOMAIN d : i \in Nat /\ (i \in DOMAIN b \/ (i > m /\ i - m \in DOMAIN c))
    BY PartsOfCode
  <1>2. ASSUME NEW i \in DOMAIN b, d[i].op = "MOUT" PROVE Answered(d, i, d[i].sel)
    <2>1. b[i].op = "MOUT" /\ d[i] = b[i]
      <3> HIDE DEF d
      <3>1. QED BY <1>1, <1>2
    <2>2. PICK h \in DOMAIN b, j \in Compares(b) :
            /\ i < h /\ h < j /\ b[h].op = "HALT" /\ b[j].sel \in {b[i].sel, Wildcard}
            /\ \A n \in DOMAIN b : i < n /\ n < h => b[n].op # "CATCH"
      BY <2>1 DEF AnswersMenu, Answered
    <2>3. ASSUME NEW n \in DOMAIN d, i < n, n < h PROVE d[n].op # "CATCH"
      <3>1. n \in DOMAIN b /\ d[n] = b[n]
        BY <2>3, PlaceInPart
      <3> HIDE DEF d
      <3>2. QED BY <2>2, <2>3, <3>1
    <2> HIDE DEF d
    <2>4. j \in Compares(d) /\ d[j] = b[j]
      BY <1>1 DEF Compares
    <2>5. QED BY <1>1, <2>1, <2>2, <2>3, <2>4 DEF Answered
  <1>3. ASSUME NEW i \in DOMAIN d, i > m, i - m \in DOMAIN c, d[i].op = "MOUT"
        PROVE  Answered(d, i, d[i].sel)
    <2> DEFINE k == i - m
    <2>1. i \in Nat /\ m + k = i /\ k \in Nat
      <3> HIDE DEF m, d
      <3>1. QED BY <1>1, <1>3
    <2> HIDE DEF k, m, d
    <2>2. k \in DOMAIN c /\ c[k].op = "MOUT" /\ d[i] = c[k]
      <3>1. k \in DOMAIN c
        BY <1>3 DEF k
      <3>2. QED BY <1>1, <1>3, <2>1, <3>1
    <2>3. PICK h \in DOMAIN c, j \in Compares(c) :
            /\ k < h /\ h < j /\ c[h].op = "HALT" /\ c[j].sel \in {c[k].sel, Wildcard}
            /\ \A n \in DOMAIN c : k < n /\ n < h => c[n].op # "CATCH"
      BY <2>2 DEF AnswersMenu, Answered
    <2>4. h \in Nat /\ m + h \in DOMAIN d /\ d[m + h].op = "HALT" /\ i < m + h
      BY <1>1, <2>1, <2>3
    <2>5. m + j \in Compares(d) /\ d[m + j] = c[j] /\ m + h < m + j
      <3>1. j \in DOMAIN c /\ j \in Nat /\ c[j].op = "INCMP"
        BY <1>1 DEF Compares
      <3>2. m + j \in DOMAIN d /\ d[m + j] = c[j]
        BY <1>1, <3>1
      <3>3. m + h < m + j
        BY <1>1, <2>3, <2>4, <3>1
      <3>4. QED BY <3>1, <3>2, <3>3 DEF Compares
    <2>6. ASSUME NEW n \in DOMAIN d, i < n, n < m + h PROVE d[n].op # "CATCH"
      <3>1. n \in Nat /\ m + k < n
        BY <1>1, <2>1, <2>6
      <3>2. n - m \in DOMAIN c /\ k < n - m /\ d[n] = c[n - m]
        BY <2>1, <3>1, PlaceInPart DEF m, d
      <3>3. n - m < h
        BY <1>1, <2>4, <2>6, <3>1
      <3>4. QED BY <2>3, <3>2, <3>3
    <2>7. QED BY <2>2, <2>3, <2>4, <2>5, <2>6 DEF Answered
  <1> HIDE DEF m
  <1>4. \A i \in DOMAIN d : d[i].op = "MOUT" => Answered(d, i, d[i].sel)
    BY <1>1, <1>2, <1>3
  <1>5. QED BY <1>4 DEF AnswersMenu

\* What the page has mapped is cached, as the cache has it, and a sink among it is
\* the sink of the page.
Mapped(p, c) ==
  \A k \in DOMAIN p.mapped :
    /\ FrameOf(c, k) # 0 /\ p.mapped[k] = Get(c, k)
    /\ k \in DOMAIN c.sizes
    /\ c.sizes[k] = 0 => p.sink = k

\* d has what c has of the symbols other than x.
Has(c, d, x) ==
  \A k : k # x /\ FrameOf(c, k) # 0 =>
    /\ FrameOf(d, k) # 0 /\ Get(d, k) = Get(c, k)
    /\ k \in DOMAIN c.sizes => k \in DOMAIN d.sizes /\ d.sizes[k] = c.sizes[k]

\* Where nothing was taken from the cache, what is mapped stays current.
LEMMA HasMapped ==
  ASSUME NEW p, NEW c, NEW d, NEW x, x \notin DOMAIN p.mapped, Has(c, d, x), Mapped(p, c)
  PROVE  Mapped(p, d)
  BY DEF Mapped, Has

\* A symbol in the same frames is found in the same frame.
LEMMA SameFrame ==
  ASSUME NEW c, NEW d, NEW k,
         {i \in DOMAIN c.frames : k \in DOMAIN c.frames[i]}
           = {i \in DOMAIN d.frames : k \in DOMAIN d.frames[i]}
  PROVE  FrameOf(c, k) = FrameOf(d, k)
  <1> DEFINE H == {i \in DOMAIN c.frames : k \in DOMAIN c.frames[i]}
  <1>1. FrameOf(c, k) = IF H = {} THEN 0 ELSE Min(H)
    BY DEF FrameOf
  <1>2. FrameOf(d, k) = IF H = {} THEN 0 ELSE Min(H)
    BY DEF FrameOf
  <1> HIDE DEF H
  <1>3. QED BY <1>1, <1>2

\* A new level hides nothing.
LEMMA PushHas ==
  ASSUME NEW c, CacheShape(c), NEW x
  PROVE  Has(c, Push(c), x)
  <1> DEFINE d == Push(c)
             n == Len(c.frames)
  <1>1. /\ CacheShape(d) /\ Len(d.frames) = n + 1
        /\ \A i \in DOMAIN c.frames : d.frames[i] = c.frames[i]
        /\ DOMAIN d.frames[n + 1] = {}
    BY PushFrames
  <1>2. DOMAIN c.frames = 1 .. n /\ n \in Nat /\ DOMAIN d.frames = 1 .. (n + 1)
    BY <1>1, Numbered
  <1>3. d.sizes = c.sizes
    BY DEF Push, CacheShape
  <1> HIDE DEF d, n
  <1>4. \A i \in DOMAIN d.frames : i \in DOMAIN c.frames \/ i = n + 1
    BY <1>2
  <1>5. DOMAIN c.frames \subseteq DOMAIN d.frames
    BY <1>2
  <1>6. ASSUME NEW k, FrameOf(c, k) # 0
        PROVE  FrameOf(d, k) # 0 /\ Get(d, k) = Get(c, k)
    <2>1. {i \in DOMAIN c.frames : k \in DOMAIN c.frames[i]}
            = {i \in DOMAIN d.frames : k \in DOMAIN d.frames[i]}
      BY <1>1, <1>4, <1>5
    <2>2. FrameOf(c, k) = FrameOf(d, k)
      BY <2>1, SameFrame
    <2>3. FrameOf(c, k) \in DOMAIN c.frames
      BY <1>6, FrameOfFinds
    <2>4. QED BY <1>1, <1>6, <2>2, <2>3 DEF Get
  <1>7. QED BY <1>3, <1>6 DEF Has, d

\* A symbol added is one that was not there.
LEMMA AddHas ==
  ASSUME NEW c, CacheShape(c), NEW x \in Key, NEW v \in Value, NEW lim
  PROVE  /\ \A y : Has(c, Add(c, x, v, lim), y)
         /\ AddOutcome(c, x, v, lim) = "ok" => FrameOf(c, x) = 0
  <1>1. /\ CacheShape(Add(c, x, v, lim)) /\ Len(Add(c, x, v, lim).frames) = Len(c.frames)
        /\ \A i \in DOMAIN c.frames : DOMAIN Add(c, x, v, lim).frames[i] =
             IF AddOutcome(c, x, v, lim) = "ok" /\ i = Len(c.frames)
             THEN DOMAIN c.frames[i] \cup {x} ELSE DOMAIN c.frames[i]
        /\ AddOutcome(c, x, v, lim) = "ok" => FrameOf(c, x) = 0
    BY ONLY CacheShape(c), x \in Key, v \in Value, AddFrames
  <1> DEFINE d == Add(c, x, v, lim)
             n == Len(c.frames)
             D == DOMAIN c.frames
  <1>2. D = 1 .. n /\ n \in Nat \ {0} /\ DOMAIN d.frames = D
        /\ \A i \in D : \A k : k # x => (k \in DOMAIN d.frames[i] <=> k \in DOMAIN c.frames[i])
    BY <1>1, Numbered
  <1>3. CASE AddOutcome(c, x, v, lim) # "ok"
    <2>1. d = c
      BY <1>3 DEF Add
    <2>2. QED BY <1>3, <2>1 DEF Has
  <1>4. CASE AddOutcome(c, x, v, lim) = "ok"
    <2> DEFINE f == Put(c.frames[n], x, v)
    <2>1. /\ d.frames = [c.frames EXCEPT ![n] = f]
          /\ d.sizes = Put(c.sizes, x, lim)
      BY <1>4 DEF Add, Levels
    <2>2. \A k \in DOMAIN c.frames[n] : k # x => f[k] = c.frames[n][k]
      BY DEF Put
    <2>3. \A k \in DOMAIN c.sizes : k # x => k \in DOMAIN d.sizes /\ d.sizes[k] = c.sizes[k]
      BY <2>1 DEF Put
    <2> HIDE DEF f
    <2>4. \A i \in D : d.frames[i] = IF i = n THEN f ELSE c.frames[i]
      BY <1>2, <2>1
    <2> HIDE DEF d, n, D
    <2>5. ASSUME NEW k, FrameOf(c, k) # 0
          PROVE  /\ FrameOf(d, k) # 0 /\ Get(d, k) = Get(c, k)
                 /\ k \in DOMAIN c.sizes => k \in DOMAIN d.sizes /\ d.sizes[k] = c.sizes[k]
      <3>1. k # x
        BY <1>1, <1>4, <2>5
      <3>2. {i \in DOMAIN c.frames : k \in DOMAIN c.frames[i]}
              = {i \in DOMAIN d.frames : k \in DOMAIN d.frames[i]}
        BY <1>2, <3>1 DEF D
      <3>3. FrameOf(c, k) = FrameOf(d, k)
        BY <3>2, SameFrame
      <3>4. FrameOf(c, k) \in D /\ k \in DOMAIN c.frames[FrameOf(c, k)]
        BY <2>5, FrameOfFinds DEF D
      <3>5. d.frames[FrameOf(c, k)][k] = c.frames[FrameOf(c, k)][k]
        BY <2>2, <2>4, <3>1, <3>4
      <3>6. QED BY <2>3, <2>5, <3>1, <3>3, <3>5 DEF Get
    <2>6. \A y : Has(c, d, y)
      BY <2>5 DEF Has
    <2>7. QED BY <1>1, <2>6 DEF d
  <1>5. QED BY <1>3, <1>4

\* An update changes the value of its symbol, and nothing else.
LEMMA UpdateHas ==
  ASSUME NEW c, CacheShape(c), NEW x, NEW v \in Value
  PROVE  /\ Has(c, Update(c, x, v), x)
         /\ FrameOf(Update(c, x, v), x) = FrameOf(c, x)
         /\ Update(c, x, v).sizes = c.sizes
  <1> DEFINE d == Update(c, x, v)
             D == DOMAIN c.frames
             j == FrameOf(c, x)
  <1>1. /\ CacheShape(d) /\ Len(d.frames) = Len(c.frames)
        /\ \A i \in D : DOMAIN d.frames[i] = DOMAIN c.frames[i]
    BY UpdateFrames
  <1>2. DOMAIN d.frames = D
    BY <1>1, Numbered
  <1>3. d.sizes = c.sizes
    BY DEF Update, CacheShape
  <1>4. \A i \in D : \A k : k # x => d.frames[i][k] = c.frames[i][k]
    <2>1. CASE UpdateOutcome(c, x, v) # "ok"
      BY <2>1 DEF Update
    <2>2. CASE UpdateOutcome(c, x, v) = "ok"
      <3> DEFINE f == [c.frames[j] EXCEPT ![x] = v]
      <3>1. d.frames = [c.frames EXCEPT ![j] = f]
        BY <2>2 DEF Update, CacheShape
      <3>2. \A k : k # x => f[k] = c.frames[j][k]
        OBVIOUS
      <3> HIDE DEF f, j
      <3>3. \A i \in D : d.frames[i] = IF i = j THEN f ELSE c.frames[i]
        BY <3>1
      <3>4. QED BY <3>2, <3>3
    <2>3. QED BY <2>1, <2>2
  <1> HIDE DEF d, D
  <1>5. ASSUME NEW k PROVE FrameOf(d, k) = FrameOf(c, k)
    <2>1. {i \in DOMAIN c.frames : k \in DOMAIN c.frames[i]}
            = {i \in DOMAIN d.frames : k \in DOMAIN d.frames[i]}
      BY <1>1, <1>2 DEF D
    <2>2. QED BY <2>1, SameFrame
  <1>6. ASSUME NEW k, k # x, FrameOf(c, k) # 0 PROVE Get(d, k) = Get(c, k)
    <2>1. FrameOf(c, k) \in D
      BY <1>6, FrameOfFinds DEF D
    <2>2. QED BY <1>4, <1>5, <1>6, <2>1 DEF Get
  <1>7. QED BY <1>3, <1>5, <1>6 DEF Has, d

\* Nothing is mapped.
Bare(o) == DOMAIN o.pg.mapped = {}

\* What instruction i does to page and menu. What is mapped stays current, if i does
\* not leave the node with it. If i succeeds, then page and menu are empty, or the code
\* goes on as before and i is what may have filled them, or i is a CATCH.
PageStep(o, i, r) ==
  /\ Mapped(o.pg, o.ca) /\ (Bare(o) \/ ~LeavesPage(i)) => Mapped(r.pg, r.ca)
  /\ r.err = "ok" =>
       \/ Bare(r)
       \/ r.b = o.b /\ (i.op \in {"MAP", "RELOAD"} \/ ~Bare(o))
       \/ i.op = "CATCH" /\ ~Bare(o)
  /\ r.err = "ok" =>
       \/ r.mn.items = {}
       \/ /\ r.b = o.b
          /\ \/ r.mn.items = o.mn.items
             \/ i.op = "MOUT" /\ r.mn.items = o.mn.items \cup {i.sel}
       \/ i.op = "CATCH" /\ r.mn.items = o.mn.items

\* What leaves page, menu, code and cache alone.
LEMMA NoPageStep ==
  ASSUME NEW o, NEW i, NEW r, r.pg = o.pg, r.mn = o.mn, r.b = o.b, r.ca = o.ca
  PROVE  PageStep(o, i, r)
  BY DEF PageStep, Bare

\* A new page and menu.
LEMMA FreshStep ==
  ASSUME NEW o, NEW i, NEW r, Bare(r), r.mn.items = {}
  PROVE  PageStep(o, i, r)
  <1>1. Mapped(r.pg, r.ca)
    BY DEF Mapped, Bare
  <1>2. QED BY <1>1 DEF PageStep

\* Vm.Reset empties page and menu, and nothing else.
LEMMA FreshParts ==
  ASSUME NEW h \in Home, NEW o, Good(o, h)
  PROVE  /\ Bare(FreshPage(o)) /\ FreshPage(o).mn.items = {}
         /\ FreshPage(o).ca = o.ca /\ FreshPage(o).err = o.err
  <1> DEFINE p == PageReset(o.pg)
  <1>1. o.pg \in Page
    BY DEF Good
  <1>2. DOMAIN p.mapped = {}
    BY <1>1, NewMapIsFrame DEF PageReset, Page
  <1> HIDE DEF p
  <1>3. FreshPage(o) = [o EXCEPT !.pg = p, !.mn = NewMenu]
    BY DEF FreshPage, Good, p
  <1>4. NewMenu.items = {}
    BY DEF NewMenu
  <1>5. QED BY <1>2, <1>3, <1>4 DEF Bare, Good

\* applyTarget leaves page, menu and code alone, and takes nothing from the cache but
\* on the way up. Where it fails it does nothing.
TargetKeeps(o, t, m) ==
  /\ m.pg = o.pg /\ m.mn = o.mn /\ m.b = o.b
  /\ t \notin {"_", "^"} => m.ca \in {o.ca, Push(o.ca)}
  /\ m.err # "ok" => m.ca = o.ca

\* applyTarget does.
LEMMA TargetPage ==
  ASSUME NEW h \in Home, NEW o, Good(o, h), o.err = "ok", NEW t \in Target
  PROVE  TargetKeeps(o, t, ApplyTarget(o, t))
  <1>1. DOMAIN o = {"st", "ca", "pg", "mn", "b", "err"} /\ o.err = "ok"
    BY DEF Good
  <1>2. \A e : TargetKeeps(o, t, Fails(o, e))
    BY <1>1 DEF Fails, TargetKeeps
  <1>3. TargetKeeps(o, t, o)
    BY DEF TargetKeeps
  <1>4. \A s : TargetKeeps(o, t, [o EXCEPT !.st = s])
    BY <1>1 DEF TargetKeeps
  <1>5. t \in {"_", "^"} => TargetKeeps(o, t, Ascend(o)) /\ TargetKeeps(o, t, Rewind(o))
    BY <1>1 DEF Ascend, Rewind, TargetKeeps
  <1>6. TargetKeeps(o, t, Descend(o, t))
    BY <1>1 DEF Descend, TargetKeeps
  <1>7. CASE t = "_"
    BY <1>2, <1>5, <1>7 DEF ApplyTarget
  <1>8. CASE t \in {">", "<"}
    BY <1>2, <1>4, <1>8 DEF ApplyTarget
  <1>9. CASE t \in {"^", "."}
    BY <1>3, <1>5, <1>9 DEF ApplyTarget
  <1>10. CASE t \notin {"_", ">", "<", "^", "."}
    <2>1. ApplyTarget(o, t) = IF DownPanics(o.st, t) THEN Fails(o, "panic") ELSE Descend(o, t)
      BY <1>10 DEF ApplyTarget
    <2>2. QED BY <1>2, <1>6, <2>1
  <1>11. QED BY <1>7, <1>8, <1>9, <1>10

\* A page stays current in its cache, and in one with a level more.
LEMMA MappedStays ==
  ASSUME NEW c, CacheShape(c), NEW p \in Page, Mapped(p, c), NEW d \in {c, Push(c)}
  PROVE  Mapped(p, d)
  <1>1. None \notin DOMAIN p.mapped
    BY FrameDef, VmAssumption DEF Page
  <1>2. Has(c, Push(c), None)
    BY PushHas
  <1>3. Mapped(p, Push(c))
    BY <1>1, <1>2, HasMapped
  <1>4. QED BY <1>3

\* MOVE.
LEMMA MovePage ==
  ASSUME NEW h \in Home, NEW o, Good(o, h), o.err = "ok", NEW i, i.node \in Target,
         i.op = "MOVE", NEW up
  PROVE  PageStep(o, i, RunMove(o, i, up))
  <1> DEFINE m == ApplyTarget(o, i.node)
             a == AppendCode(m, up)
  <1>1. /\ Good(m, h) /\ m.pg = o.pg /\ m.mn = o.mn /\ m.b = o.b
        /\ i.node \notin {"_", "^"} => m.ca \in {o.ca, Push(o.ca)}
        /\ m.err # "ok" => m.ca = o.ca
    BY ApplyTargetGood, TargetPage DEF TargetKeeps
  <1>2. RunMove(o, i, up) = IF m.err # "ok" THEN m
                            ELSE IF CodeHere(m, up) THEN FreshPage(a)
                            ELSE Fails(m, "fail")
    BY DEF RunMove
  <1> HIDE DEF m
  <1>3. PageStep(o, i, FreshPage(a))
    BY <1>1, AppendCodeGood, FreshParts, FreshStep
  <1>4. m.err # "ok" => PageStep(o, i, m)
    BY <1>1, NoPageStep
  <1>5. PageStep(o, i, Fails(m, "fail"))
    <2> DEFINE r == Fails(m, "fail")
    <2>1. r.pg = o.pg /\ r.mn = o.mn /\ r.ca = m.ca /\ r.err = "fail"
      BY <1>1 DEF Fails, Good
    <2> HIDE DEF r
    <2>2. Bare(o) => Mapped(r.pg, r.ca)
      BY <2>1 DEF Bare, Mapped
    <2>3. Mapped(o.pg, o.ca) /\ ~LeavesPage(i) => Mapped(r.pg, r.ca)
      <3>1. ~LeavesPage(i) => r.ca \in {o.ca, Push(o.ca)}
        BY <1>1, <2>1 DEF LeavesPage
      <3>2. QED BY <2>1, <3>1, MappedStays DEF Good
    <2>4. PageStep(o, i, r)
      BY <2>1, <2>2, <2>3 DEF PageStep
    <2>5. QED BY <2>4 DEF r
  <1>6. QED BY <1>2, <1>3, <1>4, <1>5

\* CATCH keeps page and menu.
LEMMA CatchPage ==
  ASSUME NEW h \in Home, NEW o, Good(o, h), o.err = "ok", NEW i, i.node \in Target,
         i.op = "CATCH", NEW up
  PROVE  PageStep(o, i, RunCatch(o, i, up))
  <1> DEFINE m == ApplyTarget(o, i.node)
             r == RunCatch(o, i, up)
  <1>1. Good(m, h) /\ m.pg = o.pg /\ m.mn = o.mn
    BY ApplyTargetGood, TargetPage DEF TargetKeeps
  <1>2. r = IF ~MatchFlag(o.st, i.flag, i.set) THEN o
            ELSE IF m.err # "ok" THEN m
            ELSE IF CodeHere(m, up) THEN [m EXCEPT !.b = Code[Where(m.st)]]
            ELSE Fails(m, "fail")
    BY DEF RunCatch
  <1> HIDE DEF m, r
  <1>3. r.pg = o.pg /\ r.mn = o.mn
    BY <1>1, <1>2 DEF Fails, Good
  <1>4. Bare(o) => Bare(r) /\ Mapped(r.pg, r.ca)
    BY <1>3 DEF Bare, Mapped
  <1>5. LeavesPage(i)
    BY DEF LeavesPage
  <1>6. PageStep(o, i, r)
    BY <1>3, <1>4, <1>5 DEF PageStep
  <1>7. QED BY <1>6 DEF r

\* CROAK.
LEMMA CroakPage ==
  ASSUME NEW h \in Home, NEW o, Good(o, h), NEW i
  PROVE  PageStep(o, i, RunCroak(o, i))
  <1> DEFINE f == FreshPage(o)
             r == [f EXCEPT !.ca = Reset(@), !.b = <<>>]
  <1>1. Good(f, h) /\ Bare(f) /\ f.mn.items = {}
    BY FreshPageGood, FreshParts
  <1> HIDE DEF f
  <1>2. Bare(r) /\ r.mn.items = {}
    BY <1>1 DEF Bare, Good
  <1> HIDE DEF r
  <1>3. PageStep(o, i, r) /\ PageStep(o, i, o)
    BY <1>2, FreshStep, NoPageStep
  <1>4. QED BY <1>3 DEF RunCroak, r, f

\* A failing function.
LEMMA RefreshFailsPage ==
  ASSUME NEW h \in Home, NEW o, Good(o, h), NEW i, NEW x
  PROVE  PageStep(o, i, RefreshFails(o, x))
  <1> DEFINE r == RefreshFails(o, x)
  <1>1. r.pg = o.pg /\ r.mn = o.mn /\ r.b = o.b /\ r.ca = o.ca
    BY DEF RefreshFails, Good
  <1> HIDE DEF r
  <1>2. QED BY <1>1, NoPageStep DEF r

\* LOAD.
LEMMA LoadPage ==
  ASSUME NEW h \in Home, NEW o, Good(o, h), NEW i, i.sym \in Key, NEW x \in Result
  PROVE  PageStep(o, i, RunLoad(o, i, x))
  <1> DEFINE lim == i.size % U16
             c == Add(o.ca, i.sym, x.content, lim)
             r == RunLoad(o, i, x)
  <1>1. CASE FrameOf(o.ca, i.sym) # 0
    BY <1>1, NoPageStep DEF RunLoad
  <1>2. CASE FrameOf(o.ca, i.sym) = 0 /\ x.fail
    BY <1>2, RefreshFailsPage DEF RunLoad
  <1>3. CASE FrameOf(o.ca, i.sym) = 0 /\ ~x.fail
    <2>1. r.pg = o.pg /\ r.mn = o.mn /\ r.b = o.b /\ r.ca = c
      BY <1>3 DEF RunLoad, Good
    <2>2. x.content \in Value /\ CacheShape(o.ca) /\ o.pg \in Page
      BY <1>3, RefreshedGood DEF Good
    <2>3. Has(o.ca, c, None)
      BY <2>2, AddHas
    <2>4. None \notin DOMAIN o.pg.mapped
      BY <2>2, FrameDef, VmAssumption DEF Page
    <2> HIDE DEF c, r
    <2>5. Mapped(o.pg, o.ca) => Mapped(r.pg, r.ca)
      BY <2>1, <2>3, <2>4, HasMapped
    <2>6. PageStep(o, i, r)
      BY <2>1, <2>5 DEF PageStep, Bare
    <2>7. QED BY <2>6 DEF r
  <1>4. QED BY <1>1, <1>2, <1>3

\* As Mapped, but what is mapped of k may be an old value.
MappedBut(p, c, k) ==
  \A x \in DOMAIN p.mapped :
    /\ FrameOf(c, x) # 0 /\ (x # k => p.mapped[x] = Get(c, x))
    /\ x \in DOMAIN c.sizes
    /\ c.sizes[x] = 0 => p.sink = x

\* MAP reads what the cache has. A symbol that is mapped is never refused.
LEMMA MapIsCurrent ==
  ASSUME NEW h \in Home, NEW o, Good(o, h), NEW k, MappedBut(o.pg, o.ca, k)
  PROVE  Mapped(MapSym(o, k).pg, MapSym(o, k).ca)
  <1> DEFINE isSink == o.ca.sizes[k] = 0
             mapped == Put(o.pg.mapped, k, Get(o.ca, k))
             sink == IF isSink THEN k ELSE o.pg.sink
             refused == \/ FrameOf(o.ca, k) = 0 \/ k \notin DOMAIN o.ca.sizes
                        \/ isSink /\ o.pg.sink \notin {None, k}
  <1>1. o.pg \in Page /\ DOMAIN o.pg.mapped \subseteq Key /\ None \notin Key
    BY FrameDef, VmAssumption DEF Page, Good
  <1>2. CASE refused
    <2>1. MapSym(o, k) = Fails(o, "fail")
      BY <1>2 DEF MapSym
    <2>2. MapSym(o, k).pg = o.pg /\ MapSym(o, k).ca = o.ca
      BY <2>1 DEF Fails, Good
    <2>3. k \notin DOMAIN o.pg.mapped
      BY <1>2 DEF MappedBut
    <2>4. QED BY <2>2, <2>3 DEF MappedBut, Mapped
  <1>3. CASE ~refused
    <2>1. MapSym(o, k).pg = [o.pg EXCEPT !.mapped = mapped, !.sink = sink]
          /\ MapSym(o, k).ca = o.ca
      BY <1>3 DEF MapSym, Good
    <2>2. DOMAIN mapped = DOMAIN o.pg.mapped \cup {k}
          /\ \A x \in DOMAIN mapped : mapped[x] = IF x = k THEN Get(o.ca, k) ELSE o.pg.mapped[x]
      BY DEF Put
    <2>3. \A x \in DOMAIN mapped : x # k =>
            /\ FrameOf(o.ca, x) # 0 /\ mapped[x] = Get(o.ca, x) /\ x \in DOMAIN o.ca.sizes
            /\ o.ca.sizes[x] = 0 => o.pg.sink = x /\ x # None
      BY <1>1, <2>2 DEF MappedBut
    <2>4. \A x \in DOMAIN mapped : x # k /\ o.ca.sizes[x] = 0 => ~isSink /\ sink = x
      <3> HIDE DEF mapped
      <3>1. QED BY <1>3, <2>3
    <2>5. k \in DOMAIN mapped /\ mapped[k] = Get(o.ca, k) /\ (isSink => sink = k)
      BY <2>2
    <2> HIDE DEF mapped, sink
    <2>6. MapSym(o, k).pg.mapped = mapped /\ MapSym(o, k).pg.sink = sink
      BY <1>1, <2>1 DEF Page
    <2>7. \A x \in DOMAIN mapped :
            /\ FrameOf(o.ca, x) # 0 /\ mapped[x] = Get(o.ca, x) /\ x \in DOMAIN o.ca.sizes
            /\ o.ca.sizes[x] = 0 => sink = x
      BY <1>3, <2>3, <2>4, <2>5
    <2>8. QED BY <2>1, <2>6, <2>7 DEF Mapped
  <1>4. QED BY <1>2, <1>3

\* What MAP leaves alone.
LEMMA MapParts ==
  ASSUME NEW o, DOMAIN o = {"st", "ca", "pg", "mn", "b", "err"}, NEW k
  PROVE  MapSym(o, k).mn = o.mn /\ MapSym(o, k).b = o.b
  BY DEF MapSym, Fails

\* MAP.
LEMMA MapPage ==
  ASSUME NEW h \in Home, NEW o, Good(o, h), NEW i, i.op = "MAP"
  PROVE  PageStep(o, i, RunMap(o, i))
  <1> DEFINE r == MapSym(o, i.sym)
  <1>1. r.mn = o.mn /\ r.b = o.b
    BY MapParts DEF Good
  <1>2. Mapped(o.pg, o.ca) => Mapped(r.pg, r.ca)
    <2>1. Mapped(o.pg, o.ca) => MappedBut(o.pg, o.ca, i.sym)
      BY DEF Mapped, MappedBut
    <2>2. QED BY <2>1, MapIsCurrent
  <1> HIDE DEF r
  <1>3. PageStep(o, i, r)
    BY <1>1, <1>2 DEF PageStep
  <1>4. QED BY <1>3 DEF RunMap, r

\* RELOAD updates the cache, and then maps.
LEMMA ReloadPage ==
  ASSUME NEW h \in Home, NEW o, Good(o, h), NEW i, i.op = "RELOAD", NEW x \in Result
  PROVE  PageStep(o, i, RunReload(o, i, x))
  <1> DEFINE c == Update(o.ca, i.sym, x.content)
             s == Refreshed(o.st, x)
             u == [o EXCEPT !.st = s, !.ca = c]
             r == MapSym(u, i.sym)
  <1>1. CASE x.fail
    BY <1>1, RefreshFailsPage DEF RunReload
  <1>2. CASE ~x.fail
    <2>1. /\ s \in StateType /\ s.path = o.st.path /\ s.code = <<>>
          /\ "WAIT" \notin s.flags /\ x.content \in Value
      BY <1>2, RefreshedGood
    <2>2. /\ CacheShape(c) /\ Len(c.frames) = Len(o.ca.frames)
          /\ \A j \in DOMAIN o.ca.frames : DOMAIN c.frames[j] = DOMAIN o.ca.frames[j]
      BY <2>1, UpdateFrames DEF Good
    <2>2a. /\ Has(o.ca, c, i.sym) /\ FrameOf(c, i.sym) = FrameOf(o.ca, i.sym)
           /\ c.sizes = o.ca.sizes
      BY <2>1, UpdateHas DEF Good
    <2>3. DOMAIN c.frames = DOMAIN o.ca.frames
      BY <2>2, Numbered DEF Good
    <2> HIDE DEF c, s
    <2>4. Scoped(s.path, c.frames, h)
      <3> DEFINE fs == o.ca.frames
                 gs == c.frames
      <3>1. Scoped(o.st.path, fs, h) /\ s.path = o.st.path
        BY <2>1 DEF Good
      <3>2. /\ Len(gs) = Len(fs) /\ DOMAIN gs = DOMAIN fs
            /\ \A j \in DOMAIN fs : DOMAIN gs[j] = DOMAIN fs[j]
        BY <2>2, <2>3
      <3> HIDE DEF fs, gs
      <3>3. Scoped(o.st.path, gs, h)
        BY ONLY <3>1, <3>2 DEF Scoped
      <3>4. QED BY <3>1, <3>3 DEF gs
    <2>5. Good(u, h) /\ u.pg = o.pg /\ u.mn = o.mn /\ u.b = o.b /\ u.ca = c
      BY <2>1, <2>2, <2>4 DEF Good
    <2>6. RunReload(o, i, x) = r
      BY <1>2 DEF RunReload, s, c
    <2> HIDE DEF u
    <2>7. Mapped(o.pg, o.ca) => MappedBut(u.pg, u.ca, i.sym)
      BY <2>5, <2>2a DEF Mapped, MappedBut, Has
    <2>8. Mapped(o.pg, o.ca) => Mapped(r.pg, r.ca)
      BY <2>5, <2>7, MapIsCurrent
    <2>9. r.mn = o.mn /\ r.b = o.b
      BY <2>5, MapParts DEF Good
    <2> HIDE DEF r
    <2>10. PageStep(o, i, r)
      BY <2>8, <2>9 DEF PageStep
    <2>11. QED BY <2>6, <2>10
  <1>3. QED BY <1>1, <1>2

\* MOUT, MNEXT, MPREV and MSINK.
LEMMA MenuPage ==
  ASSUME NEW h \in Home, NEW o, Good(o, h), NEW i
  PROVE  PageStep(o, i, RunMenu(o, i))
  <1> DEFINE r == RunMenu(o, i)
  <1>1. r.pg = o.pg /\ r.ca = o.ca /\ r.b = o.b
    BY DEF RunMenu, Good
  <1>2. \/ r.mn.items = o.mn.items
        \/ i.op = "MOUT" /\ r.mn.items = o.mn.items \cup {i.sel}
    BY DEF RunMenu, Good, Menu
  <1> HIDE DEF r
  <1>3. PageStep(o, i, r)
    BY <1>1, <1>2 DEF PageStep, Bare
  <1>4. QED BY <1>3 DEF r

\* INCMP goes on, or goes to another page.
LEMMA InCmpPage ==
  ASSUME NEW h \in Home, NEW o, Good(o, h), o.err = "ok", NEW i, i.node \in Target, NEW up
  PROVE  PageStep(o, i, RunInCmp(o, i, up))
  <1> DEFINE s == IF Have(o) THEN o ELSE [o EXCEPT !.st = SetFlag(o.st, "READIN")]
             f == (s.st.flags \cup {"INMATCH"}) \ {"READIN"}
             t == [s EXCEPT !.st = [s.st EXCEPT !.flags = f]]
             m == ApplyTarget(t, i.node)
  <1>1. {"READIN", "INMATCH"} \subseteq Flag
    BY DEF Flag, BaseFlag
  <1>2. Good(s, h)
    BY <1>1, FlagGood
  <1>3. s.pg = o.pg /\ s.mn = o.mn /\ s.ca = o.ca /\ s.b = o.b /\ s.err = "ok"
    BY DEF Good
  <1> HIDE DEF s
  <1>4. s.st \in StateType /\ s.st.flags \in SUBSET Flag /\ s.st.code = <<>>
        /\ "WAIT" \notin s.st.flags
    BY <1>2 DEF Good, StateType
  <1>5. f \in SUBSET Flag /\ "WAIT" \notin f
    BY <1>1, <1>4
  <1> HIDE DEF f
  <1>6. /\ [s.st EXCEPT !.flags = f] \in StateType
        /\ [s.st EXCEPT !.flags = f].path = s.st.path
        /\ [s.st EXCEPT !.flags = f].code = <<>>
        /\ "WAIT" \notin [s.st EXCEPT !.flags = f].flags
    BY <1>4, <1>5, FlagsOnly
  <1>7. Good(t, h)
    BY <1>2, <1>6, PartsGood
  <1>8. t.pg = o.pg /\ t.mn = o.mn /\ t.ca = o.ca /\ t.b = o.b /\ t.err = "ok"
    BY <1>2, <1>3 DEF Good
  <1>9. Follow(s, i, up) = IF m.err = "index" THEN [Ok(m) EXCEPT !.st = SetFlag(@, "READIN")]
                           ELSE IF m.err # "ok" THEN m
                           ELSE AppendCode(FreshPage(m), up)
    BY DEF Follow, f
  <1> HIDE DEF t
  <1>10. /\ Good(m, h) /\ m.pg = o.pg /\ m.mn = o.mn /\ m.b = o.b
         /\ m.err # "ok" => m.ca = o.ca
    BY <1>7, <1>8, ApplyTargetGood, TargetPage DEF TargetKeeps
  <1> HIDE DEF m
  <1>11. m.err = "index" => PageStep(o, i, [Ok(m) EXCEPT !.st = SetFlag(@, "READIN")])
    <2> DEFINE r == [Ok(m) EXCEPT !.st = SetFlag(@, "READIN")]
    <2>1. r.pg = m.pg /\ r.mn = m.mn /\ r.b = m.b /\ r.ca = m.ca
      BY <1>10 DEF Ok, Good
    <2> HIDE DEF r
    <2>2. m.err = "index" => PageStep(o, i, r)
      BY <1>10, <2>1, NoPageStep
    <2>3. QED BY <2>2 DEF r
  <1>12. m.err # "ok" => PageStep(o, i, m)
    BY <1>10, NoPageStep
  <1>13. PageStep(o, i, AppendCode(FreshPage(m), up))
    <2> DEFINE q == FreshPage(m)
               r == AppendCode(q, up)
    <2>1. Bare(q) /\ q.mn.items = {} /\ Good(q, h)
      BY <1>10, FreshParts, FreshPageGood
    <2> HIDE DEF q
    <2>2. r.pg = q.pg /\ r.mn = q.mn
      BY <2>1 DEF AppendCode, Fails, Good
    <2> HIDE DEF r
    <2>3. PageStep(o, i, r)
      BY <2>1, <2>2, FreshStep DEF Bare
    <2>4. QED BY <2>3 DEF r, q
  <1>14. PageStep(o, i, Follow(s, i, up))
    BY <1>9, <1>11, <1>12, <1>13
  <1>15. PageStep(o, i, s) /\ PageStep(o, i, o)
    BY <1>3, NoPageStep
  <1>16. PageStep(o, i, Fails(s, "fail"))
    <2> DEFINE r == Fails(s, "fail")
    <2>1. r.pg = s.pg /\ r.mn = s.mn /\ r.b = s.b /\ r.ca = s.ca
      BY <1>2 DEF Fails, Good
    <2> HIDE DEF r
    <2>2. PageStep(o, i, r)
      BY <1>3, <2>1, NoPageStep
    <2>3. QED BY <2>2 DEF r
  <1>17. RunInCmp(o, i, up) \in {o, Fails(s, "fail"), Follow(s, i, up), s}
    BY DEF RunInCmp, s
  <1>18. QED BY <1>14, <1>15, <1>16, <1>17

\* The checks after an instruction leave the page but for the error, and the menu.
LEMMA CheckedPage ==
  ASSUME NEW h \in Home, NEW o, Good(o, h)
  PROVE  /\ Checked(o).pg.mapped = o.pg.mapped /\ Checked(o).pg.sink = o.pg.sink
         /\ Checked(o).mn = o.mn
  <1> DEFINE e == ErrCheck(o)
             d == DeadCheck(e)
  <1>1. DOMAIN o = {"st", "ca", "pg", "mn", "b", "err"} /\ o.pg \in Page
    BY DEF Good
  <1>2. /\ DOMAIN e = DOMAIN o /\ e.mn = o.mn /\ e.pg \in {o.pg, [o.pg EXCEPT !.err = TRUE]}
    BY <1>1 DEF ErrCheck, Ok
  <1>3. /\ [o.pg EXCEPT !.err = TRUE] \in Page
        /\ [o.pg EXCEPT !.err = TRUE].mapped = o.pg.mapped
        /\ [o.pg EXCEPT !.err = TRUE].sink = o.pg.sink
    BY <1>1 DEF Page
  <1> HIDE DEF e
  <1>4. e.pg \in Page /\ e.pg.mapped = o.pg.mapped /\ e.pg.sink = o.pg.sink
    BY <1>1, <1>2, <1>3
  <1>5. d.mn = e.mn /\ d.pg \in {e.pg, [e.pg EXCEPT !.err = TRUE]}
    BY <1>1, <1>2 DEF DeadCheck, Fails
  <1>6. /\ [e.pg EXCEPT !.err = TRUE].mapped = e.pg.mapped
        /\ [e.pg EXCEPT !.err = TRUE].sink = e.pg.sink
    BY <1>4 DEF Page
  <1> HIDE DEF d
  <1>7. d.pg.mapped = o.pg.mapped /\ d.pg.sink = o.pg.sink /\ d.mn = o.mn
    BY <1>2, <1>4, <1>5, <1>6
  <1>8. Checked(o) \in {o, e, d}
    BY DEF Checked, e, d
  <1>9. QED BY <1>2, <1>4, <1>7, <1>8

\* Every instruction but HALT is a turn that does this to page and menu.
LEMMA InstructionPage ==
  ASSUME IInv, VmStep, ~Bail, ~ExecHalt
  PROVE  \E o : Good(o, Homes) /\ Turn(o) /\ PageStep(Current, Instr, o)
  <1>1. run.pc = "on" /\ run.b # <<>>
    BY DEF VmStep, Executing, ExecMove, ExecCatch, ExecCroak, ExecLoad, ExecReload,
           ExecMap, ExecInCmp, ExecMenu, ExecHalt
  <1>2. Homes \in Home /\ Good(Current, Homes) /\ Instr \in Instruction
        /\ Current.ca = ca /\ Current.st.path = st.path
    BY <1>1, CurrentGood
  <1>3. Current.err = "ok"
    BY DEF Current, LoopHead, Wake
  <1>4. /\ Instr.op \in {"MOVE", "CATCH", "INCMP"} => Instr.node \in Target
        /\ Instr.op \in {"LOAD", "RELOAD", "MAP"} => Instr.sym \in Key
        /\ Instr.op \in {"MOUT", "MNEXT", "MPREV"} => Instr.sel \in Selector
    BY <1>2, Parameters
  <1> DEFINE goal == \E o : Good(o, Homes) /\ Turn(o) /\ PageStep(Current, Instr, o)
  <1>5. ASSUME NEW o, Good(o, Homes), Turn(o), PageStep(Current, Instr, o) PROVE goal
    BY <1>5
  <1> HIDE DEF goal
  <1>6. ASSUME ExecMove PROVE goal
    <2>1. PICK up \in BOOLEAN : Turn(RunMove(Current, Instr, up))
      BY <1>6 DEF ExecMove
    <2>2. Instr.op = "MOVE"
      BY <1>6 DEF ExecMove, Executing
    <2>3. Good(RunMove(Current, Instr, up), Homes)
      BY <1>2, <1>4, <2>2, MoveGood
    <2>4. PageStep(Current, Instr, RunMove(Current, Instr, up))
      BY <1>2, <1>3, <1>4, <2>2, MovePage
    <2>5. QED BY <1>5, <2>1, <2>3, <2>4
  <1>7. ASSUME ExecCatch PROVE goal
    <2>1. PICK up \in BOOLEAN : Turn(RunCatch(Current, Instr, up))
      BY <1>7 DEF ExecCatch
    <2>2. Instr.op = "CATCH"
      BY <1>7 DEF ExecCatch, Executing
    <2>3. Good(RunCatch(Current, Instr, up), Homes)
      BY <1>2, <1>4, <2>2, CatchGood
    <2>4. PageStep(Current, Instr, RunCatch(Current, Instr, up))
      BY <1>2, <1>3, <1>4, <2>2, CatchPage
    <2>5. QED BY <1>5, <2>1, <2>3, <2>4
  <1>8. ASSUME ExecCroak PROVE goal
    <2>1. Turn(RunCroak(Current, Instr))
      BY <1>8 DEF ExecCroak
    <2>2. Good(RunCroak(Current, Instr), Homes) /\ PageStep(Current, Instr, RunCroak(Current, Instr))
      BY <1>2, CroakGood, CroakPage
    <2>3. QED BY <1>5, <2>1, <2>2
  <1>9. ASSUME ExecLoad PROVE goal
    <2>1. PICK r \in Results(Instr.sym) : Turn(RunLoad(Current, Instr, r))
      BY <1>9 DEF ExecLoad
    <2>2. Instr.sym \in Key /\ r \in Result
      BY <1>4, <1>9, ResultsAreResults DEF ExecLoad, Executing
    <2>3. FrameOf(Current.ca, Instr.sym) = 0 => Homes[Instr.sym] = Current.st.path
      <3>1. FrameOf(ca, Instr.sym) = 0 => Instr.sym \notin Cached(ca)
        BY FrameOfFinds DEF IInv, Cached
      <3>2. Cached(ca) = DOMAIN home
        BY DEF IInv
      <3>3. QED BY <1>2, <2>2, <3>1, <3>2 DEF Homes
    <2>4. Good(RunLoad(Current, Instr, r), Homes)
      BY <1>2, <2>2, <2>3, LoadGood
    <2>5. PageStep(Current, Instr, RunLoad(Current, Instr, r))
      BY <1>2, <2>2, LoadPage
    <2>6. QED BY <1>5, <2>1, <2>4, <2>5
  <1>10. ASSUME ExecReload PROVE goal
    <2>1. PICK r \in Results(Instr.sym) : Turn(RunReload(Current, Instr, r))
      BY <1>10 DEF ExecReload
    <2>2. Instr.op = "RELOAD" /\ r \in Result
      BY <1>10, ResultsAreResults DEF ExecReload, Executing
    <2>3. Good(RunReload(Current, Instr, r), Homes)
      BY <1>2, <2>2, ReloadGood
    <2>4. PageStep(Current, Instr, RunReload(Current, Instr, r))
      BY <1>2, <2>2, ReloadPage
    <2>5. QED BY <1>5, <2>1, <2>3, <2>4
  <1>11. ASSUME ExecMap PROVE goal
    <2>1. Instr.op = "MAP" /\ Turn(RunMap(Current, Instr))
      BY <1>11 DEF ExecMap, Executing
    <2>2. Good(RunMap(Current, Instr), Homes)
      BY <1>2, MapGood DEF RunMap
    <2>3. PageStep(Current, Instr, RunMap(Current, Instr))
      BY <1>2, <2>1, MapPage
    <2>4. QED BY <1>5, <2>1, <2>2, <2>3
  <1>12. ASSUME ExecInCmp PROVE goal
    <2>1. PICK up \in BOOLEAN : Turn(RunInCmp(Current, Instr, up))
      BY <1>12 DEF ExecInCmp
    <2>2. Instr.op = "INCMP"
      BY <1>12 DEF ExecInCmp, Executing
    <2>3. Good(RunInCmp(Current, Instr, up), Homes)
      BY <1>2, <1>4, <2>2, InCmpGood
    <2>4. PageStep(Current, Instr, RunInCmp(Current, Instr, up))
      BY <1>2, <1>3, <1>4, <2>2, InCmpPage
    <2>5. QED BY <1>5, <2>1, <2>3, <2>4
  <1>13. ASSUME ExecMenu PROVE goal
    <2>1. Instr.op \in {"MOUT", "MNEXT", "MPREV", "MSINK"} /\ Turn(RunMenu(Current, Instr))
      BY <1>13 DEF ExecMenu
    <2>2. Good(RunMenu(Current, Instr), Homes) /\ PageStep(Current, Instr, RunMenu(Current, Instr))
      BY <1>2, <1>4, <2>1, MenuGood, MenuPage
    <2>3. QED BY <1>5, <2>1, <2>2
  <1>14. goal
    BY <1>6, <1>7, <1>8, <1>9, <1>10, <1>11, <1>12, <1>13 DEF VmStep
  <1>15. QED BY <1>14 DEF goal

\* A step to which InstructionPage applies, on the variables.
PageTurn ==
  \E o : /\ PageStep(Current, Instr, o)
         /\ ca' = o.ca /\ pg'.mapped = o.pg.mapped /\ pg'.sink = o.pg.sink /\ mn' = o.mn
         /\ "WAIT" \notin st'.flags
         /\ run'.pc = "on" => /\ run'.err = "ok" /\ run'.b # <<>>
                              /\ run'.b = <<MOVE(Catch)>> \/ (o.err = "ok" /\ run'.b = o.b)

\* Every step that executes an instruction other than HALT is one.
LEMMA VmStepPage ==
  ASSUME IInv, VmStep, ~Bail, ~ExecHalt
  PROVE  PageTurn
  <1>1. run.pc = "on" /\ run.b # <<>>
    BY StepShape
  <1>2. PICK o : Good(o, Homes) /\ Turn(o) /\ PageStep(Current, Instr, o)
    BY InstructionPage
  <1> DEFINE c == Checked(o)
             pc == Pc(c)
             toCatch == <<MOVE(Catch)>>
  <1>3. Becomes(c, pc) /\ Homes \in Home
    BY <1>1, <1>2, CurrentGood DEF Turn
  <1>4. /\ c.ca = o.ca /\ c.pg.mapped = o.pg.mapped /\ c.pg.sink = o.pg.sink /\ c.mn = o.mn
        /\ "WAIT" \notin c.st.flags
        /\ c.err = "ok" => c.b = toCatch \/ (o.err = "ok" /\ c.b = o.b)
    BY <1>2, <1>3, CheckedKeeps, CheckedGood, CheckedPage DEF Good
  <1> HIDE DEF c, toCatch
  <1>5. pc = "on" => c.err = "ok" /\ c.b # <<>>
    BY DEF Pc
  <1> HIDE DEF pc
  <1>6. /\ st' = c.st /\ ca' = c.ca /\ pg' = c.pg /\ mn' = c.mn
        /\ run' = [pc |-> pc, b |-> c.b, err |-> c.err]
    BY <1>3 DEF Becomes
  <1>7. run'.pc = "on" => /\ run'.err = "ok" /\ run'.b # <<>>
                          /\ run'.b = toCatch \/ (o.err = "ok" /\ run'.b = o.b)
    BY <1>4, <1>5, <1>6
  <1>8. QED BY <1>2, <1>4, <1>6, <1>7 DEF PageTurn, toCatch

\* What an instruction finds: after a HALT an empty page and menu.
LEMMA CurrentPage ==
  ASSUME IInv
  PROVE  /\ Current.ca = ca /\ Current.b = Tail(run.b) /\ Current.err = "ok"
         /\ "WAIT" \in st.flags => Bare(Current) /\ Current.mn.items = {}
         /\ "WAIT" \notin st.flags => Current.pg = pg /\ Current.mn = mn
  <1>1. st \in StateType /\ pg \in Page /\ mn \in Menu
    BY DEF IInv, TypeOK
  <1>2. /\ Current.ca = ca /\ Current.b = Tail(run.b) /\ Current.err = "ok"
        /\ Current.pg = IF "WAIT" \in st.flags THEN PageReset(pg) ELSE pg
        /\ Current.mn = IF "WAIT" \in st.flags THEN MenuReset(mn) ELSE mn
    BY <1>1 DEF Current, LoopHead, Wake, StateType
  <1>3. MenuReset(mn).items = {}
    BY <1>1 DEF MenuReset, Menu
  <1>4. DOMAIN PageReset(pg).mapped = {}
    BY <1>1, NewMapIsFrame DEF PageReset, Page
  <1>5. QED BY <1>2, <1>3, <1>4 DEF Bare

\* The code after a step is made of what is left of it, and of that of a node.
LEMMA CodeParts ==
  ASSUME CodeStep, run'.err = "ok"
  PROVE  \/ run'.b \in {<<>>, <<MOVE(Catch)>>, Tail(run.b)}
         \/ \E n \in DOMAIN Code : run'.b \in {Code[n], Tail(run.b) \o Code[n]}
  BY DEF CodeStep

\* The ways to _catch and to the entry point map nothing and show no menu.
LEMMA WaysOnly ==
  /\ ShowsMapped(<<>>) /\ AnswersMenu(<<>>)
  /\ \A n : ShowsMapped(<<MOVE(n)>>) /\ AnswersMenu(<<MOVE(n)>>)
  <1>1. ShowsMapped(<<>>) /\ AnswersMenu(<<>>)
    BY DEF ShowsMapped, AnswersMenu
  <1>2. ASSUME NEW n PROVE ShowsMapped(<<MOVE(n)>>) /\ AnswersMenu(<<MOVE(n)>>)
    <2> DEFINE c == <<MOVE(n)>>
    <2>1. DOMAIN c = {1} /\ c[1] = MOVE(n)
      OBVIOUS
    <2>2. MOVE(n).op = "MOVE"
      BY DEF MOVE
    <2> HIDE DEF c
    <2>3. \A i \in DOMAIN c : c[i].op = "MOVE"
      BY <2>1, <2>2
    <2>4. ShowsMapped(c) /\ AnswersMenu(c)
      BY <2>3 DEF ShowsMapped, AnswersMenu
    <2>5. QED BY <2>4 DEF c
  <1>3. QED BY <1>1, <1>2

\* The way to _catch is one instruction that does not lead up.
LEMMA WayToCatch ==
  LET w == <<MOVE(Catch)>> IN
  Tail(w) = <<>> /\ Head(w).op = "MOVE" /\ ~LeavesPage(Head(w))
  <1> DEFINE w == <<MOVE(Catch)>>
  <1>1. Tail(w) = <<>> /\ Head(w) = MOVE(Catch)
    OBVIOUS
  <1>2. MOVE(Catch).op = "MOVE" /\ MOVE(Catch).node = Catch
    BY DEF MOVE
  <1>3. Catch \notin {"_", "^"}
    BY VmAssumption
  <1> HIDE DEF w
  <1>4. Tail(w) = <<>> /\ Head(w).op = "MOVE" /\ ~LeavesPage(Head(w))
    BY <1>1, <1>2, <1>3 DEF LeavesPage
  <1>5. QED BY <1>4 DEF w

\* What is executed is the first instruction.
LEMMA FirstOfCode ==
  ASSUME IInv, run.b # <<>>
  PROVE  /\ run.b \in Seq(Instruction) /\ 1 \in DOMAIN run.b /\ run.b[1] = Instr
         /\ Instr = Head(run.b)
  <1>1. run.b \in Seq(Instruction)
    BY DEF IInv, TypeOK
  <1>2. QED BY <1>1, TailOfCode DEF Instr

-----------------------------------------------------------------------------
(* What is mapped.                                                         *)

\* Of programs whose nodes show what they map.
ShowsAll == \A n \in DOMAIN Code : ShowsMapped(Code[n])

\* What is mapped is current, and until the page is shown or cleared the code goes on
\* to the HALT that shows it, or to _catch.
MapInv ==
  /\ ShowsMapped(st.code)
  /\ run.err = "ok" => ShowsMapped(run.b)
  /\ run.pc = "on" => run.err = "ok"
  /\ Mapped(pg, ca)
  /\ run.pc = "on" => \/ "WAIT" \in st.flags \/ DOMAIN pg.mapped = {}
                      \/ run.b = <<MOVE(Catch)>> \/ Shown(run.b, 0)
  /\ run.pc = "off" /\ st.code # <<>> => "WAIT" \in st.flags \/ DOMAIN pg.mapped = {}

\* The code that a step leads to shows what it maps.
LEMMA CodeStepShows ==
  ASSUME ShowsAll, CodeStep, run.b \in Seq(Instruction), run.b # <<>>, ShowsMapped(run.b),
         run'.err = "ok"
  PROVE  ShowsMapped(run'.b)
  <1> DEFINE t == Tail(run.b)
  <1>1. t \in Seq(Instruction) /\ ShowsMapped(t)
    BY TailOfCode, TailShows
  <1> HIDE DEF t
  <1>2. ASSUME NEW n \in DOMAIN Code PROVE ShowsMapped(Code[n]) /\ ShowsMapped(t \o Code[n])
    <2>1. Code[n] \in Seq(Instruction) /\ ShowsMapped(Code[n])
      BY VmAssumption DEF ShowsAll
    <2>2. QED BY <1>1, <2>1, ConcatShows
  <1>3. \/ run'.b \in {<<>>, <<MOVE(Catch)>>, t}
        \/ \E n \in DOMAIN Code : run'.b \in {Code[n], t \o Code[n]}
    BY CodeParts DEF t
  <1>4. QED BY <1>1, <1>2, <1>3, WaysOnly

\* A step keeps what is mapped current.
LEMMA VmStepMap ==
  ASSUME ShowsAll, IInv, MapInv, VmStep
  PROVE  MapInv'
  <1>1. run.pc = "on"
    BY StepShape
  <1>2. CASE Bail
    BY <1>2, WaysOnly DEF Bail, MapInv
  <1>3. CASE ~Bail
    <2>1. /\ run.b # <<>> /\ CodeStep /\ st'.code = <<>> /\ (run'.pc = "on" => run'.err = "ok")
      BY <1>3, StepShape
    <2>2. /\ run.b \in Seq(Instruction) /\ 1 \in DOMAIN run.b /\ run.b[1] = Instr
          /\ Instr = Head(run.b) /\ ShowsMapped(run.b)
      BY <1>1, <2>1, FirstOfCode DEF MapInv
    <2>3. run'.err = "ok" => ShowsMapped(run'.b)
      BY <2>1, <2>2, CodeStepShows
    <2>4. ShowsMapped(st'.code)
      BY <2>1, WaysOnly
    <2>5. SUFFICES /\ run'.pc \in {"on", "ret", "panic"}
                   /\ Mapped(pg', ca')
                   /\ run'.pc = "on" => \/ DOMAIN pg'.mapped = {}
                                        \/ run'.b = <<MOVE(Catch)>> \/ Shown(run'.b, 0)
      BY <2>1, <2>3, <2>4 DEF MapInv
    <2>6. Mapped(Current.pg, Current.ca)
      <3>1. Mapped(pg, ca)
        BY DEF MapInv
      <3>2. QED BY <3>1, CurrentPage DEF Mapped, Bare
    <2>7. CASE ExecHalt
      <3>1. /\ run'.pc = "ret" /\ ca' = Current.ca /\ pg' = Current.pg
        <4>1. Good(Current, Homes)
          BY <1>1, <2>1, CurrentGood
        <4>2. QED BY <2>7, <4>1 DEF ExecHalt, Becomes, Good
      <3>2. QED BY <2>6, <3>1
    <2>8. CASE ~ExecHalt
      <3>1. PageTurn /\ Instr.op # "HALT"
        <4>1. CASE ExecInCmp
          BY <1>3, <2>8, <4>1, VmStepPage DEF ExecInCmp, Executing
        <4>2. CASE ~ExecInCmp
          BY <1>3, <2>8, <4>2, VmStepPage, InstructionSteady
        <4>3. QED BY <4>1, <4>2
      <3>2. PICK o :
              /\ PageStep(Current, Instr, o)
              /\ ca' = o.ca /\ pg'.mapped = o.pg.mapped /\ pg'.sink = o.pg.sink
              /\ run'.pc = "on" => /\ run'.b # <<>>
                                   /\ run'.b = <<MOVE(Catch)>> \/ (o.err = "ok" /\ run'.b = o.b)
        BY <3>1 DEF PageTurn
      <3>3. Bare(Current) \/ run.b = <<MOVE(Catch)>> \/ Shown(run.b, 0)
        BY <1>1, CurrentPage DEF MapInv, Bare
      <3>4. Bare(Current) \/ ~LeavesPage(Instr)
        BY <2>1, <2>2, <3>1, <3>3, WayToCatch, TailShown
      <3>5. Mapped(pg', ca')
        <4>1. Mapped(o.pg, o.ca)
          BY <2>6, <3>2, <3>4 DEF PageStep
        <4>2. QED BY <3>2, <4>1 DEF Mapped
      <3>6. ASSUME run'.pc = "on", run'.b # <<MOVE(Catch)>>
            PROVE  DOMAIN pg'.mapped = {} \/ Shown(run'.b, 0)
        <4>1. o.err = "ok" /\ run'.b = o.b /\ run'.b # <<>>
          BY <3>2, <3>6
        <4>2. \/ Bare(o)
              \/ o.b = Tail(run.b) /\ (Instr.op \in {"MAP", "RELOAD"} \/ ~Bare(Current))
              \/ Instr.op = "CATCH" /\ ~Bare(Current)
          BY <3>2, <4>1, CurrentPage DEF PageStep
        <4>3. CASE Bare(o)
          BY <3>2, <4>3 DEF Bare
        <4>4. CASE o.b = Tail(run.b) /\ Instr.op \in {"MAP", "RELOAD"}
          <5>1. Shown(run.b, 0 + 1)
            BY <2>2, <4>4 DEF ShowsMapped
          <5>2. QED BY <2>1, <2>2, <4>1, <4>4, <5>1, TailShown
        <4>5. CASE o.b = Tail(run.b) /\ ~Bare(Current)
          <5>1. run.b # <<MOVE(Catch)>>
            BY <4>1, <4>5, WayToCatch
          <5>2. QED BY <2>1, <2>2, <3>1, <3>3, <4>1, <4>5, <5>1, TailShown
        <4>6. CASE Instr.op = "CATCH" /\ ~Bare(Current)
          BY <3>4, <4>6 DEF LeavesPage
        <4>7. QED BY <4>2, <4>3, <4>4, <4>5, <4>6
      <3>7. run'.pc \in {"on", "ret", "panic"}
        <4>1. PICK q : Turn(q)
          BY <1>3, <2>8, InstructionPage
        <4>2. QED BY <4>1 DEF Turn, Becomes, Pc
      <3>8. QED BY <3>5, <3>6, <3>7
    <2>9. QED BY <2>7, <2>8
  <1>4. QED BY <1>2, <1>3

\* Inputs and returns leave the page.
LEMMA NextMap ==
  ASSUME ShowsAll, IInv, MapInv, [Next]_vars
  PROVE  MapInv'
  <1>1. ASSUME NEW in \in Input, Exec(in) PROVE MapInv'
    <2>1. /\ st' = [st EXCEPT !.input = in, !.code = <<>>] /\ UNCHANGED <<ca, pg>>
          /\ run' = [pc |-> "on", b |-> st.code, err |-> "ok"] /\ st \in StateType
          /\ run.pc = "off" /\ st.code # <<>>
      BY <1>1 DEF Exec, IInv, TypeOK
    <2>2. st'.code = <<>> /\ st'.flags = st.flags
      BY <2>1 DEF StateType
    <2>3. QED BY <2>1, <2>2, WaysOnly DEF MapInv
  <1>2. CASE Return
    <2>1. /\ run.pc = "ret" /\ run' = Idle /\ UNCHANGED <<ca, pg>>
          /\ st' = IF run.err = "ok" /\ ~Terminated THEN [st EXCEPT !.code = run.b] ELSE st
          /\ st \in StateType
      BY <1>2 DEF Return, IInv, TypeOK
    <2>2. st.code = <<>> /\ (run.err = "ok" /\ ~Terminated => "WAIT" \in st.flags)
      BY <2>1 DEF IInv, Flow, YieldReason
    <2>3. /\ st'.flags = st.flags
          /\ st'.code = <<>> \/ (st'.code = run.b /\ run.err = "ok" /\ "WAIT" \in st.flags)
      BY <2>1, <2>2 DEF StateType
    <2>4. QED BY <2>1, <2>3, WaysOnly DEF MapInv, Idle
  <1>3. CASE UNCHANGED vars
    BY <1>3 DEF vars, MapInv
  <1>4. QED BY <1>1, <1>2, <1>3, VmStepMap DEF Next

\* Nothing is mapped at first.
LEMMA InitMap == Init => MapInv
  <1> SUFFICES ASSUME Init PROVE MapInv
    OBVIOUS
  <1>1. st.code = <<MOVE(Root)>> /\ run = Idle /\ DOMAIN pg.mapped = {}
    BY NewMapIsFrame DEF Init, NewState, NewPage
  <1>2. QED BY <1>1, WaysOnly DEF MapInv, Idle, Mapped

\* render.Page: what is mapped is in the cache, with the value the page holds, in every
\* program whose nodes show what they map: a HALT follows before a CATCH or a move up,
\* which leave what is mapped behind.
THEOREM MappedStaysCurrent ==
  ASSUME ShowsAll
  PROVE  Spec => []MappedIsCurrent
  <1>1. IInv /\ MapInv /\ [Next]_vars => (IInv /\ MapInv)'
    BY NextIInv, NextMap
  <1>2. IInv /\ MapInv => MappedIsCurrent
    <2>1. IInv => \A k : FrameOf(ca, k) # 0 => k \in Cached(ca)
      BY FrameOfFinds DEF IInv, Cached
    <2>2. QED BY <2>1 DEF MapInv, Mapped, MappedIsCurrent
  <1>3. QED BY InitIInv, InitMap, <1>1, <1>2, PTL DEF Spec

-----------------------------------------------------------------------------
(* What the menu offers.                                                   *)

\* Of programs whose nodes have an INCMP for each menu entry.
AnswersAll == \A n \in DOMAIN Code : AnswersMenu(Code[n])

\* Every menu entry has its INCMP behind the HALT that the code goes on to, unless it
\* goes on to _catch; at a HALT, in the code that is left.
AnsInv ==
  /\ AnswersMenu(st.code)
  /\ run.err = "ok" => AnswersMenu(run.b)
  /\ run.pc = "on" => run.err = "ok"
  /\ run.pc = "on" => \/ "WAIT" \in st.flags \/ run.b = <<MOVE(Catch)>>
                      \/ \A sel \in mn.items : Answered(run.b, 0, sel)
  /\ run.pc = "off" /\ st.code # <<>> => "WAIT" \in st.flags \/ mn.items = {}
  /\ MenuAnswerable

\* The code that a step leads to answers its menus.
LEMMA CodeStepAnswers ==
  ASSUME AnswersAll, CodeStep, run.b \in Seq(Instruction), run.b # <<>>, AnswersMenu(run.b),
         run'.err = "ok"
  PROVE  AnswersMenu(run'.b)
  <1> DEFINE t == Tail(run.b)
  <1>1. t \in Seq(Instruction) /\ AnswersMenu(t)
    BY TailOfCode, TailAnswers
  <1> HIDE DEF t
  <1>2. ASSUME NEW n \in DOMAIN Code PROVE AnswersMenu(Code[n]) /\ AnswersMenu(t \o Code[n])
    <2>1. Code[n] \in Seq(Instruction) /\ AnswersMenu(Code[n])
      BY VmAssumption DEF AnswersAll
    <2>2. QED BY <1>1, <2>1, ConcatAnswers
  <1>3. \/ run'.b \in {<<>>, <<MOVE(Catch)>>, t}
        \/ \E n \in DOMAIN Code : run'.b \in {Code[n], t \o Code[n]}
    BY CodeParts DEF t
  <1>4. QED BY <1>1, <1>2, <1>3, WaysOnly

\* A step keeps the menu answered.
LEMMA VmStepAns ==
  ASSUME AnswersAll, IInv, AnsInv, VmStep
  PROVE  AnsInv'
  <1>1. run.pc = "on"
    BY StepShape
  <1>2. CASE Bail
    <2>1. "WAIT" \notin st.flags
      BY <1>2 DEF Bail, IInv, Flow
    <2>2. QED BY <1>2, <2>1, WaysOnly DEF Bail, AnsInv, MenuAnswerable
  <1>3. CASE ~Bail
    <2>1. /\ run.b # <<>> /\ CodeStep /\ st'.code = <<>> /\ (run'.pc = "on" => run'.err = "ok")
      BY <1>3, StepShape
    <2>2. /\ run.b \in Seq(Instruction) /\ 1 \in DOMAIN run.b /\ run.b[1] = Instr
          /\ Instr = Head(run.b) /\ AnswersMenu(run.b)
      BY <1>1, <2>1, FirstOfCode DEF AnsInv
    <2>3. run'.err = "ok" => AnswersMenu(run'.b)
      BY <2>1, <2>2, CodeStepAnswers
    <2>4. AnswersMenu(st'.code)
      BY <2>1, WaysOnly
    <2>5. SUFFICES /\ run'.pc \in {"on", "ret", "panic"}
                   /\ run'.pc = "on" => \/ run'.b = <<MOVE(Catch)>>
                                        \/ \A sel \in mn'.items : Answered(run'.b, 0, sel)
                   /\ MenuAnswerable'
      BY <2>1, <2>3, <2>4 DEF AnsInv
    <2>6. run.b = <<MOVE(Catch)>> \/ \A sel \in Current.mn.items : Answered(run.b, 0, sel)
      BY <1>1, CurrentPage DEF AnsInv
    <2>7. CASE ExecHalt
      <3>1. run'.pc = "ret" /\ mn' = Current.mn /\ run'.b = Tail(run.b) /\ Instr.op = "HALT"
        <4>1. Good(Current, Homes)
          BY <1>1, <2>1, CurrentGood
        <4>2. QED BY <2>7, <4>1, CurrentPage DEF ExecHalt, Executing, Becomes, Good
      <3>2. \A sel \in Current.mn.items : Answered(run.b, 0, sel)
        BY <2>2, <2>6, <3>1, WayToCatch
      <3>3. \A sel \in mn'.items :
              \E n \in DOMAIN run'.b : run'.b[n].op = "INCMP" /\ run'.b[n].sel \in {sel, Wildcard}
        BY <2>1, <2>2, <3>1, <3>2, TailAnswer
      <3>4. QED BY <3>1, <3>3 DEF MenuAnswerable
    <2>8. CASE ~ExecHalt
      <3>1. PageTurn /\ Instr.op # "HALT"
        <4>1. CASE ExecInCmp
          BY <1>3, <2>8, <4>1, VmStepPage DEF ExecInCmp, Executing
        <4>2. CASE ~ExecInCmp
          BY <1>3, <2>8, <4>2, VmStepPage, InstructionSteady
        <4>3. QED BY <4>1, <4>2
      <3>2. PICK o :
              /\ PageStep(Current, Instr, o)
              /\ mn' = o.mn /\ "WAIT" \notin st'.flags
              /\ run'.pc = "on" => /\ run'.b # <<>>
                                   /\ run'.b = <<MOVE(Catch)>> \/ (o.err = "ok" /\ run'.b = o.b)
        BY <3>1 DEF PageTurn
      <3>3. MenuAnswerable'
        BY <3>2 DEF MenuAnswerable
      <3>4. ASSUME run'.pc = "on", run'.b # <<MOVE(Catch)>>, NEW sel \in mn'.items
            PROVE  Answered(run'.b, 0, sel)
        <4>1. o.err = "ok" /\ run'.b = o.b /\ run'.b # <<>> /\ sel \in o.mn.items
          BY <3>2, <3>4
        <4>2. \/ /\ o.b = Tail(run.b)
                 /\ sel \in Current.mn.items \/ (Instr.op = "MOUT" /\ sel = Instr.sel)
              \/ Instr.op = "CATCH" /\ sel \in Current.mn.items
          BY <3>2, <4>1, CurrentPage DEF PageStep
        <4>3. CASE o.b = Tail(run.b) /\ sel \in Current.mn.items
          <5>1. run.b # <<MOVE(Catch)>>
            BY <4>1, <4>3, WayToCatch
          <5>2. Answered(run.b, 0, sel)
            BY <2>6, <4>3, <5>1
          <5>3. QED BY <2>1, <2>2, <3>1, <4>1, <4>3, <5>2, TailAnswer
        <4>4. CASE o.b = Tail(run.b) /\ Instr.op = "MOUT" /\ sel = Instr.sel
          <5>1. Answered(run.b, 0 + 1, sel)
            BY <2>2, <4>4 DEF AnswersMenu
          <5>2. QED BY <2>1, <2>2, <4>1, <4>4, <5>1, TailAnswer
        <4>5. CASE Instr.op = "CATCH" /\ sel \in Current.mn.items
          <5>1. run.b # <<MOVE(Catch)>>
            BY <2>2, <4>5, WayToCatch
          <5>2. Answered(run.b, 0, sel)
            BY <2>6, <4>5, <5>1
          <5>3. QED BY <2>1, <2>2, <3>1, <4>5, <5>2, TailAnswer
        <4>6. QED BY <4>2, <4>3, <4>4, <4>5
      <3>5. run'.pc \in {"on", "ret", "panic"}
        <4>1. PICK q : Turn(q)
          BY <1>3, <2>8, InstructionPage
        <4>2. QED BY <4>1 DEF Turn, Becomes, Pc
      <3>6. QED BY <3>3, <3>4, <3>5
    <2>9. QED BY <2>7, <2>8
  <1>4. QED BY <1>2, <1>3

\* Inputs and returns leave the menu.
LEMMA NextAns ==
  ASSUME AnswersAll, IInv, AnsInv, [Next]_vars
  PROVE  AnsInv'
  <1>1. ASSUME NEW in \in Input, Exec(in) PROVE AnsInv'
    <2>1. /\ st' = [st EXCEPT !.input = in, !.code = <<>>] /\ mn' = mn
          /\ run' = [pc |-> "on", b |-> st.code, err |-> "ok"] /\ st \in StateType
          /\ run.pc = "off" /\ st.code # <<>>
      BY <1>1 DEF Exec, IInv, TypeOK
    <2>2. st'.code = <<>> /\ st'.flags = st.flags
      BY <2>1 DEF StateType
    <2>3. QED BY <2>1, <2>2, WaysOnly DEF AnsInv, MenuAnswerable
  <1>2. CASE Return
    <2>1. /\ run.pc = "ret" /\ run' = Idle /\ mn' = mn
          /\ st' = IF run.err = "ok" /\ ~Terminated THEN [st EXCEPT !.code = run.b] ELSE st
          /\ st \in StateType
      BY <1>2 DEF Return, IInv, TypeOK
    <2>2. st.code = <<>> /\ (run.err = "ok" /\ ~Terminated => "WAIT" \in st.flags)
      BY <2>1 DEF IInv, Flow, YieldReason
    <2>3. /\ st'.flags = st.flags
          /\ st'.code = <<>> \/ (st'.code = run.b /\ run.err = "ok" /\ "WAIT" \in st.flags)
      BY <2>1, <2>2 DEF StateType
    <2>4. QED BY <2>1, <2>3, WaysOnly DEF AnsInv, Idle, MenuAnswerable
  <1>3. CASE UNCHANGED vars
    BY <1>3 DEF vars, AnsInv, MenuAnswerable
  <1>4. QED BY <1>1, <1>2, <1>3, VmStepAns DEF Next

\* The menu is empty at first.
LEMMA InitAns == Init => AnsInv
  <1> SUFFICES ASSUME Init PROVE AnsInv
    OBVIOUS
  <1>1. st.code = <<MOVE(Root)>> /\ run = Idle /\ mn.items = {}
    BY DEF Init, NewState, NewMenu
  <1>2. QED BY <1>1, WaysOnly DEF AnsInv, Idle, MenuAnswerable

\* Vm.Reset and the waking from a HALT: no menu entry is shown that the code left does
\* not compare with, in every program whose nodes compare with their own entries. What
\* is proved is that none of another node is left over.
THEOREM MenusAreAnswered ==
  ASSUME AnswersAll
  PROVE  Spec => []MenuAnswerable
  <1>1. IInv /\ AnsInv /\ [Next]_vars => (IInv /\ AnsInv)'
    BY NextIInv, NextAns
  <1>2. AnsInv => MenuAnswerable
    BY DEF AnsInv
  <1>3. QED BY InitIInv, InitAns, <1>1, <1>2, PTL DEF Spec

=============================================================================
