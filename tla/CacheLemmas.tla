---------------------------- MODULE CacheLemmas -----------------------------
(***************************************************************************)
(* What the operators of CacheOps do to the frames of a cache: the lemmas  *)
(* CacheProofs, VmProofs and EngineProofs rest on; and what they do to the *)
(* bytes it holds, by the lemmas on sums of SumLemmas.                     *)
(***************************************************************************)
EXTENDS CacheOps, SumLemmas, SequenceTheorems

\* A cache record, as far as its frames and its last value go.
CacheShape(c) == /\ DOMAIN c = {"frames", "sizes", "use", "last"}
                 /\ c.frames \in Seq(Frame)
                 /\ c.frames # <<>>
                 /\ c.last \in Value

\* A frame is a function from some symbols to values.
LEMMA FrameDef == \A f : f \in Frame <=> \E S \in SUBSET Key : f \in [S -> Value]
  BY DEF Frame

\* make(map[string]string) is an empty frame.
LEMMA NewMapIsFrame == NewMap \in Frame /\ DOMAIN NewMap = {}
  <1>1. NewMap \in [{} -> Value] /\ DOMAIN NewMap = {}
    BY CacheAssumption DEF NewMap
  <1>2. QED BY <1>1, FrameDef

\* Setting a map entry adds its key and keeps the rest.
LEMMA PutInFrame ==
  ASSUME NEW f \in Frame, NEW k \in Key, NEW v \in Value
  PROVE  Put(f, k, v) \in Frame /\ DOMAIN Put(f, k, v) = DOMAIN f \cup {k}
  <1>1. PICK S \in SUBSET Key : f \in [S -> Value]
    BY FrameDef
  <1>2. Put(f, k, v) \in [S \cup {k} -> Value]
    BY <1>1 DEF Put
  <1>3. S \cup {k} \in SUBSET Key
    OBVIOUS
  <1>4. QED BY <1>1, <1>2, <1>3, FrameDef DEF Put

\* A set of numbers that is not empty has a least one.
LEMMA MinOfNats ==
  ASSUME NEW H \in SUBSET Nat, H # {}
  PROVE  Min(H) \in H
  <1> DEFINE R == {p \in Nat \X Nat : p[1] < p[2]}
  <1>1. IsWellFoundedOn(R, Nat)
    BY NatLessThanWellFounded, Zenon DEF OpToRel
  <1>2. \A x, y \in Nat : <<y, x>> \notin R => x <= y
    OBVIOUS
  <1> HIDE DEF R
  <1>3. \E x \in H : \A y \in H : <<y, x>> \notin R
    BY <1>1, WFMin, Zenon
  <1>4. \E x \in H : \A y \in H : x <= y
    BY <1>2, <1>3
  <1>5. QED BY <1>4 DEF Min

\* frameOf finds a symbol exactly when some frame holds it.
LEMMA FrameOfFinds ==
  ASSUME NEW c, CacheShape(c), NEW k
  PROVE  /\ FrameOf(c, k) = 0 => \A i \in DOMAIN c.frames : k \notin DOMAIN c.frames[i]
         /\ FrameOf(c, k) # 0 => /\ FrameOf(c, k) \in DOMAIN c.frames
                                 /\ k \in DOMAIN c.frames[FrameOf(c, k)]
  <1> DEFINE H == {i \in DOMAIN c.frames : k \in DOMAIN c.frames[i]}
  <1>1. DOMAIN c.frames = 1 .. Len(c.frames) /\ Len(c.frames) \in Nat
    BY LenProperties DEF CacheShape
  <1>2. FrameOf(c, k) = IF H = {} THEN 0 ELSE Min(H)
    BY DEF FrameOf
  <1>3. H # {} => Min(H) \in H
    <2>1. H \in SUBSET Nat
      BY <1>1
    <2> HIDE DEF H
    <2>2. QED BY <2>1, MinOfNats
  <1>4. QED BY <1>1, <1>2, <1>3

\* Get reads a value for every cached symbol.
LEMMA GetIsValue ==
  ASSUME NEW c, CacheShape(c), NEW k, FrameOf(c, k) # 0
  PROVE  k \in Key /\ Get(c, k) \in Value
  <1>1. /\ FrameOf(c, k) \in DOMAIN c.frames
        /\ k \in DOMAIN c.frames[FrameOf(c, k)]
    BY FrameOfFinds
  <1>2. c.frames[FrameOf(c, k)] \in Frame
    BY <1>1, ElementOfSeq, LenProperties DEF CacheShape
  <1>3. PICK S \in SUBSET Key : c.frames[FrameOf(c, k)] \in [S -> Value]
    BY <1>2, FrameDef
  <1>4. QED BY <1>1, <1>3 DEF Get
-----------------------------------------------------------------------------
(* What each operation leaves of the frames.                               *)

\* Add puts the symbol in the innermost frame, and only if no frame holds it.
LEMMA AddFrames ==
  ASSUME NEW c, CacheShape(c), NEW k \in Key, NEW v \in Value, NEW lim
  PROVE  /\ CacheShape(Add(c, k, v, lim))
         /\ Len(Add(c, k, v, lim).frames) = Len(c.frames)
         /\ \A i \in DOMAIN c.frames :
              DOMAIN Add(c, k, v, lim).frames[i] =
                IF AddOutcome(c, k, v, lim) = "ok" /\ i = Len(c.frames)
                THEN DOMAIN c.frames[i] \cup {k} ELSE DOMAIN c.frames[i]
         /\ AddOutcome(c, k, v, lim) = "ok" => FrameOf(c, k) = 0
  <1> DEFINE n == Len(c.frames)
             fs == [c.frames EXCEPT ![n] = Put(@, k, v)]
  <1>1. n \in Nat /\ n > 0 /\ DOMAIN c.frames = 1 .. n
    BY LenProperties, EmptySeq DEF CacheShape
  <1>2. c.frames[n] \in Frame
    BY <1>1, ElementOfSeq DEF CacheShape
  <1>3. /\ Put(c.frames[n], k, v) \in Frame
        /\ DOMAIN Put(c.frames[n], k, v) = DOMAIN c.frames[n] \cup {k}
    BY <1>2, PutInFrame
  <1>4. fs \in Seq(Frame) /\ Len(fs) = n
    BY <1>1, <1>3 DEF CacheShape
  <1>5. \A i \in DOMAIN c.frames :
          DOMAIN fs[i] = IF i = n THEN DOMAIN c.frames[i] \cup {k} ELSE DOMAIN c.frames[i]
    BY <1>1, <1>3
  <1>6. CASE AddOutcome(c, k, v, lim) = "ok"
    <2>1. Add(c, k, v, lim) = [frames |-> fs, sizes |-> Put(c.sizes, k, lim),
                               use |-> c.use + Size[v], last |-> v]
      BY <1>6 DEF Add, Levels
    <2>2. FrameOf(c, k) = 0
      BY <1>6 DEF AddOutcome
    <2>3. CacheShape(Add(c, k, v, lim)) /\ Add(c, k, v, lim).frames = fs
      <3> HIDE DEF fs
      <3>1. fs # <<>>
        BY <1>1, <1>4
      <3>2. QED BY <1>4, <2>1, <3>1 DEF CacheShape
    <2>4. QED BY <1>4, <1>5, <1>6, <2>2, <2>3
  <1>7. CASE AddOutcome(c, k, v, lim) # "ok"
    BY <1>7 DEF Add
  <1>8. QED BY <1>6, <1>7

\* Update changes a value where its symbol is.
LEMMA UpdateFrames ==
  ASSUME NEW c, CacheShape(c), NEW k, NEW v \in Value
  PROVE  /\ CacheShape(Update(c, k, v))
         /\ Len(Update(c, k, v).frames) = Len(c.frames)
         /\ \A i \in DOMAIN c.frames :
              DOMAIN Update(c, k, v).frames[i] = DOMAIN c.frames[i]
  <1> DEFINE j == FrameOf(c, k)
             f == [c.frames[j] EXCEPT ![k] = v]
             fs == [c.frames EXCEPT ![j] = f]
  <1>1. DOMAIN c.frames = 1 .. Len(c.frames) /\ Len(c.frames) \in Nat
    BY LenProperties DEF CacheShape
  <1>2. CASE UpdateOutcome(c, k, v) = "ok"
    <2>1. j # 0
      BY <1>2 DEF UpdateOutcome
    <2>2. j \in DOMAIN c.frames
      BY <2>1, FrameOfFinds
    <2>3. c.frames[j] \in Frame
      BY <1>1, <2>2, ElementOfSeq DEF CacheShape
    <2>4. f \in Frame /\ DOMAIN f = DOMAIN c.frames[j]
      BY <2>3, FrameDef
    <2>5. fs \in Seq(Frame) /\ Len(fs) = Len(c.frames)
      <3> HIDE DEF f
      <3>1. QED BY <1>1, <2>2, <2>4 DEF CacheShape
    <2>6. \A i \in DOMAIN c.frames : DOMAIN fs[i] = DOMAIN c.frames[i]
      <3> HIDE DEF f
      <3>1. QED BY <1>1, <2>2, <2>4
    <2>7. /\ Update(c, k, v).frames = fs /\ DOMAIN Update(c, k, v) = DOMAIN c
          /\ Update(c, k, v).last = c.last
      BY <1>2 DEF Update, CacheShape
    <2>8. fs # <<>>
      <3> HIDE DEF fs
      <3>1. QED BY <1>1, <2>2, <2>5
    <2>9. QED
      <3> HIDE DEF fs
      <3>1. QED BY <2>5, <2>6, <2>7, <2>8 DEF CacheShape
  <1>3. CASE UpdateOutcome(c, k, v) # "ok"
    BY <1>3 DEF Update
  <1>4. QED BY <1>2, <1>3

\* Push adds an empty innermost frame.
LEMMA PushFrames ==
  ASSUME NEW c, CacheShape(c)
  PROVE  /\ CacheShape(Push(c))
         /\ Len(Push(c).frames) = Len(c.frames) + 1
         /\ \A i \in DOMAIN c.frames : Push(c).frames[i] = c.frames[i]
         /\ DOMAIN Push(c).frames[Len(c.frames) + 1] = {}
  <1>1. NewMap \in Frame /\ DOMAIN NewMap = {}
    BY NewMapIsFrame
  <1>2. /\ Push(c).frames = Append(c.frames, NewMap) /\ DOMAIN Push(c) = DOMAIN c
        /\ Push(c).last = c.last
    BY DEF Push, CacheShape
  <1>3. QED BY <1>1, <1>2, AppendProperties DEF CacheShape

\* n calls of Pop leave the lower frames, the last one of them emptied if the
\* calls reach it.
LEMMA PopNFrames ==
  ASSUME NEW c, CacheShape(c), NEW n \in Nat
  PROVE  /\ CacheShape(PopN(c, n))
         /\ Len(PopN(c, n).frames) = IF Len(c.frames) > n THEN Len(c.frames) - n ELSE 1
         /\ \A i \in DOMAIN PopN(c, n).frames :
              IF Len(c.frames) > n
              THEN i \in DOMAIN c.frames /\ PopN(c, n).frames[i] = c.frames[i]
              ELSE DOMAIN PopN(c, n).frames[i] = {}
  <1> DEFINE kept == Len(c.frames) - n
  <1>1. /\ PopN(c, n).frames = Kept(c.frames, kept)
        /\ DOMAIN PopN(c, n) = DOMAIN c
        /\ PopN(c, n).last = c.last
    BY DEF PopN, Levels, CacheShape
  <1>2. /\ Len(c.frames) \in Nat /\ DOMAIN c.frames = 1 .. Len(c.frames)
        /\ \A i \in 1 .. Len(c.frames) : c.frames[i] \in Frame
    BY LenProperties, ElementOfSeq DEF CacheShape
  <1>3. CASE kept > 0
    <2>1. Kept(c.frames, kept) = SubSeq(c.frames, 1, kept)
      BY <1>3 DEF Kept
    <2>2. /\ SubSeq(c.frames, 1, kept) \in Seq(Frame)
          /\ Len(SubSeq(c.frames, 1, kept)) = kept
          /\ \A i \in 1 .. kept : SubSeq(c.frames, 1, kept)[i] = c.frames[i]
      BY <1>2, <1>3, SubSeqProperties
    <2> DEFINE fs == SubSeq(c.frames, 1, kept)
    <2>3. PopN(c, n).frames = fs
      BY <1>1, <2>1
    <2>4. fs # <<>> /\ DOMAIN fs = 1 .. kept
      <3> HIDE DEF fs
      <3>1. fs \in Seq(Frame) /\ Len(fs) = kept
        BY <2>2 DEF fs
      <3>2. QED BY <1>3, <3>1, LenProperties, EmptySeq
    <2> HIDE DEF fs
    <2>5. CacheShape(PopN(c, n))
      BY <1>1, <2>2, <2>3, <2>4 DEF CacheShape, fs
    <2>6. \A i \in DOMAIN fs : i \in DOMAIN c.frames /\ fs[i] = c.frames[i]
      BY <1>2, <1>3, <2>2, <2>4 DEF fs
    <2>7. Len(fs) = Len(c.frames) - n /\ Len(c.frames) > n
      BY <1>2, <1>3, <2>2 DEF fs
    <2>8. QED BY <2>3, <2>5, <2>6, <2>7
  <1>4. CASE ~(kept > 0)
    <2> DEFINE fs == <<NewMap>>
    <2>1. PopN(c, n).frames = fs
      BY <1>1, <1>4 DEF Kept
    <2>2. fs \in Seq(Frame) /\ Len(fs) = 1 /\ DOMAIN fs = 1 .. 1 /\ fs[1] = NewMap
      BY NewMapIsFrame
    <2>3. ~(Len(c.frames) > n)
      BY <1>2, <1>4
    <2> HIDE DEF fs
    <2>4. CacheShape(PopN(c, n))
      <3>1. fs # <<>>
        BY <2>2, EmptySeq
      <3>2. QED BY <1>1, <2>1, <2>2, <3>1 DEF CacheShape
    <2>5. \A i \in DOMAIN fs : DOMAIN fs[i] = {}
      BY <2>2, NewMapIsFrame
    <2>6. QED BY <2>1, <2>2, <2>3, <2>4, <2>5
  <1>5. QED BY <1>3, <1>4

\* Reset leaves the bottom frame as it is.
LEMMA ResetFrames ==
  ASSUME NEW c, CacheShape(c)
  PROVE  /\ CacheShape(Reset(c))
         /\ Len(Reset(c).frames) = 1
         /\ Reset(c).frames[1] = c.frames[1]
         /\ 1 \in DOMAIN c.frames
  <1>1. /\ Len(c.frames) \in Nat /\ Len(c.frames) > 0
        /\ \A i \in 1 .. Len(c.frames) : c.frames[i] \in Frame
    BY LenProperties, ElementOfSeq, EmptySeq DEF CacheShape
  <1>2. /\ SubSeq(c.frames, 1, 1) \in Seq(Frame)
        /\ Len(SubSeq(c.frames, 1, 1)) = 1
        /\ SubSeq(c.frames, 1, 1)[1] = c.frames[1]
    BY <1>1, SubSeqProperties
  <1>3. /\ Reset(c).frames = SubSeq(c.frames, 1, 1) /\ DOMAIN Reset(c) = DOMAIN c
        /\ Reset(c).last = c.last
    BY DEF Reset, CacheShape
  <1>4. QED BY <1>1, <1>2, <1>3, LenProperties DEF CacheShape

-----------------------------------------------------------------------------
(* Bytes: what is held by a frame and by a stack of frames.                *)

\* Stacks of frames with finitely many symbols.
Counted(frames) == /\ frames \in Seq(Frame)
                   /\ \A i \in DOMAIN frames : IsFiniteSet(DOMAIN frames[i])

\* The bytes of frame i.
BytesAt(frames) == [i \in DOMAIN frames |-> FrameSize(frames[i])]

\* A frame holds a natural number of bytes; an empty one none.
LEMMA FrameBytes ==
  ASSUME NEW f \in Frame, IsFiniteSet(DOMAIN f)
  PROVE  FrameSize(f) \in Nat /\ (DOMAIN f = {} => FrameSize(f) = 0)
  <1> DEFINE b == [k \in DOMAIN f |-> Size[f[k]]]
  <1>1. \A k \in DOMAIN f : b[k] \in Nat
    BY FrameDef, CacheAssumption
  <1>2. DOMAIN b = DOMAIN f /\ FrameSize(f) = SumFunction(b)
    BY DEF FrameSize
  <1> HIDE DEF b
  <1>3. FrameSize(f) = SumFunctionOnSet(b, DOMAIN f)
    BY <1>2 DEF SumFunction
  <1>4. QED BY <1>1, <1>3, SumType, SumOfPick

\* A symbol that is new to a frame adds its bytes.
LEMMA PutBytes ==
  ASSUME NEW f \in Frame, IsFiniteSet(DOMAIN f), NEW k \in Key, k \notin DOMAIN f,
         NEW v \in Value
  PROVE  /\ FrameSize(Put(f, k, v)) = FrameSize(f) + Size[v]
         /\ IsFiniteSet(DOMAIN Put(f, k, v))
  <1> DEFINE b == [x \in DOMAIN f |-> Size[f[x]]]
             g == Put(f, k, v)
             c == [x \in DOMAIN g |-> Size[g[x]]]
  <1>1. DOMAIN g = DOMAIN f \cup {k} /\ g[k] = v /\ \A x \in DOMAIN f : g[x] = f[x]
    BY DEF Put
  <1>2. g \in Frame
    BY PutInFrame
  <1> HIDE DEF g
  <1>3. IsFiniteSet(DOMAIN g)
    BY <1>1, FS_AddElement
  <1>4. \A x \in DOMAIN g : c[x] \in Nat
    BY <1>2, FrameDef, CacheAssumption
  <1>5. \A x \in DOMAIN f : c[x] = b[x]
    BY <1>1
  <1>6. c[k] = Size[v] /\ DOMAIN g \ {k} = DOMAIN f /\ k \in DOMAIN g
    BY <1>1
  <1>7. /\ FrameSize(f) = SumFunctionOnSet(b, DOMAIN f)
        /\ FrameSize(g) = SumFunctionOnSet(c, DOMAIN g)
    BY DEF FrameSize, SumFunction
  <1> HIDE DEF b, c
  <1>8. SumFunctionOnSet(c, DOMAIN g) = c[k] + SumFunctionOnSet(c, DOMAIN g \ {k})
    BY <1>3, <1>4, <1>6, SumOfRest
  <1>9. SumFunctionOnSet(c, DOMAIN f) = SumFunctionOnSet(b, DOMAIN f)
    BY <1>5, SumOfEqual
  <1>10. Size[v] \in Nat /\ FrameSize(f) \in Nat
    BY CacheAssumption, FrameBytes
  <1>11. FrameSize(g) = FrameSize(f) + Size[v]
    BY <1>6, <1>7, <1>8, <1>9, <1>10
  <1>12. QED BY <1>3, <1>11 DEF g

\* A new value for a symbol takes the place of the bytes of the old one.
LEMMA SetBytes ==
  ASSUME NEW f \in Frame, IsFiniteSet(DOMAIN f), NEW k \in DOMAIN f, NEW v \in Value
  PROVE  /\ FrameSize([f EXCEPT ![k] = v]) = FrameSize(f) - Size[f[k]] + Size[v]
         /\ Size[f[k]] \in Nat /\ Size[f[k]] <= FrameSize(f)
  <1> DEFINE b == [x \in DOMAIN f |-> Size[f[x]]]
             g == [f EXCEPT ![k] = v]
             c == [x \in DOMAIN g |-> Size[g[x]]]
             r == DOMAIN f \ {k}
  <1>1. DOMAIN g = DOMAIN f /\ g[k] = v /\ \A x \in r : g[x] = f[x]
    OBVIOUS
  <1>2. /\ \A x \in DOMAIN f : b[x] \in Nat
        /\ \A x \in DOMAIN f : c[x] \in Nat
    BY FrameDef, CacheAssumption
  <1>3. \A x \in r : b[x] = c[x]
    BY <1>1
  <1>4. b[k] = Size[f[k]] /\ c[k] = Size[v]
    BY <1>1
  <1>5. /\ FrameSize(f) = SumFunctionOnSet(b, DOMAIN f)
        /\ FrameSize(g) = SumFunctionOnSet(c, DOMAIN f)
    BY <1>1 DEF FrameSize, SumFunction
  <1> HIDE DEF b, c, g
  <1>6. IsFiniteSet(r)
    BY FS_RemoveElement
  <1>7. /\ SumFunctionOnSet(b, DOMAIN f) = b[k] + SumFunctionOnSet(b, r)
        /\ SumFunctionOnSet(c, DOMAIN f) = c[k] + SumFunctionOnSet(c, r)
    BY <1>2, SumOfRest
  <1>8. SumFunctionOnSet(b, r) = SumFunctionOnSet(c, r) /\ SumFunctionOnSet(b, r) \in Nat
    BY <1>2, <1>3, <1>6, SumOfEqual, SumType
  <1>9. b[k] \in Nat /\ c[k] \in Nat
    BY <1>2
  <1>10. QED BY <1>4, <1>5, <1>7, <1>8, <1>9 DEF g

\* A stack holds the bytes of its frames.
LEMMA StackBytes ==
  ASSUME NEW fs, Counted(fs)
  PROVE  /\ DOMAIN fs = 1 .. Len(fs) /\ Len(fs) \in Nat /\ IsFiniteSet(DOMAIN fs)
         /\ \A i \in DOMAIN fs : fs[i] \in Frame /\ BytesAt(fs)[i] = FrameSize(fs[i])
                                 /\ BytesAt(fs)[i] \in Nat
         /\ StackSize(fs) = SumFunctionOnSet(BytesAt(fs), DOMAIN fs)
         /\ StackSize(fs) \in Nat
  <1>1. DOMAIN fs = 1 .. Len(fs) /\ Len(fs) \in Nat /\ \A i \in DOMAIN fs : fs[i] \in Frame
    BY LenProperties, ElementOfSeq DEF Counted
  <1>2. IsFiniteSet(DOMAIN fs)
    BY <1>1, FS_Interval
  <1>3. \A i \in DOMAIN fs : BytesAt(fs)[i] = FrameSize(fs[i]) /\ BytesAt(fs)[i] \in Nat
    BY <1>1, FrameBytes DEF BytesAt, Counted
  <1>4. StackSize(fs) = SumFunctionOnSet(BytesAt(fs), DOMAIN fs)
    BY DEF StackSize, BytesAt, SumFunction
  <1>5. QED BY <1>1, <1>2, <1>3, <1>4, SumType

\* Two stacks that differ in one frame.
LEMMA StackChange ==
  ASSUME NEW fs, NEW gs, Counted(fs), Counted(gs), Len(gs) = Len(fs),
         NEW i \in DOMAIN fs, \A j \in DOMAIN fs : j # i => gs[j] = fs[j]
  PROVE  /\ StackSize(gs) = StackSize(fs) - FrameSize(fs[i]) + FrameSize(gs[i])
         /\ FrameSize(fs[i]) <= StackSize(fs)
  <1> DEFINE r == DOMAIN fs \ {i}
             b == BytesAt(fs)
             c == BytesAt(gs)
  <1>1. /\ DOMAIN fs = DOMAIN gs /\ IsFiniteSet(DOMAIN fs)
        /\ \A j \in DOMAIN fs : b[j] = FrameSize(fs[j]) /\ b[j] \in Nat
        /\ \A j \in DOMAIN fs : c[j] = FrameSize(gs[j]) /\ c[j] \in Nat
        /\ StackSize(fs) = SumFunctionOnSet(b, DOMAIN fs)
        /\ StackSize(gs) = SumFunctionOnSet(c, DOMAIN fs)
    BY StackBytes
  <1>2. \A j \in r : b[j] = c[j]
    BY <1>1
  <1> HIDE DEF b, c
  <1>3. /\ SumFunctionOnSet(b, DOMAIN fs) = b[i] + SumFunctionOnSet(b, r)
        /\ SumFunctionOnSet(c, DOMAIN fs) = c[i] + SumFunctionOnSet(c, r)
    <2> DEFINE D == DOMAIN fs
    <2>1. IsFiniteSet(D) /\ i \in D
      BY <1>1
    <2>2. \A j \in D : b[j] \in Nat /\ c[j] \in Nat
      BY <1>1
    <2> HIDE DEF D
    <2>3. SumFunctionOnSet(b, D) = b[i] + SumFunctionOnSet(b, D \ {i})
      BY <2>1, <2>2, SumOfRest
    <2>4. SumFunctionOnSet(c, D) = c[i] + SumFunctionOnSet(c, D \ {i})
      BY <2>1, <2>2, SumOfRest
    <2>5. QED BY <2>3, <2>4 DEF D
  <1>4. IsFiniteSet(r)
    BY <1>1, FS_RemoveElement
  <1>5. SumFunctionOnSet(b, r) = SumFunctionOnSet(c, r) /\ SumFunctionOnSet(b, r) \in Nat
    BY <1>1, <1>2, <1>4, SumOfEqual, SumType
  <1>6. b[i] = FrameSize(fs[i]) /\ c[i] = FrameSize(gs[i]) /\ b[i] \in Nat /\ c[i] \in Nat
    BY <1>1
  <1>7. QED BY <1>1, <1>3, <1>5, <1>6

\* The bytes of the n lowest frames, and of those above them.
LEMMA StackSplit ==
  ASSUME NEW fs, Counted(fs), NEW n \in Nat, n <= Len(fs)
  PROVE  /\ StackSize(fs) = SumFunctionOnSet(BytesAt(fs), 1 .. n)
                            + SumFunctionOnSet(BytesAt(fs), DOMAIN fs \ (1 .. n))
         /\ SumFunctionOnSet(BytesAt(fs), 1 .. n) \in Nat
         /\ SumFunctionOnSet(BytesAt(fs), DOMAIN fs \ (1 .. n)) \in Nat
  <1> DEFINE b == BytesAt(fs)
             J == 1 .. n
  <1>1. /\ DOMAIN fs = 1 .. Len(fs) /\ Len(fs) \in Nat /\ IsFiniteSet(DOMAIN fs)
        /\ \A i \in DOMAIN fs : b[i] \in Nat
        /\ StackSize(fs) = SumFunctionOnSet(b, DOMAIN fs)
    BY StackBytes
  <1>2. J \in SUBSET DOMAIN fs
    BY <1>1
  <1> HIDE DEF b, J
  <1>3. SumFunctionOnSet(b, DOMAIN fs)
          = SumFunctionOnSet(b, J) + SumFunctionOnSet(b, DOMAIN fs \ J)
    BY <1>1, <1>2, SumOfParts
  <1>4. IsFiniteSet(J) /\ IsFiniteSet(DOMAIN fs \ J)
    BY <1>1, <1>2, FS_Subset
  <1>5. SumFunctionOnSet(b, J) \in Nat /\ SumFunctionOnSet(b, DOMAIN fs \ J) \in Nat
    BY <1>1, <1>2, <1>4, SumType
  <1>6. QED BY <1>1, <1>3, <1>5 DEF b, J

\* The n lowest frames as a stack.
LEMMA StackPrefix ==
  ASSUME NEW fs, Counted(fs), NEW gs \in Seq(Frame), NEW n \in Nat,
         n <= Len(fs), Len(gs) = n, \A i \in 1 .. n : gs[i] = fs[i]
  PROVE  Counted(gs) /\ StackSize(gs) = SumFunctionOnSet(BytesAt(fs), 1 .. n)
  <1>1. DOMAIN gs = 1 .. n /\ DOMAIN fs = 1 .. Len(fs) /\ Len(fs) \in Nat
    BY LenProperties DEF Counted
  <1>2. \A i \in 1 .. n : i \in DOMAIN fs /\ gs[i] = fs[i]
    BY <1>1
  <1>3. Counted(gs)
    BY <1>1, <1>2 DEF Counted
  <1>4. \A i \in 1 .. n : BytesAt(gs)[i] = BytesAt(fs)[i]
    BY <1>1, <1>2 DEF BytesAt
  <1>5. IsFiniteSet(1 .. n)
    BY FS_Interval
  <1>6. StackSize(gs) = SumFunctionOnSet(BytesAt(gs), 1 .. n)
    BY <1>1, <1>3, StackBytes
  <1>7. QED BY <1>3, <1>4, <1>5, <1>6, SumOfEqual

\* A stack of one empty frame holds nothing.
LEMMA EmptyStack ==
  Counted(<<NewMap>>) /\ StackSize(<<NewMap>>) = 0
  <1> DEFINE fs == <<NewMap>>
  <1>1. fs \in Seq(Frame) /\ DOMAIN fs = {1} /\ fs[1] = NewMap /\ Len(fs) = 1
    BY NewMapIsFrame
  <1> HIDE DEF fs
  <1>2. NewMap \in Frame /\ DOMAIN NewMap = {} /\ IsFiniteSet({}) /\ FrameSize(NewMap) = 0
    BY NewMapIsFrame, FS_EmptySet, FrameBytes
  <1>3. Counted(fs)
    BY <1>1, <1>2 DEF Counted
  <1>4. /\ BytesAt(fs)[1] = 0 /\ BytesAt(fs)[1] \in Nat
        /\ StackSize(fs) = SumFunctionOnSet(BytesAt(fs), {1})
    BY <1>1, <1>2, <1>3, StackBytes
  <1>5. QED BY <1>3, <1>4, SumOfOne DEF fs

-----------------------------------------------------------------------------
(* What each operation does to the bytes.                                  *)

\* The counter is the number of bytes held, and within the capacity.
Exact(c) == /\ Counted(c.frames)
            /\ c.use = StackSize(c.frames)
            /\ CacheSize > 0 => c.use <= CacheSize

\* Add counts the value it adds, and refuses one that does not fit.
LEMMA AddExact ==
  ASSUME NEW c, CacheShape(c), Exact(c), NEW k \in Key, NEW v \in Value, NEW lim
  PROVE  Exact(Add(c, k, v, lim))
  <1> DEFINE n == Len(c.frames)
             f == Put(c.frames[n], k, v)
             fs == [c.frames EXCEPT ![n] = f]
             r == Add(c, k, v, lim)
  <1>1. CASE AddOutcome(c, k, v, lim) # "ok"
    BY <1>1 DEF Add
  <1>2. CASE AddOutcome(c, k, v, lim) = "ok"
    <2>1. n \in DOMAIN c.frames /\ DOMAIN c.frames = 1 .. n /\ n \in Nat
      BY LenProperties, EmptySeq DEF CacheShape
    <2>2. r = [frames |-> fs, sizes |-> Put(c.sizes, k, lim),
               use |-> c.use + Size[v], last |-> v]
      BY <1>2 DEF Add, Levels
    <2>3. k \notin DOMAIN c.frames[n]
      BY <1>2, <2>1, FrameOfFinds DEF AddOutcome
    <2>4. c.frames[n] \in Frame /\ IsFiniteSet(DOMAIN c.frames[n])
      BY <2>1, StackBytes DEF Exact, Counted
    <2>5. /\ FrameSize(f) = FrameSize(c.frames[n]) + Size[v] /\ IsFiniteSet(DOMAIN f)
          /\ f \in Frame
      BY <2>3, <2>4, PutBytes, PutInFrame
    <2> HIDE DEF f
    <2>6. /\ fs \in Seq(Frame) /\ Len(fs) = n /\ DOMAIN fs = DOMAIN c.frames
          /\ fs[n] = f /\ \A j \in DOMAIN c.frames : j # n => fs[j] = c.frames[j]
      BY <2>1, <2>5 DEF CacheShape
    <2> HIDE DEF fs
    <2>7. Counted(fs)
      BY <2>5, <2>6 DEF Counted, Exact
    <2>8. /\ StackSize(fs) = StackSize(c.frames) - FrameSize(c.frames[n]) + FrameSize(fs[n])
          /\ FrameSize(c.frames[n]) <= StackSize(c.frames)
      BY <2>1, <2>6, <2>7, StackChange DEF Exact
    <2>9. /\ FrameSize(c.frames[n]) \in Nat /\ StackSize(c.frames) \in Nat /\ Size[v] \in Nat
          /\ CacheSize \in Nat
      BY <2>4, FrameBytes, StackBytes, CacheAssumption DEF Exact
    <2>10. c.use + Size[v] = StackSize(fs)
      BY <2>5, <2>6, <2>8, <2>9 DEF Exact
    <2>11. Size[v] > 0 => CheckCapacity(c.use, v) # 0
      BY <1>2 DEF AddOutcome
    <2>12. CacheSize > 0 => c.use + Size[v] <= CacheSize
      BY <2>9, <2>11 DEF CheckCapacity, Exact
    <2>13. QED BY <2>2, <2>7, <2>10, <2>12 DEF Exact
  <1>3. QED BY <1>1, <1>2

\* Update counts the new value in place of the old one.
LEMMA UpdateExact ==
  ASSUME NEW c, CacheShape(c), Exact(c), NEW k, NEW v \in Value
  PROVE  Exact(Update(c, k, v))
  <1> DEFINE n == FrameOf(c, k)
             f == [c.frames[n] EXCEPT ![k] = v]
             fs == [c.frames EXCEPT ![n] = f]
             r == Update(c, k, v)
  <1>1. CASE UpdateOutcome(c, k, v) # "ok"
    BY <1>1 DEF Update
  <1>2. CASE UpdateOutcome(c, k, v) = "ok"
    <2>1. n \in DOMAIN c.frames /\ k \in DOMAIN c.frames[n]
      BY <1>2, FrameOfFinds DEF UpdateOutcome
    <2>2. /\ r.frames = fs /\ r.use = c.use - Size[c.frames[n][k]] + Size[v]
      BY <1>2 DEF Update, UseAfterUpdate, Get, CacheShape
    <2>3. c.frames[n] \in Frame /\ IsFiniteSet(DOMAIN c.frames[n])
      BY <2>1, StackBytes DEF Exact, Counted
    <2>4. /\ FrameSize(f) = FrameSize(c.frames[n]) - Size[c.frames[n][k]] + Size[v]
          /\ Size[c.frames[n][k]] \in Nat /\ Size[c.frames[n][k]] <= FrameSize(c.frames[n])
      BY <2>1, <2>3, SetBytes
    <2>5. f \in Frame /\ DOMAIN f = DOMAIN c.frames[n]
      BY <2>3, FrameDef
    <2> HIDE DEF f
    <2>6. /\ fs \in Seq(Frame) /\ Len(fs) = Len(c.frames) /\ DOMAIN fs = DOMAIN c.frames
          /\ fs[n] = f /\ \A j \in DOMAIN c.frames : j # n => fs[j] = c.frames[j]
      BY <2>1, <2>5, LenProperties DEF CacheShape
    <2> HIDE DEF fs
    <2>7. Counted(fs)
      BY <2>3, <2>5, <2>6 DEF Counted, Exact
    <2>8. /\ StackSize(fs) = StackSize(c.frames) - FrameSize(c.frames[n]) + FrameSize(fs[n])
          /\ FrameSize(c.frames[n]) <= StackSize(c.frames)
      BY <2>1, <2>6, <2>7, StackChange DEF Exact
    <2>9. /\ FrameSize(c.frames[n]) \in Nat /\ StackSize(c.frames) \in Nat /\ Size[v] \in Nat
          /\ CacheSize \in Nat
      BY <2>3, FrameBytes, StackBytes, CacheAssumption DEF Exact
    <2> DEFINE old == Size[c.frames[n][k]]
    <2>10. c.use - old + Size[v] = StackSize(fs)
      <3> DEFINE u == c.use  ss == StackSize(c.frames)  ff == FrameSize(c.frames[n])
                 gg == FrameSize(f)  tt == StackSize(fs)  w == Size[v]
      <3>1. /\ u = ss /\ ss \in Nat /\ ff \in Nat /\ w \in Nat /\ old \in Nat
            /\ gg = ff - old + w /\ tt = ss - ff + gg
        BY <2>4, <2>6, <2>8, <2>9 DEF Exact
      <3> HIDE DEF u, ss, ff, gg, tt, w, old
      <3>2. u - old + w = tt
        BY <3>1
      <3>3. QED BY <3>2 DEF u, tt, w
    <2>11. CheckCapacity(c.use - old, v) # 0
      BY <1>2 DEF UpdateOutcome, Get
    <2>12. CacheSize > 0 => c.use - old + Size[v] <= CacheSize
      <3>1. CacheSize > 0 => ~(c.use - old + Size[v] > CacheSize)
        BY <2>11 DEF CheckCapacity
      <3>2. c.use - old + Size[v] \in Nat
        BY <2>7, <2>10, StackBytes
      <3> HIDE DEF old
      <3>3. QED BY <2>9, <3>1, <3>2
    <2>13. QED BY <2>2, <2>7, <2>10, <2>12 DEF Exact
  <1>3. QED BY <1>1, <1>2

\* Push adds no bytes.
LEMMA PushExact ==
  ASSUME NEW c, CacheShape(c), Exact(c)
  PROVE  Exact(Push(c))
  <1> DEFINE n == Len(c.frames)
             fs == Push(c).frames
  <1>1. /\ CacheShape(Push(c)) /\ Len(fs) = n + 1
        /\ \A i \in DOMAIN c.frames : fs[i] = c.frames[i]
        /\ DOMAIN fs[n + 1] = {} /\ Push(c).use = c.use
    BY PushFrames DEF Push, CacheShape
  <1>2. /\ DOMAIN c.frames = 1 .. n /\ n \in Nat /\ fs \in Seq(Frame)
        /\ DOMAIN fs = 1 .. n + 1
    BY <1>1, LenProperties DEF CacheShape
  <1> HIDE DEF fs, n
  <1>3. Counted(fs)
    <2>1. \A i \in DOMAIN fs : IsFiniteSet(DOMAIN fs[i])
      <3>1. \A i \in DOMAIN fs : i = n + 1 \/ i \in DOMAIN c.frames
        BY <1>2
      <3>2. \A i \in DOMAIN c.frames : IsFiniteSet(DOMAIN fs[i])
        BY <1>1 DEF Exact, Counted
      <3>3. QED BY <1>1, <3>1, <3>2, FS_EmptySet
    <2>2. QED BY <1>2, <2>1 DEF Counted
  <1>4. n + 1 \in DOMAIN fs /\ DOMAIN fs \ (1 .. n) = {n + 1}
    BY <1>2
  <1>5. /\ StackSize(fs) = SumFunctionOnSet(BytesAt(fs), 1 .. n)
                           + SumFunctionOnSet(BytesAt(fs), {n + 1})
        /\ SumFunctionOnSet(BytesAt(fs), 1 .. n) \in Nat
    <2>1. n <= Len(fs)
      BY <1>1, <1>2
    <2>2. /\ StackSize(fs) = SumFunctionOnSet(BytesAt(fs), 1 .. n)
                             + SumFunctionOnSet(BytesAt(fs), DOMAIN fs \ (1 .. n))
          /\ SumFunctionOnSet(BytesAt(fs), 1 .. n) \in Nat
      BY <1>2, <1>3, <2>1, StackSplit
    <2>3. QED BY <1>4, <2>2
  <1>6. StackSize(c.frames) = SumFunctionOnSet(BytesAt(fs), 1 .. n)
    <2>1. c.frames \in Seq(Frame) /\ Len(c.frames) = n
      BY DEF CacheShape, n
    <2>2. \A i \in 1 .. n : c.frames[i] = fs[i]
      BY <1>1, <1>2
    <2>3. n <= Len(fs)
      BY <1>1, <1>2
    <2>4. QED BY <1>2, <1>3, <2>1, <2>2, <2>3, StackPrefix
  <1>7. SumFunctionOnSet(BytesAt(fs), {n + 1}) = 0
    <2>1. fs[n + 1] \in Frame /\ BytesAt(fs)[n + 1] = FrameSize(fs[n + 1])
      BY <1>3, <1>4, StackBytes
    <2>2. BytesAt(fs)[n + 1] = 0
      BY <1>1, <2>1, FrameBytes, FS_EmptySet
    <2> DEFINE x == n + 1
               b == BytesAt(fs)
    <2>3. b[x] = 0 /\ b[x] \in Nat
      BY <2>2
    <2> HIDE DEF x, b
    <2>4. SumFunctionOnSet(b, {x}) = 0
      BY <2>3, SumOfOne
    <2>5. QED BY <2>4 DEF x, b
  <1>8. StackSize(fs) = StackSize(c.frames)
    BY <1>5, <1>6, <1>7
  <1>9. QED BY <1>1, <1>3, <1>8 DEF Exact, fs

\* Any number of calls of Pop gives back the bytes of the frames they free.
LEMMA PopNExact ==
  ASSUME NEW c, CacheShape(c), Exact(c), NEW n \in Nat
  PROVE  Exact(PopN(c, n))
  <1> DEFINE m == Len(c.frames)
             kept == m - n
             b == BytesAt(c.frames)
             gone == {i \in DOMAIN c.frames : i > kept}
             fs == PopN(c, n).frames
  <1>1. /\ DOMAIN c.frames = 1 .. m /\ m \in Nat /\ IsFiniteSet(DOMAIN c.frames)
        /\ \A i \in DOMAIN c.frames : b[i] = FrameSize(c.frames[i]) /\ b[i] \in Nat
        /\ c.use = StackSize(c.frames) /\ StackSize(c.frames) \in Nat
        /\ StackSize(c.frames) = SumFunctionOnSet(b, DOMAIN c.frames)
    BY StackBytes DEF Exact
  <1>2. PopN(c, n).use = c.use - SumFunctionOnSet(b, gone)
    <2> DEFINE g == [i \in gone |-> FrameSize(c.frames[i])]
    <2>1. PopN(c, n).use = c.use - SumFunctionOnSet(g, gone)
      BY DEF PopN, Levels, CacheShape, SumFunction
    <2>2. IsFiniteSet(gone)
      BY <1>1, FS_Subset
    <2>3. \A i \in gone : g[i] = b[i]
      BY <1>1
    <2> HIDE DEF g, gone
    <2>4. QED BY <2>1, <2>2, <2>3, SumOfEqual
  <1>3. CacheShape(PopN(c, n))
    BY PopNFrames
  <1>4. PopN(c, n).use = StackSize(fs) /\ Counted(fs) /\ PopN(c, n).use <= c.use
    <2>1. CASE kept > 0
      <3>1. /\ fs \in Seq(Frame) /\ Len(fs) = kept
            /\ \A i \in DOMAIN fs : fs[i] = c.frames[i]
        BY <1>1, <1>3, <2>1, PopNFrames DEF CacheShape
      <3>2. kept \in Nat /\ kept <= m /\ DOMAIN fs = 1 .. kept
        BY <1>1, <2>1, <3>1, LenProperties
      <3>3. gone = DOMAIN c.frames \ (1 .. kept)
        BY <1>1, <2>1
      <3> HIDE DEF fs, gone, b
      <3>4. /\ StackSize(c.frames) = SumFunctionOnSet(b, 1 .. kept) + SumFunctionOnSet(b, gone)
            /\ SumFunctionOnSet(b, 1 .. kept) \in Nat /\ SumFunctionOnSet(b, gone) \in Nat
        BY <3>2, <3>3, StackSplit DEF Exact, b
      <3>5. Counted(fs) /\ StackSize(fs) = SumFunctionOnSet(b, 1 .. kept)
        <4> HIDE DEF kept
        <4>1. Counted(c.frames) /\ kept <= Len(c.frames) /\ kept \in Nat
          BY <3>2 DEF Exact
        <4>2. \A i \in 1 .. kept : fs[i] = c.frames[i]
          BY <3>1, <3>2
        <4>3. QED BY <3>1, <4>1, <4>2, StackPrefix DEF b
      <3>6. QED BY <1>1, <1>2, <3>4, <3>5
    <2>2. CASE ~(kept > 0)
      <3>1. fs = <<NewMap>>
        BY <2>2 DEF PopN, Levels, Kept, CacheShape
      <3>2. gone = DOMAIN c.frames
        BY <1>1, <2>2
      <3> HIDE DEF fs, gone, b
      <3>3. PopN(c, n).use = 0
        BY <1>1, <1>2, <3>2
      <3>4. QED BY <1>1, <3>1, <3>3, EmptyStack
    <2>3. QED BY <2>1, <2>2
  <1>5. CacheSize > 0 => PopN(c, n).use <= CacheSize
    <2> HIDE DEF fs
    <2>1. StackSize(fs) \in Nat /\ CacheSize \in Nat /\ c.use \in Nat
      BY <1>1, <1>4, StackBytes, CacheAssumption
    <2>2. QED BY <1>4, <2>1 DEF Exact
  <1>6. QED BY <1>4, <1>5 DEF Exact

\* Reset counts the frame it keeps.
LEMMA ResetExact ==
  ASSUME NEW c, CacheShape(c), Exact(c)
  PROVE  Exact(Reset(c))
  <1> DEFINE fs == Reset(c).frames
             b == BytesAt(c.frames)
  <1>1. /\ CacheShape(Reset(c)) /\ Len(fs) = 1 /\ fs[1] = c.frames[1]
        /\ 1 \in DOMAIN c.frames /\ Reset(c).use = FrameSize(c.frames[1])
    BY ResetFrames DEF Reset, CacheShape
  <1>2. fs \in Seq(Frame) /\ DOMAIN fs = {1}
    BY <1>1, LenProperties DEF CacheShape
  <1>3. /\ 1 <= Len(c.frames) /\ b[1] = FrameSize(c.frames[1]) /\ b[1] \in Nat
        /\ 1 .. 1 = {1}
    BY <1>1, StackBytes DEF Exact
  <1> HIDE DEF fs, b
  <1>4. Counted(fs) /\ StackSize(fs) = SumFunctionOnSet(b, 1 .. 1)
    <2>1. Counted(c.frames) /\ 1 \in Nat /\ \A i \in 1 .. 1 : fs[i] = c.frames[i]
      BY <1>1 DEF Exact
    <2>2. QED BY <1>1, <1>2, <1>3, <2>1, StackPrefix DEF b
  <1>5. SumFunctionOnSet(b, {1}) = b[1]
    BY <1>3, SumOfOne
  <1>7. Reset(c).use = StackSize(fs)
    BY <1>1, <1>3, <1>4, <1>5
  <1>8. b[1] <= StackSize(c.frames) /\ StackSize(c.frames) \in Nat /\ CacheSize \in Nat
    <2>1. FrameSize(c.frames[1]) <= StackSize(c.frames)
      BY <1>1, StackChange DEF Exact
    <2>2. QED BY <1>3, <2>1, StackBytes, CacheAssumption DEF Exact
  <1>9. QED BY <1>1, <1>3, <1>4, <1>7, <1>8 DEF Exact, fs
=============================================================================
