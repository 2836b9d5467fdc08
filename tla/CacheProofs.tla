---------------------------- MODULE CacheProofs -----------------------------
(***************************************************************************)
(* The invariants of Cache for every set of symbols, values and limits,    *)
(* and its refinement of Memory. A symbol is in one frame only, and every  *)
(* held symbol has a limit: these two are inductive together, given that   *)
(* the frames are well formed, since Pop deletes the limits of the frame   *)
(* it frees and only KeyInOneFrame says that none of them belongs to a     *)
(* symbol of a frame below. On them rest the count of bytes, the capacity, *)
(* the limits, and that frames and counters are a Memory.                  *)
(***************************************************************************)
EXTENDS Cache, CacheLemmas

IInv == CacheShape(ca) /\ KeyInOneFrame /\ LimitsKnown

\* KeyInOneFrame and LimitsKnown speak of frames by number.
LEMMA FramesByNumber ==
  ASSUME CacheShape(ca)
  PROVE  DOMAIN ca.frames = 1 .. Len(ca.frames) /\ Len(ca.frames) \in Nat \ {0}
  BY LenProperties, EmptySeq DEF CacheShape

\* A new cache is one empty frame.
LEMMA InitIInv == Init => IInv
  <1> SUFFICES ASSUME Init PROVE IInv
    OBVIOUS
  <1> DEFINE fs == <<NewMap>>
  <1>1. ca.frames = fs /\ DOMAIN ca = {"frames", "sizes", "use", "last"} /\ ca.last = Empty
    BY DEF Init, NewCache
  <1>2. fs \in Seq(Frame) /\ Len(fs) = 1 /\ DOMAIN fs = 1 .. 1 /\ DOMAIN fs[1] = {}
    BY NewMapIsFrame
  <1> HIDE DEF fs
  <1>3. CacheShape(ca)
    <2>1. fs # <<>>
      BY <1>2, EmptySeq
    <2>2. ca.last \in Value
      BY <1>1, CacheAssumption
    <2>3. QED BY <1>1, <1>2, <2>1, <2>2 DEF CacheShape
  <1>4. KeyInOneFrame
    BY <1>1, <1>2 DEF KeyInOneFrame
  <1>5. Cached(ca) = {}
    BY <1>1, <1>2 DEF Cached
  <1>6. QED BY <1>3, <1>4, <1>5 DEF IInv, LimitsKnown

\* Add looks for the symbol in every frame before it takes it.
LEMMA AddIInv ==
  ASSUME IInv, NEW k \in Key, NEW v \in Value, NEW lim, DoAdd(k, v, lim)
  PROVE  IInv'
  <1>1. CacheShape(ca) /\ ca' = Add(ca, k, v, lim)
    BY DEF IInv, DoAdd
  <1> DEFINE n == Len(ca.frames)
  <1>2. /\ CacheShape(ca')
        /\ Len(ca'.frames) = n
        /\ \A i \in DOMAIN ca.frames :
             DOMAIN ca'.frames[i] =
               IF AddOutcome(ca, k, v, lim) = "ok" /\ i = n
               THEN DOMAIN ca.frames[i] \cup {k} ELSE DOMAIN ca.frames[i]
        /\ AddOutcome(ca, k, v, lim) = "ok" => FrameOf(ca, k) = 0
    BY <1>1, AddFrames
  <1>3. DOMAIN ca'.frames = DOMAIN ca.frames
    BY <1>1, <1>2, LenProperties DEF CacheShape
  <1>4. CASE AddOutcome(ca, k, v, lim) = "ok"
    <2>1. \A i \in DOMAIN ca.frames : k \notin DOMAIN ca.frames[i]
      BY <1>1, <1>2, <1>4, FrameOfFinds
    <2> HIDE DEF n
    <2>2. KeyInOneFrame'
      <3> SUFFICES ASSUME NEW i \in DOMAIN ca.frames, NEW j \in DOMAIN ca.frames, i # j
                   PROVE  DOMAIN ca'.frames[i] \cap DOMAIN ca'.frames[j] = {}
        BY <1>3 DEF KeyInOneFrame
      <3>1. DOMAIN ca.frames[i] \cap DOMAIN ca.frames[j] = {}
        BY DEF IInv, KeyInOneFrame
      <3>2. \A m \in {i, j} :
              DOMAIN ca'.frames[m] = IF m = n THEN DOMAIN ca.frames[m] \cup {k}
                                     ELSE DOMAIN ca.frames[m]
        BY <1>2, <1>4
      <3>3. k \notin DOMAIN ca.frames[i] /\ k \notin DOMAIN ca.frames[j]
        BY <2>1
      <3>4. QED BY <3>1, <3>2, <3>3
    <2>3. ca'.sizes = Put(ca.sizes, k, lim)
      BY <1>1, <1>4 DEF Add
    <2>4. DOMAIN ca'.sizes = DOMAIN ca.sizes \cup {k}
      BY <2>3 DEF Put
    <2>5. Cached(ca') \subseteq Cached(ca) \cup {k}
      <3>1. \A i \in DOMAIN ca.frames :
              DOMAIN ca'.frames[i] \subseteq DOMAIN ca.frames[i] \cup {k}
        BY <1>2
      <3>2. QED BY <1>3, <3>1 DEF Cached
    <2>6. QED BY <1>2, <2>2, <2>4, <2>5 DEF IInv, LimitsKnown
  <1>5. CASE AddOutcome(ca, k, v, lim) # "ok"
    BY <1>1, <1>5 DEF Add, IInv, KeyInOneFrame, LimitsKnown
  <1>6. QED BY <1>4, <1>5

\* Update moves no symbol.
LEMMA UpdateIInv ==
  ASSUME IInv, NEW k \in Key, NEW v \in Value, DoUpdate(k, v)
  PROVE  IInv'
  <1>1. CacheShape(ca) /\ ca' = Update(ca, k, v)
    BY DEF IInv, DoUpdate
  <1>2. /\ CacheShape(ca')
        /\ Len(ca'.frames) = Len(ca.frames)
        /\ \A i \in DOMAIN ca.frames : DOMAIN ca'.frames[i] = DOMAIN ca.frames[i]
    BY <1>1, UpdateFrames
  <1>3. DOMAIN ca'.frames = DOMAIN ca.frames
    BY <1>1, <1>2, LenProperties DEF CacheShape
  <1>4. ca'.sizes = ca.sizes
    BY <1>1 DEF Update, CacheShape
  <1>5. KeyInOneFrame'
    BY <1>2, <1>3 DEF IInv, KeyInOneFrame
  <1>6. Cached(ca') = Cached(ca)
    BY <1>2, <1>3 DEF Cached
  <1>7. QED BY <1>2, <1>4, <1>5, <1>6 DEF IInv, LimitsKnown

\* Push adds a frame without symbols.
LEMMA PushIInv ==
  ASSUME IInv, DoPush
  PROVE  IInv'
  <1>1. CacheShape(ca) /\ ca' = Push(ca)
    BY DEF IInv, DoPush
  <1> DEFINE n == Len(ca.frames)
  <1>2. /\ CacheShape(ca')
        /\ Len(ca'.frames) = n + 1
        /\ \A i \in DOMAIN ca.frames : ca'.frames[i] = ca.frames[i]
        /\ DOMAIN ca'.frames[n + 1] = {}
    BY <1>1, PushFrames
  <1>3. DOMAIN ca'.frames = 1 .. n + 1 /\ DOMAIN ca.frames = 1 .. n /\ n \in Nat
    BY <1>1, <1>2, LenProperties DEF CacheShape
  <1>4. ca'.sizes = ca.sizes
    BY <1>1 DEF Push, CacheShape
  <1>5. \A i \in DOMAIN ca'.frames :
          \/ i = n + 1
          \/ i \in DOMAIN ca.frames /\ ca'.frames[i] = ca.frames[i]
    BY <1>2, <1>3
  <1>6. KeyInOneFrame'
    BY <1>2, <1>5 DEF IInv, KeyInOneFrame
  <1>7. Cached(ca') \subseteq Cached(ca)
    BY <1>2, <1>5 DEF Cached
  <1>8. QED BY <1>2, <1>4, <1>6, <1>7 DEF IInv, LimitsKnown

\* Pop takes the limits of the frame it frees, and of no other symbol.
LEMMA PopIInv ==
  ASSUME IInv, DoPop
  PROVE  IInv'
  <1>1. CacheShape(ca) /\ ca' = PopN(ca, 1)
    BY DEF IInv, DoPop, Pop
  <1> DEFINE n == Len(ca.frames)
  <1>2. /\ CacheShape(ca')
        /\ \A i \in DOMAIN ca'.frames :
             IF n > 1 THEN i \in DOMAIN ca.frames /\ ca'.frames[i] = ca.frames[i]
             ELSE DOMAIN ca'.frames[i] = {}
    BY <1>1, PopNFrames
  <1>3. n > 1 => Len(ca'.frames) = n - 1
    BY <1>1, PopNFrames
  <1>4. DOMAIN ca.frames = 1 .. n /\ n \in Nat \ {0}
    BY <1>1, FramesByNumber
  <1>5. DOMAIN ca'.frames = 1 .. Len(ca'.frames)
    BY <1>2, LenProperties DEF CacheShape
  <1>6. DOMAIN ca'.sizes = DOMAIN ca.sizes
          \ UNION {DOMAIN ca.frames[i] : i \in {j \in DOMAIN ca.frames : j > n - 1}}
    BY <1>1 DEF PopN, Levels, Restrict, CacheShape
  <1>7. CASE n > 1
    <2>1. KeyInOneFrame'
      BY <1>2, <1>7 DEF IInv, KeyInOneFrame
    <2>2. ASSUME NEW i \in DOMAIN ca'.frames, NEW k \in DOMAIN ca'.frames[i]
          PROVE  k \in DOMAIN ca'.sizes
      <3>1. i \in DOMAIN ca.frames /\ i < n /\ k \in DOMAIN ca.frames[i]
        BY <1>2, <1>3, <1>4, <1>5, <1>7
      <3>2. \A j \in DOMAIN ca.frames : j > n - 1 => k \notin DOMAIN ca.frames[j]
        BY <1>4, <3>1 DEF IInv, KeyInOneFrame
      <3>3. k \in DOMAIN ca.sizes
        BY <3>1 DEF IInv, LimitsKnown, Cached
      <3>4. QED BY <1>6, <3>2, <3>3
    <2>3. LimitsKnown'
      BY <2>2 DEF LimitsKnown, Cached
    <2>4. QED BY <1>2, <2>1, <2>3 DEF IInv
  <1>8. CASE ~(n > 1)
    BY <1>2, <1>8 DEF IInv, KeyInOneFrame, LimitsKnown, Cached
  <1>9. QED BY <1>7, <1>8

\* Reset keeps every limit.
LEMMA ResetIInv ==
  ASSUME IInv, DoReset
  PROVE  IInv'
  <1>1. CacheShape(ca) /\ ca' = Reset(ca)
    BY DEF IInv, DoReset
  <1>2. /\ CacheShape(ca')
        /\ Len(ca'.frames) = 1
        /\ ca'.frames[1] = ca.frames[1]
        /\ 1 \in DOMAIN ca.frames
    BY <1>1, ResetFrames
  <1>3. DOMAIN ca'.frames = 1 .. 1
    BY <1>2, LenProperties DEF CacheShape
  <1>4. ca'.sizes = ca.sizes
    BY <1>1 DEF Reset, CacheShape
  <1>5. KeyInOneFrame'
    BY <1>3 DEF KeyInOneFrame
  <1>6. Cached(ca') \subseteq Cached(ca)
    BY <1>2, <1>3 DEF Cached
  <1>7. QED BY <1>2, <1>4, <1>5, <1>6 DEF IInv, LimitsKnown

\* Last touches no frame.
LEMMA LastIInv ==
  ASSUME IInv, DoLast
  PROVE  IInv'
  <1>1. /\ ca'.frames = ca.frames
        /\ ca'.sizes = ca.sizes
        /\ DOMAIN ca' = DOMAIN ca
        /\ ca'.last \in Value
    BY CacheAssumption DEF IInv, DoLast, ForgetLast, CacheShape
  <1>2. QED BY <1>1 DEF IInv, CacheShape, KeyInOneFrame, LimitsKnown, Cached

\* IInv is inductive.
LEMMA NextIInv == IInv /\ [Next]_vars => IInv'
  <1> SUFFICES ASSUME IInv, [Next]_vars PROVE IInv'
    OBVIOUS
  <1>1. ASSUME NEW k \in Key, NEW v \in Value, NEW lim \in Limits, DoAdd(k, v, lim)
        PROVE  IInv'
    BY <1>1, AddIInv
  <1>2. ASSUME NEW k \in Key, NEW v \in Value, DoUpdate(k, v)
        PROVE  IInv'
    BY <1>2, UpdateIInv
  <1>3. CASE UNCHANGED vars
    BY <1>3 DEF vars, IInv, CacheShape, KeyInOneFrame, LimitsKnown, Cached
  <1>4. QED
    BY <1>1, <1>2, <1>3, PushIInv, PopIInv, ResetIInv, LastIInv DEF Next

\* cache.Cache: no sequence of calls makes two frames hold the same symbol.
THEOREM OneFrame == Spec => []KeyInOneFrame
  <1>1. IInv => KeyInOneFrame
    BY DEF IInv
  <1>2. QED BY InitIInv, NextIInv, <1>1, PTL DEF Spec

\* cache.Cache: no sequence of calls leaves a held symbol without its limit.
THEOREM LimitsNeverLost == Spec => []LimitsKnown
  <1>1. IInv => LimitsKnown
    BY DEF IInv
  <1>2. QED BY InitIInv, NextIInv, <1>1, PTL DEF Spec

-----------------------------------------------------------------------------
(* Bytes.                                                                  *)

\* The bytes are counted exactly, whatever is added, replaced and freed.
BytesInv == CacheShape(ca) /\ Exact(ca)

\* The empty stack holds no byte, and none is counted.
LEMMA InitBytes == Init => BytesInv
  <1> SUFFICES ASSUME Init PROVE BytesInv
    OBVIOUS
  <1>1. CacheShape(ca)
    BY InitIInv DEF IInv
  <1>2. ca.frames = <<NewMap>> /\ ca.use = 0
    BY DEF Init, NewCache
  <1>3. Exact(ca)
    BY <1>2, EmptyStack, CacheAssumption DEF Exact
  <1>4. QED BY <1>1, <1>3 DEF BytesInv

\* BytesInv is inductive: by operation, the lemmas named Exact.
LEMMA NextBytes == BytesInv /\ [Next]_vars => BytesInv'
  <1> SUFFICES ASSUME BytesInv, [Next]_vars PROVE BytesInv'
    OBVIOUS
  <1>1. CacheShape(ca) /\ Exact(ca)
    BY DEF BytesInv
  <1>2. ASSUME NEW k \in Key, NEW v \in Value, NEW lim \in Limits, DoAdd(k, v, lim)
        PROVE  BytesInv'
    <2>1. CacheShape(Add(ca, k, v, lim)) /\ Exact(Add(ca, k, v, lim))
      BY <1>1, AddFrames, AddExact
    <2>2. QED BY <1>2, <2>1 DEF DoAdd, BytesInv
  <1>3. ASSUME NEW k \in Key, NEW v \in Value, DoUpdate(k, v)
        PROVE  BytesInv'
    <2>1. CacheShape(Update(ca, k, v)) /\ Exact(Update(ca, k, v))
      BY <1>1, UpdateFrames, UpdateExact
    <2>2. QED BY <1>3, <2>1 DEF DoUpdate, BytesInv
  <1>4. CASE DoPush
    <2>1. CacheShape(Push(ca)) /\ Exact(Push(ca))
      BY <1>1, PushFrames, PushExact
    <2>2. QED BY <1>4, <2>1 DEF DoPush, BytesInv
  <1>5. CASE DoPop
    <2>1. CacheShape(PopN(ca, 1)) /\ Exact(PopN(ca, 1))
      BY <1>1, PopNFrames, PopNExact
    <2>2. QED BY <1>5, <2>1 DEF DoPop, Pop, BytesInv
  <1>6. CASE DoReset
    <2>1. CacheShape(Reset(ca)) /\ Exact(Reset(ca))
      BY <1>1, ResetFrames, ResetExact
    <2>2. QED BY <1>6, <2>1 DEF DoReset, BytesInv
  <1>7. CASE DoLast
    BY <1>1, <1>7, CacheAssumption DEF DoLast, ForgetLast, BytesInv, CacheShape, Exact
  <1>8. CASE UNCHANGED vars
    BY <1>8 DEF vars, BytesInv
  <1>9. QED BY <1>2, <1>3, <1>4, <1>5, <1>6, <1>7, <1>8 DEF Next

\* cache.Cache: CacheUseSize is the number of bytes held, for values of any length.
THEOREM BytesCounted == Spec => []UseIsExact
  <1>1. BytesInv => UseIsExact
    BY DEF BytesInv, Exact, UseIsExact
  <1>2. QED BY InitBytes, NextBytes, <1>1, PTL DEF Spec

\* checkCapacity: no sequence of calls makes the cache hold more than its capacity.
THEOREM CapacityKept == Spec => []WithinCapacity
  <1>1. BytesInv => WithinCapacity
    BY DEF BytesInv, Exact, WithinCapacity
  <1>2. QED BY InitBytes, NextBytes, <1>1, PTL DEF Spec

-----------------------------------------------------------------------------
(* Types.                                                                  *)

SizesType == UNION {[S -> Limits] : S \in SUBSET Key}

\* The size table through an addition and a removal.
LEMMA SizesKept ==
  ASSUME NEW z \in SizesType
  PROVE  /\ \A k \in Key, lim \in Limits : Put(z, k, lim) \in SizesType
         /\ \A D \in SUBSET DOMAIN z : Restrict(z, D) \in SizesType
  <1>1. PICK S \in SUBSET Key : z \in [S -> Limits]
    BY DEF SizesType
  <1>2. ASSUME NEW k \in Key, NEW lim \in Limits PROVE Put(z, k, lim) \in SizesType
    <2>1. Put(z, k, lim) \in [S \cup {k} -> Limits] /\ S \cup {k} \in SUBSET Key
      BY <1>1 DEF Put
    <2>2. QED BY <2>1 DEF SizesType
  <1>3. ASSUME NEW D \in SUBSET DOMAIN z PROVE Restrict(z, D) \in SizesType
    <2>1. Restrict(z, D) \in [D -> Limits] /\ D \in SUBSET Key
      BY <1>1 DEF Restrict
    <2>2. QED BY <2>1 DEF SizesType
  <1>4. QED BY <1>2, <1>3

TypeInv == TypeOK /\ BytesInv

\* What is counted exactly is a number, and a stack with a frame is not empty.
LEMMA FromBytes ==
  ASSUME NEW c, CacheShape(c), Exact(c)
  PROVE  c.use \in Nat /\ c.frames \in Seq(Frame) \ {<<>>}
  <1>1. c.use \in Nat
    BY StackBytes DEF Exact
  <1>2. QED BY <1>1 DEF CacheShape

\* A new cache is well formed.
LEMMA InitTypes == Init => TypeInv
  <1> SUFFICES ASSUME Init PROVE TypeInv
    OBVIOUS
  <1>1. CacheShape(ca) /\ Exact(ca) /\ BytesInv
    BY InitBytes DEF BytesInv
  <1>2. ca.use \in Nat /\ ca.frames \in Seq(Frame) \ {<<>>}
    BY <1>1, FromBytes
  <1>3. NewMap \in [{} -> Limits] /\ {} \in SUBSET Key
    BY DEF NewMap
  <1>4. ca.sizes \in UNION {[S -> Limits] : S \in SUBSET Key}
    BY <1>3 DEF Init, NewCache
  <1> DEFINE fs == <<NewMap>>
  <1>5. ca = [frames |-> fs, sizes |-> NewMap, use |-> 0, last |-> Empty]
    BY DEF Init, NewCache
  <1> HIDE DEF fs
  <1>6. ca \in CacheType
    BY <1>2, <1>4, <1>5, CacheAssumption DEF CacheType
  <1>7. QED BY <1>1, <1>6 DEF Init, TypeInv, TypeOK, Method, Outcome

\* TypeInv is inductive: the counter never goes below 0, because it is exact.
LEMMA NextTypes == TypeInv /\ [Next]_vars => TypeInv'
  <1> SUFFICES ASSUME TypeInv, [Next]_vars PROVE TypeInv'
    OBVIOUS
  <1>1. CacheShape(ca) /\ Exact(ca) /\ ca \in CacheType /\ ca.sizes \in SizesType
    BY DEF TypeInv, BytesInv, TypeOK, CacheType, SizesType
  <1>2. BytesInv'
    BY NextBytes DEF TypeInv
  <1>3. ca'.use \in Nat /\ ca'.frames \in Seq(Frame) \ {<<>>}
    BY <1>2, FromBytes DEF BytesInv
  <1>4. ASSUME NEW fs, NEW z \in SizesType, NEW u, NEW v \in Value,
               ca' = [frames |-> fs, sizes |-> z, use |-> u, last |-> v],
               ret' \in [call : Method, outcome : Outcome]
        PROVE  TypeInv'
    BY <1>2, <1>3, <1>4 DEF TypeInv, TypeOK, CacheType, SizesType
  <1>5. ca = [frames |-> ca.frames, sizes |-> ca.sizes, use |-> ca.use, last |-> ca.last]
        /\ ca.last \in Value
    BY <1>1 DEF CacheType
  <1>6. \A call \in Method, outcome \in Outcome :
          Returns(call, outcome) => ret' \in [call : Method, outcome : Outcome]
    BY DEF Returns
  <1>7. ASSUME NEW k \in Key, NEW v \in Value, NEW lim \in Limits, DoAdd(k, v, lim)
        PROVE  TypeInv'
    <2>1. ca' = Add(ca, k, v, lim) /\ ret' \in [call : Method, outcome : Outcome]
      BY <1>7 DEF DoAdd, Returns, AddOutcome, Method, Outcome
    <2>2. CASE AddOutcome(ca, k, v, lim) = "ok"
      <3>1. Put(ca.sizes, k, lim) \in SizesType
        BY <1>1, SizesKept
      <3>2. QED BY <1>4, <2>1, <2>2, <3>1 DEF Add
    <2>3. CASE AddOutcome(ca, k, v, lim) # "ok"
      <3>1. ca' = ca
        BY <2>1, <2>3 DEF Add
      <3>2. QED BY <1>1, <1>4, <1>5, <2>1, <3>1
    <2>4. QED BY <2>2, <2>3
  <1>8. ASSUME NEW k \in Key, NEW v \in Value, DoUpdate(k, v)
        PROVE  TypeInv'
    <2>1. ca' = Update(ca, k, v) /\ ret' \in [call : Method, outcome : Outcome]
      BY <1>8 DEF DoUpdate, Returns, UpdateOutcome, Method, Outcome
    <2>2. ca' = [frames |-> ca'.frames, sizes |-> ca.sizes, use |-> ca'.use, last |-> ca.last]
      BY <1>5, <2>1 DEF Update
    <2>3. QED BY <1>1, <1>4, <1>5, <2>1, <2>2
  <1>9. CASE DoPush
    <2>1. ca' = [frames |-> ca'.frames, sizes |-> ca.sizes, use |-> ca.use, last |-> ca.last]
      BY <1>5, <1>9 DEF DoPush, Push
    <2>2. ret' \in [call : Method, outcome : Outcome]
      BY <1>6, <1>9 DEF DoPush, Method, Outcome
    <2>3. QED BY <1>1, <1>4, <1>5, <2>1, <2>2
  <1>10. CASE DoPop
    <2> DEFINE D == DOMAIN ca.sizes
                      \ UNION {DOMAIN ca.frames[i] :
                                 i \in {j \in DOMAIN ca.frames : j > Len(ca.frames) - 1}}
    <2>1. Restrict(ca.sizes, D) \in SizesType
      <3>1. D \in SUBSET DOMAIN ca.sizes
        OBVIOUS
      <3> HIDE DEF D
      <3>2. QED BY <1>1, <3>1, SizesKept
    <2>2. ca' = [frames |-> ca'.frames, sizes |-> Restrict(ca.sizes, D), use |-> ca'.use,
                 last |-> ca.last]
      BY <1>5, <1>10 DEF DoPop, Pop, PopN, Levels
    <2>3. ret' \in [call : Method, outcome : Outcome]
      BY <1>6, <1>10 DEF DoPop, Method, Outcome
    <2> HIDE DEF D
    <2>4. QED BY <1>4, <1>5, <2>1, <2>2, <2>3
  <1>11. CASE DoReset
    <2>1. ca' = [frames |-> ca'.frames, sizes |-> ca.sizes, use |-> ca'.use, last |-> ca.last]
      BY <1>5, <1>11 DEF DoReset, Reset
    <2>2. ret' \in [call : Method, outcome : Outcome]
      BY <1>6, <1>11 DEF DoReset, Method, Outcome
    <2>3. QED BY <1>1, <1>4, <1>5, <2>1, <2>2
  <1>12. CASE DoLast
    <2>1. ca' = [frames |-> ca.frames, sizes |-> ca.sizes, use |-> ca.use, last |-> Empty]
      BY <1>5, <1>12 DEF DoLast, ForgetLast
    <2>2. ret' \in [call : Method, outcome : Outcome]
      BY <1>6, <1>12 DEF DoLast, Method, Outcome
    <2>3. QED BY <1>1, <1>4, <2>1, <2>2, CacheAssumption
  <1>13. CASE UNCHANGED vars
    BY <1>2, <1>13 DEF vars, TypeInv, TypeOK
  <1>14. QED BY <1>7, <1>8, <1>9, <1>10, <1>11, <1>12, <1>13 DEF Next

\* cache.Cache: the cache and its answers are well formed, and never is there no frame.
THEOREM CacheTyped == Spec => []TypeOK
  <1>1. TypeInv => TypeOK
    BY DEF TypeInv
  <1>2. QED BY InitTypes, NextTypes, <1>1, PTL DEF Spec

-----------------------------------------------------------------------------
(* The memory that is implemented.                                         *)

\* KeyInOneFrame, of any cache.
Disjoint(c) ==
  \A i, j \in DOMAIN c.frames :
    i # j => DOMAIN c.frames[i] \cap DOMAIN c.frames[j] = {}

\* What Get and frameOf answer is where the symbol is, if it is in one frame.
LEMMA InFrame ==
  ASSUME NEW c, CacheShape(c), Disjoint(c), NEW i \in DOMAIN c.frames,
         NEW k \in DOMAIN c.frames[i]
  PROVE  k \in Cached(c) /\ FrameOf(c, k) = i /\ Get(c, k) = c.frames[i][k]
  <1>1. k \in Cached(c)
    BY DEF Cached
  <1>2. DOMAIN c.frames = 1 .. Len(c.frames) /\ Len(c.frames) \in Nat
    BY LenProperties DEF CacheShape
  <1>3. FrameOf(c, k) \in DOMAIN c.frames /\ k \in DOMAIN c.frames[FrameOf(c, k)]
    BY FrameOfFinds
  <1>4. FrameOf(c, k) = i
    BY <1>3 DEF Disjoint
  <1>5. QED BY <1>1, <1>4 DEF Get

\* The symbols of some of the frames.
KeysOf(c, J) == UNION {DOMAIN c.frames[i] : i \in J}

\* The length of what is held for a symbol.
Lengths(c) == [k \in Cached(c) |-> Size[Get(c, k)]]

\* Counted by symbol or by frame, the bytes are the same.
LEMMA HeldBytes ==
  ASSUME NEW c, CacheShape(c), Disjoint(c), Counted(c.frames)
  PROVE  /\ IsFiniteSet(Cached(c))
         /\ \A k \in Cached(c) : Lengths(c)[k] \in Nat
         /\ SumFunctionOnSet(Lengths(c), Cached(c)) = StackSize(c.frames)
  <1> DEFINE D == DOMAIN c.frames
             f == Lengths(c)
             b == BytesAt(c.frames)
             Agree(J) == /\ IsFiniteSet(KeysOf(c, J))
                         /\ SumFunctionOnSet(f, KeysOf(c, J)) = SumFunctionOnSet(b, J)
             T == {J \in SUBSET D : ~ Agree(J)}
  <1>1. /\ IsFiniteSet(D)
        /\ \A i \in D : c.frames[i] \in Frame /\ b[i] = FrameSize(c.frames[i]) /\ b[i] \in Nat
        /\ StackSize(c.frames) = SumFunctionOnSet(b, D)
    BY StackBytes
  <1>2. \A k \in Cached(c) : \E i \in D : k \in DOMAIN c.frames[i]
    BY DEF Cached
  <1>3. \A i \in D : \A k \in DOMAIN c.frames[i] :
          k \in Cached(c) /\ f[k] = Size[c.frames[i][k]] /\ f[k] \in Nat
    <2> SUFFICES ASSUME NEW i \in D, NEW k \in DOMAIN c.frames[i]
                 PROVE  k \in Cached(c) /\ f[k] = Size[c.frames[i][k]] /\ f[k] \in Nat
      OBVIOUS
    <2>1. k \in Cached(c) /\ Get(c, k) = c.frames[i][k]
      BY InFrame
    <2>2. c.frames[i][k] \in Value
      BY <1>1, FrameDef
    <2>3. QED BY <2>1, <2>2, CacheAssumption DEF Lengths
  <1>4. Agree(D)
    <2>1. SUFFICES ASSUME T # {} PROVE FALSE
      OBVIOUS
    <2>2. PICK J \in T : \A r \in T : r \subseteq J => r = J
      <3>1. T \subseteq SUBSET D
        OBVIOUS
      <3> HIDE DEF T, D
      <3>2. QED BY <1>1, <2>1, <3>1, MinimalSet
    <2>3. J \in SUBSET D /\ ~ Agree(J) /\ IsFiniteSet(J)
      BY <1>1, <2>2, FS_Subset
    <2>4. J # {}
      <3>1. KeysOf(c, {}) = {}
        BY DEF KeysOf
      <3>2. \A g : SumFunctionOnSet(g, {}) = 0
        BY SumOfPick, FS_EmptySet
      <3>3. Agree({})
        BY <3>1, <3>2, FS_EmptySet
      <3>4. QED BY <2>3, <3>3
    <2> DEFINE x == Pick(J)
               L == J \ {x}
               X == DOMAIN c.frames[x]
               K == KeysOf(c, J)
    <2>5. x \in D /\ x \in J /\ L \in SUBSET D /\ L # J /\ L \subseteq J
      BY <2>3, <2>4, PickIsElement
    <2>6. Agree(L)
      BY <2>2, <2>5
    <2>7. K = KeysOf(c, L) \cup X /\ KeysOf(c, L) \cap X = {}
      <3>1. K = KeysOf(c, L) \cup X
        BY <2>5 DEF KeysOf
      <3>2. KeysOf(c, L) \cap X = {}
        BY <2>3, <2>5 DEF KeysOf, Disjoint
      <3>3. QED BY <3>1, <3>2
    <2>8. IsFiniteSet(X)
      BY <2>5 DEF Counted
    <2>9. IsFiniteSet(K)
      BY <2>6, <2>7, <2>8, FS_Union
    <2>10. \A k \in K : f[k] \in Nat
      BY <1>3, <2>3 DEF KeysOf
    <2> HIDE DEF f, K, X, L, x, b
    <2>11. SumFunctionOnSet(f, K) = SumFunctionOnSet(f, X) + SumFunctionOnSet(f, K \ X)
      <3>1. X \in SUBSET K
        BY <2>7
      <3>2. QED BY <2>9, <2>10, <3>1, SumOfParts
    <2>12. K \ X = KeysOf(c, L)
      BY <2>7
    <2>13. SumFunctionOnSet(f, X) = b[x]
      <3> DEFINE g == [k \in DOMAIN c.frames[x] |-> Size[c.frames[x][k]]]
      <3>1. FrameSize(c.frames[x]) = SumFunctionOnSet(g, X)
        BY DEF FrameSize, SumFunction, X
      <3>2. \A k \in X : f[k] = g[k]
        BY <1>3, <2>5 DEF X
      <3> HIDE DEF g
      <3>3. SumFunctionOnSet(f, X) = SumFunctionOnSet(g, X)
        BY <2>8, <3>2, SumOfEqual
      <3>4. QED BY <1>1, <2>5, <3>1, <3>3
    <2>14. SumFunctionOnSet(b, J) = b[x] + SumFunctionOnSet(b, L)
      <3>1. \A i \in J : b[i] \in Nat
        BY <1>1, <2>3
      <3>2. QED BY <2>3, <2>5, <3>1, SumOfRest DEF L
    <2>15. Agree(J)
      BY <2>6, <2>9, <2>11, <2>12, <2>13, <2>14 DEF K
    <2>16. QED BY <2>3, <2>15
  <1>5. KeysOf(c, D) = Cached(c)
    BY DEF KeysOf, Cached
  <1>6. QED BY <1>1, <1>2, <1>3, <1>4, <1>5

\* Every length fits the 16 bits in which it is compared with a limit.
ShortValues == \A v \in Value : Size[v] < U16

\* What the cache says of a symbol.
Entry(c, k) == [level |-> FrameOf(c, k), val |-> Get(c, k), lim |-> LimitOf(c, k)]

\* The bytes the promised memory counts are the bytes of the frames.
LEMMA TotalIsStack ==
  ASSUME NEW c, CacheShape(c), Disjoint(c), Counted(c.frames)
  PROVE  Promise!Total([k \in Cached(c) |-> Entry(c, k)]) = StackSize(c.frames)
  <1> DEFINE h == [k \in Cached(c) |-> Entry(c, k)]
  <1>1. DOMAIN h = Cached(c) /\ \A k \in Cached(c) : h[k].val = Get(c, k)
    BY DEF Entry
  <1> HIDE DEF h
  <1>2. Lengths(c) = [k \in DOMAIN h |-> Size[h[k].val]] /\ DOMAIN Lengths(c) = Cached(c)
    BY <1>1 DEF Lengths
  <1>3. Promise!Total(h) = SumFunctionOnSet(Lengths(c), Cached(c))
    BY <1>2 DEF Promise!Total, Promise!SumFunction, Promise!SumFunctionOnSet,
      Promise!FoldFunctionOnSet, Promise!MapThenFoldSet, SumFunctionOnSet, FoldFunctionOnSet,
      MapThenFoldSet
  <1>4. QED BY <1>3, HeldBytes DEF h

\* A short value is over its limit exactly when it is longer.
LEMMA OverLimitIsLonger ==
  ASSUME ShortValues, NEW v \in Value, NEW lim \in Nat
  PROVE  OverLimit(v, lim) <=> ~ Promise!Conforms(v, lim)
  <1>1. Size[v] \in Nat /\ U16 \in Nat \ {0} /\ Size[v] < U16
    BY CacheAssumption DEF ShortValues
  <1>2. Size[v] % U16 = Size[v]
    BY <1>1
  <1>3. QED BY <1>1, <1>2 DEF OverLimit, Promise!Conforms

\* A symbol with the same value in the same frame of two caches.
LEMMA SameEntry ==
  ASSUME NEW c, CacheShape(c), Disjoint(c), NEW d, CacheShape(d), Disjoint(d),
         NEW i \in DOMAIN c.frames, i \in DOMAIN d.frames,
         NEW k \in DOMAIN c.frames[i], k \in DOMAIN d.frames[i],
         c.frames[i][k] = d.frames[i][k]
  PROVE  /\ k \in Cached(c) /\ FrameOf(c, k) = i
         /\ FrameOf(d, k) = i /\ Get(d, k) = Get(c, k)
  <1>1. k \in Cached(c) /\ FrameOf(c, k) = i /\ Get(c, k) = c.frames[i][k]
    BY InFrame
  <1>2. FrameOf(d, k) = i /\ Get(d, k) = d.frames[i][k]
    BY InFrame
  <1>3. QED BY <1>1, <1>2

\* The invariants before and after a step.
LEMMA BeforeAndAfter ==
  ASSUME IInv, BytesInv, [Next]_vars
  PROVE  /\ IInv' /\ BytesInv'
         /\ CacheShape(ca) /\ Disjoint(ca) /\ Exact(ca)
         /\ CacheShape(ca') /\ Disjoint(ca') /\ Exact(ca')
  BY NextIInv, NextBytes DEF IInv, BytesInv, KeyInOneFrame, Disjoint

\* What an accepted addition does to the entries.
LEMMA AddEntries ==
  ASSUME NEW c, CacheShape(c), Disjoint(c), NEW k \in Key, NEW v \in Value, NEW lim,
         AddOutcome(c, k, v, lim) = "ok", Disjoint(Add(c, k, v, lim))
  PROVE  LET d == Add(c, k, v, lim) IN
         /\ k \notin Cached(c)
         /\ Cached(d) = Cached(c) \cup {k}
         /\ Entry(d, k) = [level |-> Levels(c), val |-> v, lim |-> lim]
         /\ \A x \in Cached(c) : Entry(d, x) = Entry(c, x)
         /\ Levels(d) = Levels(c)
  <1> DEFINE n == Len(c.frames)
             d == Add(c, k, v, lim)
             D == DOMAIN c.frames
  <1>1. /\ CacheShape(d) /\ Len(d.frames) = n
        /\ \A i \in D : DOMAIN d.frames[i] =
                          IF i = n THEN DOMAIN c.frames[i] \cup {k} ELSE DOMAIN c.frames[i]
        /\ FrameOf(c, k) = 0
    BY AddFrames
  <1>2. D = 1 .. n /\ n \in D /\ DOMAIN d.frames = D
    BY <1>1, LenProperties, EmptySeq DEF CacheShape
  <1>3. /\ d.frames = [c.frames EXCEPT ![n] = Put(c.frames[n], k, v)]
        /\ d.sizes = Put(c.sizes, k, lim)
    BY DEF Add, Levels
  <1>4. \A i \in D : \A x \in DOMAIN c.frames[i] : x # k => d.frames[i][x] = c.frames[i][x]
    BY <1>2, <1>3 DEF Put
  <1>5. d.frames[n][k] = v
    BY <1>2, <1>3 DEF Put
  <1>6. \A x : LimitOf(d, x) = IF x = k THEN lim ELSE LimitOf(c, x)
    BY <1>3 DEF LimitOf, Put
  <1>7. \A i \in D : k \notin DOMAIN c.frames[i]
    BY <1>1, FrameOfFinds
  <1>8. Cached(d) = Cached(c) \cup {k}
    <2>1. \A i \in D : DOMAIN d.frames[i] \subseteq DOMAIN c.frames[i] \cup {k}
      BY <1>1
    <2>2. k \in DOMAIN d.frames[n] /\ \A i \in D : DOMAIN c.frames[i] \subseteq DOMAIN d.frames[i]
      BY <1>1, <1>2
    <2> HIDE DEF d, n
    <2>3. QED BY <1>2, <2>1, <2>2 DEF Cached
  <1>9. Disjoint(d)
    OBVIOUS
  <1> HIDE DEF d, D
  <1>10. Entry(d, k) = [level |-> n, val |-> v, lim |-> lim]
    <2>1. k \in DOMAIN d.frames[n]
      BY <1>1, <1>2
    <2>2. FrameOf(d, k) = n /\ Get(d, k) = v
      BY <1>1, <1>2, <1>5, <1>9, <2>1, InFrame
    <2>3. QED BY <1>6, <2>2 DEF Entry
  <1>11. ASSUME NEW x \in Cached(c) PROVE Entry(d, x) = Entry(c, x)
    <2>1. PICK i \in D : x \in DOMAIN c.frames[i]
      BY DEF Cached, D
    <2>2. x # k /\ x \in DOMAIN d.frames[i] /\ d.frames[i][x] = c.frames[i][x]
      BY <1>1, <1>4, <1>7, <2>1
    <2>3. FrameOf(d, x) = FrameOf(c, x) /\ Get(d, x) = Get(c, x)
      BY <1>1, <1>2, <1>9, <2>1, <2>2, SameEntry DEF D
    <2>4. QED BY <1>6, <2>2, <2>3 DEF Entry
  <1>12. k \notin Cached(c)
    BY <1>7 DEF Cached, D
  <1>13. QED BY <1>1, <1>8, <1>10, <1>11, <1>12 DEF Levels, d

\* An Update that is made changes one value.
LEMMA UpdateEntries ==
  ASSUME NEW c, CacheShape(c), Disjoint(c), NEW k \in Key, NEW v \in Value,
         UpdateOutcome(c, k, v) = "ok", Disjoint(Update(c, k, v))
  PROVE  LET d == Update(c, k, v) IN
         /\ k \in Cached(c)
         /\ Cached(d) = Cached(c)
         /\ Entry(d, k) = [Entry(c, k) EXCEPT !.val = v]
         /\ \A x \in Cached(c) : x # k => Entry(d, x) = Entry(c, x)
         /\ Levels(d) = Levels(c)
  <1> DEFINE j == FrameOf(c, k)
             d == Update(c, k, v)
             D == DOMAIN c.frames
  <1>1. /\ CacheShape(d) /\ Len(d.frames) = Len(c.frames)
        /\ \A i \in D : DOMAIN d.frames[i] = DOMAIN c.frames[i]
    BY UpdateFrames
  <1>2. DOMAIN d.frames = D
    BY <1>1, LenProperties DEF CacheShape
  <1>3. j # 0 /\ j \in D /\ k \in DOMAIN c.frames[j]
    BY FrameOfFinds DEF UpdateOutcome
  <1>4. /\ d.frames = [c.frames EXCEPT ![j] = [c.frames[j] EXCEPT ![k] = v]]
        /\ d.sizes = c.sizes
    BY DEF Update, CacheShape
  <1>5. \A i \in D : \A x \in DOMAIN c.frames[i] : x # k => d.frames[i][x] = c.frames[i][x]
    BY <1>3, <1>4
  <1>6. d.frames[j][k] = v
    BY <1>3, <1>4
  <1>7. \A x : LimitOf(d, x) = LimitOf(c, x)
    BY <1>4 DEF LimitOf
  <1>8. Cached(d) = Cached(c) /\ k \in Cached(c)
    BY <1>1, <1>2, <1>3 DEF Cached
  <1>9. Disjoint(d)
    OBVIOUS
  <1> HIDE DEF d, D
  <1>10. Entry(d, k) = [Entry(c, k) EXCEPT !.val = v]
    <2>1. k \in DOMAIN d.frames[j] /\ j \in DOMAIN d.frames
      BY <1>1, <1>2, <1>3
    <2>2. FrameOf(d, k) = j /\ Get(d, k) = v
      <3> HIDE DEF j
      <3>1. QED BY <1>1, <1>6, <1>9, <2>1, InFrame
    <2>3. QED BY <1>7, <2>2 DEF Entry
  <1>11. ASSUME NEW x \in Cached(c), x # k PROVE Entry(d, x) = Entry(c, x)
    <2>1. PICK i \in D : x \in DOMAIN c.frames[i]
      BY DEF Cached, D
    <2>2. x \in DOMAIN d.frames[i] /\ d.frames[i][x] = c.frames[i][x]
      BY <1>1, <1>5, <1>11, <2>1
    <2>3. FrameOf(d, x) = FrameOf(c, x) /\ Get(d, x) = Get(c, x)
      BY <1>1, <1>2, <1>9, <2>1, <2>2, SameEntry DEF D
    <2>4. QED BY <1>7, <2>3 DEF Entry
  <1>12. QED BY <1>1, <1>8, <1>10, <1>11 DEF Levels, d

\* Frames that go take their entries with them, and no other.
LEMMA LowerEntries ==
  ASSUME NEW c, CacheShape(c), Disjoint(c), NEW d, CacheShape(d), Disjoint(d),
         NEW m \in Nat, m <= Len(c.frames),
         \A i \in DOMAIN d.frames :
           \/ i <= m /\ i \in DOMAIN c.frames /\ d.frames[i] = c.frames[i]
           \/ DOMAIN d.frames[i] = {},
         \A i \in DOMAIN c.frames : i <= m => i \in DOMAIN d.frames /\ d.frames[i] = c.frames[i]
  PROVE  /\ Cached(d) = {k \in Cached(c) : FrameOf(c, k) <= m}
         /\ \A k \in Cached(d) : FrameOf(d, k) = FrameOf(c, k) /\ Get(d, k) = Get(c, k)
  <1>1. ASSUME NEW k \in Cached(d)
        PROVE  /\ k \in Cached(c) /\ FrameOf(c, k) <= m
               /\ FrameOf(d, k) = FrameOf(c, k) /\ Get(d, k) = Get(c, k)
    <2>1. PICK i \in DOMAIN d.frames : k \in DOMAIN d.frames[i]
      BY DEF Cached
    <2>2. i <= m /\ i \in DOMAIN c.frames /\ d.frames[i] = c.frames[i]
      BY <2>1
    <2>3. /\ k \in Cached(c) /\ FrameOf(c, k) = i
          /\ FrameOf(d, k) = i /\ Get(d, k) = Get(c, k)
      BY <2>1, <2>2, SameEntry
    <2>4. QED BY <2>2, <2>3
  <1>2. ASSUME NEW k \in Cached(c), FrameOf(c, k) <= m
        PROVE  k \in Cached(d)
    <2>1. PICK i \in DOMAIN c.frames : k \in DOMAIN c.frames[i]
      BY DEF Cached
    <2>2. FrameOf(c, k) = i
      BY <2>1, InFrame
    <2>3. QED BY <1>2, <2>1, <2>2 DEF Cached
  <1>3. QED BY <1>1, <1>2
\* What is held and counted before and after a step.
LEMMA HeldBeforeAndAfter ==
  ASSUME IInv, BytesInv, [Next]_vars
  PROVE  /\ DOMAIN Held = Cached(ca) /\ \A k \in Cached(ca) : Held[k] = Entry(ca, k)
         /\ DOMAIN Held' = Cached(ca') /\ \A k \in Cached(ca') : Held'[k] = Entry(ca', k)
         /\ Held' = [k \in Cached(ca') |-> Entry(ca', k)]
         /\ Promise!Total(Held) = StackSize(ca.frames)
         /\ Promise!Total(Held') = StackSize(ca'.frames)
         /\ Promise!Fits(Held) /\ Promise!Fits(Held')
  <1>1. /\ CacheShape(ca) /\ Disjoint(ca) /\ Exact(ca)
        /\ CacheShape(ca') /\ Disjoint(ca') /\ Exact(ca')
    BY BeforeAndAfter
  <1>2. Held = [k \in Cached(ca) |-> Entry(ca, k)] /\ Held' = [k \in Cached(ca') |-> Entry(ca', k)]
    BY DEF Held, Entry
  <1>3. Promise!Total(Held) = StackSize(ca.frames) /\ Promise!Total(Held') = StackSize(ca'.frames)
    BY <1>1, <1>2, TotalIsStack DEF Exact
  <1>4. CacheSize > 0 => StackSize(ca.frames) <= CacheSize /\ StackSize(ca'.frames) <= CacheSize
    BY <1>1 DEF Exact
  <1>5. Promise!Fits(Held) /\ Promise!Fits(Held')
    BY <1>3, <1>4, CacheAssumption DEF Promise!Fits
  <1>6. QED BY <1>2, <1>3, <1>5

\* A value that the capacity refuses would not fit.
LEMMA TooMuch ==
  ASSUME IInv, BytesInv, NEW k \in Key, k \notin Cached(ca), NEW v \in Value, NEW lim,
         Size[v] > 0, CheckCapacity(ca.use, v) = 0
  PROVE  ~ Promise!Fits(Promise!With(k, [level |-> Levels(ca), val |-> v, lim |-> lim]))
  <1> DEFINE h == Promise!With(k, [level |-> Levels(ca), val |-> v, lim |-> lim])
             f == [x \in DOMAIN h |-> Size[h[x].val]]
             C == Cached(ca)
             g == Lengths(ca)
  <1>1. CacheShape(ca) /\ Disjoint(ca) /\ Counted(ca.frames) /\ ca.use = StackSize(ca.frames)
    BY DEF IInv, BytesInv, Exact, KeyInOneFrame, Disjoint
  <1>2. /\ IsFiniteSet(C) /\ DOMAIN Held = C
        /\ \A x \in C : Held[x] = Entry(ca, x)
    BY <1>1, HeldBytes DEF Held, Entry
  <1>3. /\ \A x \in C : g[x] \in Nat
        /\ SumFunctionOnSet(g, C) = StackSize(ca.frames)
    BY <1>1, HeldBytes
  <1>4. DOMAIN h = C \cup {k} /\ h[k].val = v /\ \A x \in C : h[x] = Held[x]
    BY <1>2 DEF Promise!With
  <1> HIDE DEF h
  <1>5. f[k] = Size[v] /\ \A x \in C : f[x] = g[x]
    BY <1>2, <1>4 DEF Lengths, Entry
  <1>6. Promise!Total(h) = SumFunctionOnSet(f, C \cup {k})
    BY <1>4 DEF Promise!Total, Promise!SumFunction, Promise!SumFunctionOnSet,
      Promise!FoldFunctionOnSet, Promise!MapThenFoldSet, SumFunctionOnSet, FoldFunctionOnSet,
      MapThenFoldSet
  <1> HIDE DEF f, g, C
  <1>7. SumFunctionOnSet(f, C \cup {k}) = f[k] + SumFunctionOnSet(f, (C \cup {k}) \ {k})
    <2>1. IsFiniteSet(C \cup {k})
      BY <1>2, FS_AddElement
    <2>2. \A x \in C \cup {k} : f[x] \in Nat
      BY <1>3, <1>5, CacheAssumption
    <2>3. k \in C \cup {k}
      OBVIOUS
    <2>4. QED BY <2>1, <2>2, <2>3, SumOfRest
  <1>8. (C \cup {k}) \ {k} = C
    BY DEF C
  <1>9. SumFunctionOnSet(f, C) = SumFunctionOnSet(g, C)
    BY <1>2, <1>5, SumOfEqual
  <1>10. Promise!Total(h) = Size[v] + ca.use
    BY <1>1, <1>3, <1>5, <1>6, <1>7, <1>8, <1>9
  <1>11. ca.use \in Nat /\ Size[v] \in Nat /\ CacheSize \in Nat
    BY <1>1, StackBytes, CacheAssumption
  <1>12. CacheSize > 0 /\ ca.use + Size[v] > CacheSize
    BY <1>11 DEF CheckCapacity
  <1>13. ~ Promise!Fits(h)
    BY <1>10, <1>11, <1>12 DEF Promise!Fits
  <1>14. QED BY <1>13 DEF h

\* Add keeps the promise: it succeeds exactly when it must not fail.
LEMMA AddRefines ==
  ASSUME ShortValues, IInv, BytesInv, NEW k \in Key, NEW v \in Value, NEW lim \in Limits,
         DoAdd(k, v, lim)
  PROVE  Promise!Add(k, v, lim)
  <1> DEFINE h == Promise!With(k, [level |-> Levels(ca), val |-> v, lim |-> lim])
             out == AddOutcome(ca, k, v, lim)
  <1>1. [Next]_vars
    BY DEF Next
  <1>2. ca' = Add(ca, k, v, lim) /\ ret' = [call |-> "Add", outcome |-> out]
    BY DEF DoAdd, Returns
  <1>3. /\ CacheShape(ca) /\ Disjoint(ca) /\ Exact(ca) /\ Disjoint(ca')
    BY <1>1, BeforeAndAfter
  <1>4. /\ DOMAIN Held = Cached(ca) /\ \A x \in Cached(ca) : Held[x] = Entry(ca, x)
        /\ Held' = [x \in Cached(ca') |-> Entry(ca', x)]
        /\ Promise!Fits(Held')
    BY <1>1, HeldBeforeAndAfter
  <1>5. lim \in Nat
    BY LimitsAssumption, CacheAssumption DEF Limit
  <1>6. CASE out = "ok"
    <2>1. /\ k \notin Cached(ca) /\ Cached(ca') = Cached(ca) \cup {k}
          /\ Entry(ca', k) = [level |-> Levels(ca), val |-> v, lim |-> lim]
          /\ \A x \in Cached(ca) : Entry(ca', x) = Entry(ca, x)
          /\ Levels(ca') = Levels(ca)
      BY <1>2, <1>3, <1>6, AddEntries
    <2>2. Held' = h
      BY <1>4, <2>1 DEF Promise!With
    <2>3. Promise!Conforms(v, lim)
      BY <1>5, <1>6, OverLimitIsLonger DEF AddOutcome
    <2>4. Promise!Fits(h)
      BY <1>4, <2>2
    <2>5. Promise!Answers("Add", TRUE)
      BY <1>2, <1>6 DEF Promise!Answers
    <2> HIDE DEF h, out
    <2>6. QED BY <1>4, <2>1, <2>2, <2>3, <2>4, <2>5 DEF Promise!Add, h
  <1>7. CASE out # "ok"
    <2>1. ca' = ca
      BY <1>2, <1>7 DEF Add
    <2>2. Held' = Held /\ Levels(ca') = Levels(ca)
      BY <2>1 DEF Held
    <2>3. ~ (k \notin DOMAIN Held /\ Promise!Conforms(v, lim) /\ Promise!Fits(h))
      <3>1. CASE OverLimit(v, lim)
        BY <1>5, <3>1, OverLimitIsLonger
      <3>2. CASE FrameOf(ca, k) # 0
        BY <1>3, <1>4, <3>2, FrameOfFinds DEF Cached
      <3>3. CASE FrameOf(ca, k) = 0 /\ ~ OverLimit(v, lim)
        <4>1. Levels(ca) # 0
          BY <1>3, EmptySeq DEF CacheShape, Levels
        <4>2. Size[v] > 0 /\ CheckCapacity(ca.use, v) = 0
          BY <1>7, <3>3, <4>1 DEF AddOutcome
        <4>3. k \notin Cached(ca)
          BY <1>3, <3>3, FrameOfFinds DEF Cached
        <4>4. QED BY <4>2, <4>3, TooMuch
      <3>4. QED BY <3>1, <3>2, <3>3
    <2>4. Promise!Answers("Add", FALSE)
      BY <1>2, <1>7 DEF Promise!Answers
    <2> HIDE DEF h, out
    <2>5. QED BY <2>2, <2>3, <2>4 DEF Promise!Add, h
  <1>8. QED BY <1>6, <1>7

\* A size limit is a number of 16 bits.
LEMMA LimitsAreNumbers == Limits \subseteq Nat
  BY LimitsAssumption, CacheAssumption DEF Limit

\* Every recorded limit is a number.
LimitsTyped == \A x \in DOMAIN ca.sizes : ca.sizes[x] \in Nat

\* Update keeps the promise: refused, it has no effect.
LEMMA UpdateRefines ==
  ASSUME ShortValues, IInv, BytesInv, NEW k \in Key, NEW v \in Value, DoUpdate(k, v),
         LimitsTyped
  PROVE  Promise!Update(k, v)
  <1> DEFINE h == Promise!With(k, [Held[k] EXCEPT !.val = v])
             out == UpdateOutcome(ca, k, v)
  <1>1. [Next]_vars
    BY DEF Next
  <1>2. ca' = Update(ca, k, v) /\ ret' = [call |-> "Update", outcome |-> out]
    BY DEF DoUpdate, Returns
  <1>3. /\ CacheShape(ca) /\ Disjoint(ca) /\ Disjoint(ca')
    BY <1>1, BeforeAndAfter
  <1>4. /\ DOMAIN Held = Cached(ca) /\ \A x \in Cached(ca) : Held[x] = Entry(ca, x)
        /\ Held' = [x \in Cached(ca') |-> Entry(ca', x)]
        /\ Promise!Fits(Held')
    BY <1>1, HeldBeforeAndAfter
  <1>5. CASE out = "ok"
    <2>1. /\ k \in Cached(ca) /\ Cached(ca') = Cached(ca)
          /\ Entry(ca', k) = [Entry(ca, k) EXCEPT !.val = v]
          /\ \A x \in Cached(ca) : x # k => Entry(ca', x) = Entry(ca, x)
          /\ Levels(ca') = Levels(ca)
      BY <1>2, <1>3, <1>5, UpdateEntries
    <2>2. Held' = h
      BY <1>4, <2>1 DEF Promise!With
    <2>3. Promise!Conforms(v, Held[k].lim)
      <3>1. Held[k].lim = LimitOf(ca, k)
        BY <1>4, <2>1 DEF Entry
      <3>2. LimitOf(ca, k) \in Nat
        BY DEF LimitsTyped, LimitOf
      <3>3. ~ OverLimit(v, LimitOf(ca, k))
        BY <1>5 DEF UpdateOutcome
      <3>4. QED BY <3>1, <3>2, <3>3, OverLimitIsLonger
    <2>4. Promise!Fits(h)
      BY <1>4, <2>2
    <2>5. Promise!Answers("Update", TRUE)
      BY <1>2, <1>5 DEF Promise!Answers
    <2> HIDE DEF h, out
    <2>6. QED BY <1>4, <2>1, <2>2, <2>3, <2>4, <2>5 DEF Promise!Update, h
  <1>6. CASE out # "ok"
    <2>1. ca' = ca
      BY <1>2, <1>6 DEF Update
    <2>2. Held' = Held /\ Levels(ca') = Levels(ca)
      BY <2>1 DEF Held
    <2> HIDE DEF h, out
    <2>3. QED BY <1>2, <1>6, <2>2 DEF Promise!Update
  <1>7. QED BY <1>5, <1>6
\* Push leaves every entry as it is.
LEMMA PushRefines ==
  ASSUME IInv, BytesInv, DoPush
  PROVE  Promise!Push
  <1> DEFINE n == Len(ca.frames)
  <1>1. [Next]_vars
    BY DEF Next
  <1>2. ca' = Push(ca) /\ ret' = [call |-> "Push", outcome |-> "ok"]
    BY DEF DoPush, Returns
  <1>3. CacheShape(ca) /\ Disjoint(ca) /\ CacheShape(ca') /\ Disjoint(ca')
    BY <1>1, BeforeAndAfter
  <1>4. /\ Len(ca'.frames) = n + 1
        /\ \A i \in DOMAIN ca.frames : ca'.frames[i] = ca.frames[i]
        /\ DOMAIN ca'.frames[n + 1] = {}
    BY <1>2, <1>3, PushFrames
  <1>5. DOMAIN ca'.frames = 1 .. n + 1 /\ DOMAIN ca.frames = 1 .. n /\ n \in Nat
    BY <1>3, <1>4, LenProperties DEF CacheShape
  <1>6. /\ \A i \in DOMAIN ca'.frames :
             \/ i <= n /\ i \in DOMAIN ca.frames /\ ca'.frames[i] = ca.frames[i]
             \/ DOMAIN ca'.frames[i] = {}
        /\ \A i \in DOMAIN ca.frames :
             i <= n => i \in DOMAIN ca'.frames /\ ca'.frames[i] = ca.frames[i]
    BY <1>4, <1>5
  <1>7. n \in Nat /\ n <= Len(ca.frames)
    BY <1>5
  <1>8. \A k \in Cached(ca) : FrameOf(ca, k) <= n
    BY <1>3, <1>5, InFrame DEF Cached
  <1> HIDE DEF n
  <1>9. /\ Cached(ca') = {k \in Cached(ca) : FrameOf(ca, k) <= n}
        /\ \A k \in Cached(ca') : FrameOf(ca', k) = FrameOf(ca, k) /\ Get(ca', k) = Get(ca, k)
    BY <1>3, <1>6, <1>7, LowerEntries
  <1>10. ca'.sizes = ca.sizes
    BY <1>2, <1>3 DEF Push, CacheShape
  <1>11. Held' = Held
    BY <1>8, <1>9, <1>10 DEF Held, LimitOf
  <1>12. QED BY <1>2, <1>4, <1>11 DEF Promise!Push, Promise!Answers, Levels, n

\* Pop frees the current level and nothing else.
LEMMA PopRefines ==
  ASSUME IInv, BytesInv, DoPop
  PROVE  Promise!Pop
  <1> DEFINE n == Len(ca.frames)
             m == n - 1
  <1>1. [Next]_vars
    BY DEF Next
  <1>2. ca' = PopN(ca, 1) /\ ret' = [call |-> "Pop", outcome |-> "ok"]
    BY DEF DoPop, Pop, Returns
  <1>3. CacheShape(ca) /\ Disjoint(ca) /\ CacheShape(ca') /\ Disjoint(ca')
    BY <1>1, BeforeAndAfter
  <1>4. /\ Len(ca'.frames) = IF n > 1 THEN n - 1 ELSE 1
        /\ \A i \in DOMAIN ca'.frames :
             IF n > 1 THEN i \in DOMAIN ca.frames /\ ca'.frames[i] = ca.frames[i]
             ELSE DOMAIN ca'.frames[i] = {}
    BY <1>2, <1>3, PopNFrames
  <1>5. DOMAIN ca'.frames = 1 .. Len(ca'.frames) /\ DOMAIN ca.frames = 1 .. n /\ n \in Nat \ {0}
    BY <1>3, LenProperties, EmptySeq DEF CacheShape
  <1>6. /\ \A i \in DOMAIN ca'.frames :
             \/ i <= m /\ i \in DOMAIN ca.frames /\ ca'.frames[i] = ca.frames[i]
             \/ DOMAIN ca'.frames[i] = {}
        /\ \A i \in DOMAIN ca.frames :
             i <= m => i \in DOMAIN ca'.frames /\ ca'.frames[i] = ca.frames[i]
    BY <1>4, <1>5
  <1>7. m \in Nat /\ m <= Len(ca.frames)
    BY <1>5
  <1> DEFINE D == DOMAIN ca.sizes
                    \ UNION {DOMAIN ca.frames[i] : i \in {j \in DOMAIN ca.frames : j > m}}
  <1>8. ca'.sizes = Restrict(ca.sizes, D)
    BY <1>2, <1>3 DEF PopN, Levels, CacheShape
  <1> HIDE DEF m
  <1>9. /\ Cached(ca') = {k \in Cached(ca) : FrameOf(ca, k) <= m}
        /\ \A k \in Cached(ca') : FrameOf(ca', k) = FrameOf(ca, k) /\ Get(ca', k) = Get(ca, k)
    BY <1>3, <1>6, <1>7, LowerEntries
  <1>10. ASSUME NEW k \in Cached(ca')
         PROVE  LimitOf(ca', k) = LimitOf(ca, k)
    <2>1. k \in Cached(ca) /\ FrameOf(ca, k) <= m
      BY <1>9
    <2>2. k \in DOMAIN ca.sizes
      BY <2>1 DEF IInv, LimitsKnown
    <2>3. \A j \in DOMAIN ca.frames : j > m => k \notin DOMAIN ca.frames[j]
      <3> SUFFICES ASSUME NEW j \in DOMAIN ca.frames, j > m, k \in DOMAIN ca.frames[j]
                   PROVE  FALSE
        OBVIOUS
      <3>1. FrameOf(ca, k) = j
        BY <1>3, InFrame
      <3>2. QED BY <1>5, <1>7, <2>1, <3>1
    <2>4. k \in D
      BY <2>2, <2>3
    <2> HIDE DEF D
    <2>5. QED BY <1>8, <2>2, <2>4 DEF LimitOf, Restrict
  <1> HIDE DEF D
  <1>11. Held' = Promise!Restrict(Held, Promise!UpTo(m))
    <2>1. Promise!UpTo(m) = Cached(ca')
      BY <1>9 DEF Held, Promise!UpTo
    <2>2. Held' = [k \in Cached(ca') |-> Held[k]]
      BY <1>9, <1>10 DEF Held
    <2>3. QED BY <2>1, <2>2 DEF Promise!Restrict
  <1>12. Levels(ca') = IF Levels(ca) > 1 THEN Levels(ca) - 1 ELSE 1
    BY <1>4 DEF Levels
  <1>13. QED BY <1>2, <1>11, <1>12 DEF Promise!Pop, Promise!Answers, Levels, m

\* Reset keeps the top level alone.
LEMMA ResetRefines ==
  ASSUME IInv, BytesInv, DoReset
  PROVE  Promise!Reset
  <1>1. [Next]_vars
    BY DEF Next
  <1>2. ca' = Reset(ca) /\ ret' = [call |-> "Reset", outcome |-> "ok"]
    BY DEF DoReset, Returns
  <1>3. CacheShape(ca) /\ Disjoint(ca) /\ CacheShape(ca') /\ Disjoint(ca')
    BY <1>1, BeforeAndAfter
  <1>4. /\ Len(ca'.frames) = 1 /\ ca'.frames[1] = ca.frames[1] /\ 1 \in DOMAIN ca.frames
    BY <1>2, <1>3, ResetFrames
  <1>5. DOMAIN ca'.frames = 1 .. 1 /\ DOMAIN ca.frames = 1 .. Len(ca.frames)
        /\ Len(ca.frames) \in Nat \ {0}
    BY <1>3, <1>4, LenProperties, EmptySeq DEF CacheShape
  <1>6. /\ \A i \in DOMAIN ca'.frames :
             \/ i <= 1 /\ i \in DOMAIN ca.frames /\ ca'.frames[i] = ca.frames[i]
             \/ DOMAIN ca'.frames[i] = {}
        /\ \A i \in DOMAIN ca.frames :
             i <= 1 => i \in DOMAIN ca'.frames /\ ca'.frames[i] = ca.frames[i]
    BY <1>4, <1>5
  <1>7. 1 \in Nat /\ 1 <= Len(ca.frames)
    BY <1>5
  <1>8. /\ Cached(ca') = {k \in Cached(ca) : FrameOf(ca, k) <= 1}
        /\ \A k \in Cached(ca') : FrameOf(ca', k) = FrameOf(ca, k) /\ Get(ca', k) = Get(ca, k)
    BY <1>3, <1>6, <1>7, LowerEntries
  <1>9. ca'.sizes = ca.sizes
    BY <1>2, <1>3 DEF Reset, CacheShape
  <1>10. Held' = Promise!Restrict(Held, Promise!UpTo(1))
    <2>1. Promise!UpTo(1) = Cached(ca')
      BY <1>8 DEF Held, Promise!UpTo
    <2>2. Held' = [k \in Cached(ca') |-> Held[k]]
      BY <1>8, <1>9 DEF Held, LimitOf
    <2>3. QED BY <2>1, <2>2 DEF Promise!Restrict
  <1>11. QED BY <1>2, <1>4, <1>10 DEF Promise!Reset, Promise!Answers, Levels

\* What the promise speaks of depends on frames and limits only.
LEMMA LastRefines ==
  ASSUME IInv, DoLast
  PROVE  Promise!Last
  <1>1. ca'.frames = ca.frames /\ ca'.sizes = ca.sizes
    BY DEF IInv, DoLast, ForgetLast, CacheShape
  <1>2. Held' = Held /\ Levels(ca') = Levels(ca)
    BY <1>1 DEF Held, Cached, Get, FrameOf, LimitOf, Levels
  <1>3. QED BY <1>2 DEF DoLast, Returns, Promise!Last, Promise!Answers

\* A new cache is a memory with nothing in it.
LEMMA InitRefines == Init => Promise!Init
  <1> SUFFICES ASSUME Init PROVE Promise!Init
    OBVIOUS
  <1> DEFINE fs == <<NewMap>>
  <1>1. ca.frames = fs /\ ret = [call |-> "New", outcome |-> "ok"]
    BY DEF Init, NewCache
  <1>2. Len(fs) = 1 /\ DOMAIN fs = 1 .. 1 /\ DOMAIN fs[1] = {}
    BY NewMapIsFrame
  <1> HIDE DEF fs
  <1>3. Cached(ca) = {} /\ Levels(ca) = 1
    BY <1>1, <1>2 DEF Cached, Levels
  <1>4. Held = Promise!Nothing
    BY <1>3 DEF Held, Promise!Nothing
  <1>5. QED BY <1>1, <1>3, <1>4 DEF Promise!Init

\* Every method does what memory.go promises.
LEMMA NextRefines ==
  ASSUME ShortValues, IInv, TypeInv, [Next]_vars
  PROVE  [Promise!Next]_(Promise!vars)
  <1>1. BytesInv
    BY DEF TypeInv
  <1>2. LimitsTyped
    <2>1. PICK S \in SUBSET Key : ca.sizes \in [S -> Limits]
      BY DEF TypeInv, TypeOK, CacheType
    <2>2. QED BY <2>1, LimitsAreNumbers DEF LimitsTyped
  <1>3. ASSUME NEW k \in Key, NEW v \in Value, NEW lim \in Limits, DoAdd(k, v, lim)
        PROVE  Promise!Next
    BY <1>1, <1>3, AddRefines DEF Promise!Next
  <1>4. ASSUME NEW k \in Key, NEW v \in Value, DoUpdate(k, v)
        PROVE  Promise!Next
    BY <1>1, <1>2, <1>4, UpdateRefines DEF Promise!Next
  <1>5. DoPush => Promise!Next
    BY <1>1, PushRefines DEF Promise!Next
  <1>6. DoPop => Promise!Next
    BY <1>1, PopRefines DEF Promise!Next
  <1>7. DoReset => Promise!Next
    BY <1>1, ResetRefines DEF Promise!Next
  <1>8. DoLast => Promise!Next
    BY LastRefines DEF Promise!Next
  <1>9. CASE UNCHANGED vars
    <2>1. Held' = Held /\ Levels(ca') = Levels(ca) /\ ret' = ret
      BY <1>9 DEF vars, Held, Cached, Get, FrameOf, LimitOf, Levels
    <2>2. QED BY <2>1 DEF Promise!vars
  <1>10. QED BY <1>3, <1>4, <1>5, <1>6, <1>7, <1>8, <1>9 DEF Next

\* cache.Cache keeps the promise of memory.go: Add fails in the three cases it must fail in
\* and in no other, a call that fails has no effect, Pop and Reset free the levels they say
\* and nothing else. Not for values of 2^16 bytes and more: their length is truncated.
THEOREM MemoryImplemented ==
  ASSUME ShortValues
  PROVE  Spec => ImplementsMemory
  <1>1. IInv /\ TypeInv /\ [Next]_vars => [Promise!Next]_(Promise!vars)
    BY NextRefines
  <1>2. Spec => Promise!Init /\ [][Promise!Next]_(Promise!vars)
    BY InitIInv, NextIInv, InitTypes, NextTypes, InitRefines, <1>1, PTL DEF Spec
  <1>3. QED BY <1>2 DEF ImplementsMemory, Promise!Spec

-----------------------------------------------------------------------------
(* Limits.                                                                 *)

LimitsInv == IInv /\ TypeInv /\ ValuesWithinLimits

\* A held value that conforms to the limit of its symbol.
LEMMA Conforming ==
  ASSUME IInv, [Next]_vars, TypeInv
  PROVE  /\ DOMAIN Held' = Cached(ca')
         /\ \A k \in Cached(ca') : Held'[k].val = Get(ca', k) /\ Held'[k].lim = LimitOf(ca', k)
         /\ DOMAIN Held = Cached(ca)
         /\ \A k \in Cached(ca) : Held[k].val = Get(ca, k) /\ Held[k].lim = LimitOf(ca, k)
         /\ \A k \in Cached(ca) : LimitOf(ca, k) \in Nat
         /\ \A k \in Cached(ca') : LimitOf(ca', k) \in Nat
  <1>1. ASSUME NEW c, c.sizes \in SizesType, NEW k PROVE LimitOf(c, k) \in Nat
    <2>1. PICK S \in SUBSET Key : c.sizes \in [S -> Limits]
      BY <1>1 DEF SizesType
    <2>2. DOMAIN c.sizes = S /\ \A x \in S : c.sizes[x] \in Nat
      BY <2>1, LimitsAreNumbers
    <2>3. QED BY <2>2 DEF LimitOf
  <1>2. TypeInv'
    BY NextTypes
  <1>3. ca.sizes \in SizesType /\ ca'.sizes \in SizesType
    BY <1>2 DEF TypeInv, TypeOK, CacheType, SizesType
  <1>4. QED BY <1>1, <1>3 DEF Held

\* What memory.go promises keeps every value within its limit: no step of a memory can
\* break it, so no method of the cache does.
LEMMA NextLimits ==
  ASSUME ShortValues, LimitsInv, [Next]_vars
  PROVE  ValuesWithinLimits'
  <1>1. [Promise!Next]_(Promise!vars) /\ IInv /\ TypeInv /\ ValuesWithinLimits
    BY NextRefines DEF LimitsInv
  <1> DEFINE Within(h) == \A k \in DOMAIN h : Promise!Conforms(h[k].val, h[k].lim)
  <1>2. Within(Held)
    BY <1>1, Conforming DEF ValuesWithinLimits, Promise!Conforms
  <1>3. ASSUME NEW h, Within(h), NEW k, NEW e, Promise!Conforms(e.val, e.lim)
        PROVE  Within([x \in DOMAIN h \cup {k} |-> IF x = k THEN e ELSE h[x]])
    BY <1>3
  <1>4. Within(Held')
    <2>1. ASSUME NEW k \in Key, NEW v \in Value, NEW lim \in Limits, Promise!Add(k, v, lim)
          PROVE  Within(Held')
      BY <1>2, <1>3, <2>1 DEF Promise!Add, Promise!With
    <2>2. ASSUME NEW k \in Key, NEW v \in Value, Promise!Update(k, v)
          PROVE  Within(Held')
      <3> DEFINE e == [Held[k] EXCEPT !.val = v]
      <3>1. CASE Held' = Held
        BY <1>2, <3>1
      <3>2. CASE /\ k \in DOMAIN Held /\ Promise!Conforms(v, Held[k].lim)
                 /\ Held' = Promise!With(k, e)
        <4>1. e.val = v /\ e.lim = Held[k].lim
          BY <3>2 DEF Held
        <4> HIDE DEF e
        <4>2. Promise!Conforms(e.val, e.lim)
          BY <3>2, <4>1
        <4> HIDE DEF Within
        <4>3. Held' = [x \in DOMAIN Held \cup {k} |-> IF x = k THEN e ELSE Held[x]]
          BY <3>2 DEF Promise!With
        <4>4. Within([x \in DOMAIN Held \cup {k} |-> IF x = k THEN e ELSE Held[x]])
          BY <1>2, <1>3, <4>2
        <4>5. QED BY <4>3, <4>4
      <3> HIDE DEF Within, e
      <3>3. QED BY <2>2, <3>1, <3>2 DEF Promise!Update, e
    <2>3. CASE Held' = Held
      BY <1>2, <2>3
    <2>4. ASSUME NEW n, Held' = Promise!Restrict(Held, Promise!UpTo(n))
          PROVE  Within(Held')
      BY <1>2, <2>4 DEF Promise!Restrict, Promise!UpTo
    <2> HIDE DEF Within
    <2>5. QED BY <1>1, <2>1, <2>2, <2>3, <2>4 DEF Promise!Next, Promise!vars, Promise!Push,
               Promise!Pop, Promise!Reset, Promise!Last
  <1>5. QED BY <1>1, <1>4, Conforming DEF ValuesWithinLimits, Promise!Conforms

\* memory.go:11 and 20: no value is held that is longer than the limit its symbol was added
\* with, through any number of updates; for values shorter than 2^16 bytes.
THEOREM LimitsKept ==
  ASSUME ShortValues
  PROVE  Spec => []ValuesWithinLimits
  <1>1. Init => LimitsInv
    <2> SUFFICES ASSUME Init PROVE LimitsInv
      OBVIOUS
    <2>1. Cached(ca) = {}
      BY InitRefines DEF Promise!Init, Promise!Nothing, Held
    <2>2. QED BY <2>1, InitIInv, InitTypes DEF LimitsInv, ValuesWithinLimits
  <1>2. LimitsInv /\ [Next]_vars => LimitsInv'
    BY NextIInv, NextTypes, NextLimits DEF LimitsInv
  <1>3. LimitsInv => ValuesWithinLimits
    BY DEF LimitsInv
  <1>4. QED BY <1>1, <1>2, <1>3, PTL DEF Spec
=============================================================================
