------------------------------ MODULE CacheOps ------------------------------
(***************************************************************************)
(* The methods of cache.Cache (src/cache/cache.go) as operators on a       *)
(* record                                                                  *)
(*                                                                         *)
(*   frames : the stack Cache []map[string]string, innermost frame last    *)
(*   sizes  : the map Sizes, key -> size limit given when it was added     *)
(*   use    : the counter CacheUseSize                                     *)
(*   last   : LastValue                                                    *)
(*                                                                         *)
(* A value is an opaque element of Value; only its length Size[v] matters. *)
(* The mutex is not modelled: every method holds it from its first line to *)
(* its last and no caller shares a cache between goroutines.               *)
(***************************************************************************)
EXTENDS Integers, Sequences, FiniteSets, SequencesExt

CONSTANTS Key,        \* cache symbols
          Value,      \* loaded contents
          Size,       \* len(value)
          Empty,      \* the value ""
          CacheSize,  \* cumulative capacity, 0 is unlimited
          U16         \* 2^16: lengths are compared with the limit as uint16

ASSUME CacheAssumption ==
  /\ Size \in [Value -> Nat]
  /\ Empty \in Value
  /\ Size[Empty] = 0
  /\ CacheSize \in Nat
  /\ U16 \in Nat \ {0}

Limit == 0 .. (U16 - 1)
Frame == UNION {[S -> Value] : S \in SUBSET Key}
NewMap == [k \in {} |-> Empty]
Put(f, k, v) == [x \in DOMAIN f \cup {k} |-> IF x = k THEN v ELSE f[x]]

\* Bytes held by one frame, and by a whole stack of frames.
FrameSize(f) == SumFunction([k \in DOMAIN f |-> Size[f[k]]])
StackSize(frames) == SumFunction([i \in DOMAIN frames |-> FrameSize(frames[i])])

NewCache == [frames |-> <<NewMap>>, sizes |-> NewMap, use |-> 0, last |-> Empty]

Levels(ca) == Len(ca.frames)

\* Mutant: only the innermost frame is searched.
FrameOf_Innermost(ca, k) == IF k \in DOMAIN ca.frames[Levels(ca)] THEN Levels(ca) ELSE 0

\* 1-based frame that holds k, 0 where the code returns -1.
FrameOf(ca, k) ==
  LET hits == {i \in DOMAIN ca.frames : k \in DOMAIN ca.frames[i]}
  IN  IF hits = {} THEN 0 ELSE Min(hits)

Cached(ca) == UNION {DOMAIN ca.frames[i] : i \in DOMAIN ca.frames}
Get(ca, k) == ca.frames[FrameOf(ca, k)][k]

\* Mutant: a limit of one byte is taken for no limit.
OverLimit_OneIsNone(v, lim) == lim > 1 /\ Size[v] % U16 > lim

\* The length is truncated to uint16 before it meets the limit.
OverLimit(v, lim) == lim > 0 /\ Size[v] % U16 > lim

\* Mutant: the check is made before the new bytes are counted.
CheckCapacity_Before(use, v) == IF CacheSize > 0 /\ use > CacheSize THEN 0 ELSE Size[v]

\* Bytes to add for v when use bytes are taken, 0 if they do not fit.
CheckCapacity(use, v) ==
  IF CacheSize > 0 /\ use + Size[v] > CacheSize THEN 0 ELSE Size[v]

-----------------------------------------------------------------------------
(* Add and Update: the outcome first, then the cache it leaves.            *)

AddOutcome(ca, k, v, lim) ==
  IF OverLimit(v, lim) THEN "limit"
  ELSE IF FrameOf(ca, k) = Levels(ca) THEN "dup"
  ELSE IF FrameOf(ca, k) # 0 THEN "elsewhere"
  ELSE IF Size[v] > 0 /\ CheckCapacity(ca.use, v) = 0 THEN "capacity"
  ELSE "ok"

Add(ca, k, v, lim) ==
  IF AddOutcome(ca, k, v, lim) # "ok" THEN ca
  ELSE [frames |-> [ca.frames EXCEPT ![Levels(ca)] = Put(@, k, v)],
        sizes  |-> Put(ca.sizes, k, lim),
        use    |-> ca.use + Size[v],
        last   |-> v]

\* A missing map entry reads as 0: no limit.
LimitOf(ca, k) == IF k \in DOMAIN ca.sizes THEN ca.sizes[k] ELSE 0

UpdateOutcome(ca, k, v) ==
  IF OverLimit(v, LimitOf(ca, k)) THEN "limit"
  ELSE IF FrameOf(ca, k) = 0 THEN "undefined"
  ELSE IF CheckCapacity(ca.use - Size[Get(ca, k)], v) = 0 THEN "capacity"
  ELSE "ok"

\* Mutant: the bytes of the value replaced stay counted.
UseAfterUpdate_KeepsOld(ca, k, v) == ca.use + Size[v]

UseAfterUpdate(ca, k, v) == ca.use - Size[Get(ca, k)] + Size[v]

Update(ca, k, v) ==
  IF UpdateOutcome(ca, k, v) # "ok" THEN ca
  ELSE [ca EXCEPT !.frames[FrameOf(ca, k)][k] = v,
                  !.use = UseAfterUpdate(ca, k, v)]

-----------------------------------------------------------------------------
(* Levels.                                                                 *)

Push(ca) == [ca EXCEPT !.frames = Append(@, NewMap)]

\* Mutants: the stack may become empty, or its bottom frame keeps its symbols.
Kept_MayBeEmpty(frames, n) == SubSeq(frames, 1, n)
Kept_BottomStays(frames, n) == SubSeq(frames, 1, IF n > 0 THEN n ELSE 1)

\* The n lowest frames. The bottom frame is emptied, never removed.
Kept(frames, n) == IF n > 0 THEN SubSeq(frames, 1, n) ELSE <<NewMap>>

\* n calls of Pop.
PopN(ca, n) ==
  LET kept == Levels(ca) - n
      gone == {i \in DOMAIN ca.frames : i > kept}
      keys == UNION {DOMAIN ca.frames[i] : i \in gone}
  IN  [ca EXCEPT
        !.frames = Kept(@, kept),
        !.sizes  = Restrict(@, DOMAIN @ \ keys),
        !.use    = @ - SumFunction([i \in gone |-> FrameSize(ca.frames[i])])]

Pop(ca) == PopN(ca, 1)

\* Mutant: the size table is cleared although the bottom frame is kept.
Reset_ClearsSizes(ca) ==
  [ca EXCEPT !.frames = SubSeq(@, 1, 1),
             !.sizes  = NewMap,
             !.use    = FrameSize(ca.frames[1])]

\* Drops every frame above the bottom one, but not their entries in Sizes.
Reset(ca) == [ca EXCEPT !.frames = SubSeq(@, 1, 1),
                        !.use    = FrameSize(ca.frames[1])]

\* Last hands out the last value added and forgets it.
ForgetLast(ca) == [ca EXCEPT !.last = Empty]
=============================================================================
