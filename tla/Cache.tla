------------------------------- MODULE Cache --------------------------------
(***************************************************************************)
(* The component cache.Cache on its own: one action per method of          *)
(* cache.Memory that changes state, called in any order with any           *)
(* arguments, as the vm and the engine may.                                *)
(***************************************************************************)
EXTENDS CacheOps

CONSTANTS Limits,     \* the size limits callers pass to Add
          MaxLevels   \* bound: Push is not called above this many frames

ASSUME LimitsAssumption == Limits \subseteq Limit /\ MaxLevels \in Nat

VARIABLES ca,         \* the cache
          ret         \* method called last and the outcome it returned

vars == <<ca, ret>>

Outcome == {"ok", "limit", "dup", "elsewhere", "capacity", "undefined"}
Method == {"New", "Add", "Update", "Push", "Pop", "Reset", "Last"}

CacheType ==
  [frames : Seq(Frame) \ {<<>>},
   sizes  : UNION {[S -> Limits] : S \in SUBSET Key},
   use    : Nat,
   last   : Value]

Init == /\ ca = NewCache
        /\ ret = [call |-> "New", outcome |-> "ok"]

Returns(call, outcome) == ret' = [call |-> call, outcome |-> outcome]

DoAdd(k, v, lim) == /\ ca' = Add(ca, k, v, lim)
                    /\ Returns("Add", AddOutcome(ca, k, v, lim))

DoUpdate(k, v) == /\ ca' = Update(ca, k, v)
                  /\ Returns("Update", UpdateOutcome(ca, k, v))

DoPush == /\ Levels(ca) < MaxLevels
          /\ ca' = Push(ca)
          /\ Returns("Push", "ok")

DoPop == ca' = Pop(ca) /\ Returns("Pop", "ok")

DoReset == ca' = Reset(ca) /\ Returns("Reset", "ok")

DoLast == ca' = ForgetLast(ca) /\ Returns("Last", "ok")

Next == \/ \E k \in Key, v \in Value, lim \in Limits : DoAdd(k, v, lim)
        \/ \E k \in Key, v \in Value : DoUpdate(k, v)
        \/ DoPush
        \/ DoPop
        \/ DoReset
        \/ DoLast

Spec == Init /\ [][Next]_vars

-----------------------------------------------------------------------------
(* What must hold of it.                                                   *)

\* The cache and its answers are well formed; there is always a frame.
TypeOK == ca \in CacheType /\ ret \in [call : Method, outcome : Outcome]

\* CacheUseSize is the number of bytes held: a byte counted twice or not given
\* back by Update, Pop or Reset would shrink the capacity or wrap the uint32.
UseIsExact == ca.use = StackSize(ca.frames)

\* The bytes really held, not the counter, stay within the capacity.
WithinCapacity == CacheSize > 0 => StackSize(ca.frames) <= CacheSize

\* A symbol is held by one frame only, whatever Add and Update do above it, so
\* Get, which takes the first frame it finds, and Pop speak of the same value.
KeyInOneFrame ==
  \A i, j \in DOMAIN ca.frames :
    i # j => DOMAIN ca.frames[i] \cap DOMAIN ca.frames[j] = {}

\* Every held symbol has a recorded limit: Update reads a missing one as "no
\* limit", so a limit lost by Pop or Reset would silently lift the constraint.
LimitsKnown == Cached(ca) \subseteq DOMAIN ca.sizes

\* No held value is longer than the limit its symbol was added with
\* (memory.go:11 and memory.go:20), through any number of updates.
ValuesWithinLimits ==
  \A k \in Cached(ca) : LimitOf(ca, k) > 0 => Size[Get(ca, k)] <= LimitOf(ca, k)

\* The frames, the counter and the size table together implement the memory
\* that memory.go promises.
Held == [k \in Cached(ca) |-> [level |-> FrameOf(ca, k),
                              val   |-> Get(ca, k),
                              lim   |-> LimitOf(ca, k)]]
Promise == INSTANCE Memory WITH depth <- Levels(ca), held <- Held
ImplementsMemory == Promise!Spec

=============================================================================
