------------------------------- MODULE Memory -------------------------------
(***************************************************************************)
(* What cache.Memory (src/cache/memory.go) promises its callers: symbols   *)
(* held at levels, each with the limit it was added with, a cumulative     *)
(* capacity, and calls that fail without effect. There are no frames, no   *)
(* byte counter and no size table here: module Cache implements this.      *)
(***************************************************************************)
EXTENDS Integers, Functions

CONSTANTS Key, Value, Size, CacheSize, Limits

VARIABLES depth,   \* current level, the topmost is 1
          held,    \* symbol -> [level, val, lim]
          ret      \* last call and its outcome

vars == <<depth, held, ret>>

Nothing == [k \in {} |-> 0]
Total(h) == SumFunction([k \in DOMAIN h |-> Size[h[k].val]])
With(k, e) == [x \in DOMAIN held \cup {k} |-> IF x = k THEN e ELSE held[x]]
UpTo(n) == {k \in DOMAIN held : held[k].level <= n}

Fits(h) == CacheSize = 0 \/ Total(h) <= CacheSize
Conforms(v, lim) == lim = 0 \/ Size[v] <= lim
Answers(call, ok) == ret'.call = call /\ (ret'.outcome = "ok" <=> ok)

Init == depth = 1 /\ held = Nothing /\ ret = [call |-> "New", outcome |-> "ok"]

\* Add succeeds exactly when none of its three "must fail" cases applies.
Add(k, v, lim) ==
  LET h  == With(k, [level |-> depth, val |-> v, lim |-> lim])
      ok == k \notin DOMAIN held /\ Conforms(v, lim) /\ Fits(h)
  IN  /\ Answers("Add", ok)
      /\ held' = IF ok THEN h ELSE held
      /\ UNCHANGED depth

\* Update may refuse, and must in its three cases; refused, it has no effect.
Update(k, v) ==
  \/ /\ ret'.call = "Update" /\ ret'.outcome # "ok"
     /\ UNCHANGED <<depth, held>>
  \/ /\ k \in DOMAIN held
     /\ Conforms(v, held[k].lim)
     /\ Fits(With(k, [held[k] EXCEPT !.val = v]))
     /\ held' = With(k, [held[k] EXCEPT !.val = v])
     /\ Answers("Update", TRUE)
     /\ UNCHANGED depth

Push == depth' = depth + 1 /\ UNCHANGED held /\ Answers("Push", TRUE)

\* Frees the current level; there is always at least one level.
Pop == /\ held' = Restrict(held, UpTo(depth - 1))
       /\ depth' = IF depth > 1 THEN depth - 1 ELSE 1
       /\ Answers("Pop", TRUE)

\* Flushes everything below the top level.
Reset == held' = Restrict(held, UpTo(1)) /\ depth' = 1 /\ Answers("Reset", TRUE)

Last == UNCHANGED <<depth, held>> /\ Answers("Last", TRUE)

Next == \/ \E k \in Key, v \in Value, lim \in Limits : Add(k, v, lim)
        \/ \E k \in Key, v \in Value : Update(k, v)
        \/ Push
        \/ Pop
        \/ Reset
        \/ Last

Spec == Init /\ [][Next]_vars
=============================================================================
