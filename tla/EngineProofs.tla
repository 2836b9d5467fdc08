---------------------------- MODULE EngineProofs ----------------------------
(***************************************************************************)
(* Invariants of Engine for every deployment, program and input, and over  *)
(* any number of engines, crashes and stored sessions, and its refinement  *)
(* of Checkpoint. The invariant IInv of the vm holds between the runs as   *)
(* well, of the session in the engine and of the one that is stored; the   *)
(* operators that make up a call of Exec keep it, each by a lemma of its   *)
(* own. EIInv is all of it.                                                *)
(***************************************************************************)
EXTENDS Engine, VmProofs

EngineType == [ready : BOOLEAN, initd : BOOLEAN, execd : BOOLEAN,
               exiting : BOOLEAN, exit : Value]
Reply == {"none", "on", "more", "over", "refused", "error", "panic"}
Output == [page : BOOLEAN, exit : Value]

\* A session that is over does not wait.
NotBoth(s) == "TERMINATE" \in s.flags => "WAIT" \notin s.flags

\* The code a session keeps is the way to the entry point, or belongs to its node.
AtNode(s) == s.code \in Starts \/ EndsAt(s.code, s)

\* State, cache and home paths that go together.
Session(s, c, h) ==
  /\ s \in StateType /\ NotBoth(s)
  /\ CacheShape(c)
  /\ Cached(c) \subseteq DOMAIN h /\ \A k \in DOMAIN h : h[k] \in Seq(Node)
  /\ Scoped(s.path, c.frames, h)
  /\ NoCroak => Len(c.frames) = Len(s.path) + 1 /\ s.code \in Seq(Uncroaked)

\* What is stored, if anything is.
Stored(s) == s # NoSession => /\ Session(s.st, s.ca, s.home) /\ AtNode(s.st)
                              /\ DOMAIN s.home = Cached(s.ca)

\* The fields of a call in progress.
CallShape(x) ==
  /\ DOMAIN x = {"st", "ca", "pg", "mn", "home", "eng", "store", "reply", "out"}
  /\ x.pg \in Page /\ x.mn \in Menu
  /\ x.eng \in EngineType /\ Stored(x.store) /\ x.reply \in Reply /\ x.out \in Output

\* How the engine's own fields go with the session: nothing is done before there is
\* one, only an engine without a persister goes on after a first function that blocked
\* it, and a session that is to be ended is not over and has no code.
Rules(x) ==
  /\ x.eng.execd \/ x.eng.initd => x.eng.ready
  /\ ~x.eng.ready => x.st = NewState /\ x.ca = NewCache /\ x.home = NoHome
  /\ x.eng.exiting => x.st.code = <<>> /\ "TERMINATE" \notin x.st.flags
  /\ ~Persisted => x.store = NoSession /\ (~x.eng.initd => x.st.code = <<>>)
  /\ x.eng.initd => AtNode(x.st)
  /\ x.eng.initd /\ x.eng.execd /\ ~x.eng.exiting =>
       x.st.code # <<>> \/ "TERMINATE" \in x.st.flags \/ x.st.path = <<>>

\* A call in progress.
CallGood(x) == CallShape(x) /\ Session(x.st, x.ca, x.home) /\ Rules(x)

\* The engine between calls, and during a run.
Now == [Here EXCEPT !.reply = reply]

\* The home paths h knows, and some path for every other symbol.
AllHomes(h) == [k \in Key |-> IF k \in DOMAIN h THEN h[k] ELSE <<>>]

\* Scope is about the symbols that are cached.
LEMMA ScopeOfCached ==
  ASSUME NEW c, CacheShape(c), NEW h, Cached(c) \subseteq DOMAIN h,
         \A k \in DOMAIN h : h[k] \in Seq(Node)
  PROVE  /\ AllHomes(h) \in Home
         /\ \A p : Scoped(p, c.frames, h) <=> Scoped(p, c.frames, AllHomes(h))
  <1>1. AllHomes(h) \in Home
    BY DEF AllHomes, Home
  <1>2. \A i \in DOMAIN c.frames : \A k \in DOMAIN c.frames[i] : AllHomes(h)[k] = h[k]
    BY CachedIsKey DEF AllHomes
  <1> DEFINE g == AllHomes(h)
  <1> HIDE DEF g
  <1>3. \A p : Scoped(p, c.frames, h) <=> Scoped(p, c.frames, g)
    BY <1>2 DEF Scoped, g
  <1>4. QED BY <1>1, <1>3 DEF g

\* Levels that are freed take symbols away.
LEMMA PopNCached ==
  ASSUME NEW c, CacheShape(c), NEW n \in Nat
  PROVE  Cached(PopN(c, n)) \subseteq Cached(c)
  <1>1. \A i \in DOMAIN PopN(c, n).frames :
          \/ i \in DOMAIN c.frames /\ PopN(c, n).frames[i] = c.frames[i]
          \/ DOMAIN PopN(c, n).frames[i] = {}
    BY PopNFrames
  <1>2. QED BY <1>1 DEF Cached

\* A session after d nodes were left and d levels freed.
LEMMA Shrinks ==
  ASSUME NEW s, NEW c, NEW h, Session(s, c, h), NEW d \in Nat,
         NEW t \in StateType, NotBoth(t), t.code = s.code, Len(t.path) = Len(s.path) - d,
         \A j \in 1 .. Len(t.path) : t.path[j] = s.path[j]
  PROVE  Session(t, PopN(c, d), h)
  <1>1. CacheShape(c) /\ Cached(c) \subseteq DOMAIN h /\ Scoped(s.path, c.frames, h)
        /\ s.path \in Seq(Node) /\ t.path \in Seq(Node)
        /\ \A k \in DOMAIN h : h[k] \in Seq(Node)
    BY DEF Session, StateType
  <1>2. CacheShape(PopN(c, d)) /\ Cached(PopN(c, d)) \subseteq Cached(c)
    BY <1>1, PopNFrames, PopNCached
  <1>3. AllHomes(h) \in Home /\ Scoped(s.path, c.frames, AllHomes(h))
    BY <1>1, ScopeOfCached
  <1>4. Scoped(t.path, PopN(c, d).frames, AllHomes(h))
    BY <1>1, <1>3, ShrinkScope
  <1>5. Cached(PopN(c, d)) \subseteq DOMAIN h
    BY <1>1, <1>2
  <1>6. Scoped(t.path, PopN(c, d).frames, h)
    BY <1>1, <1>2, <1>4, <1>5, ScopeOfCached
  <1>7. ASSUME Len(c.frames) = Len(s.path) + 1
        PROVE  Len(PopN(c, d).frames) = Len(t.path) + 1
    <2>1. Len(s.path) \in Nat /\ Len(t.path) \in Nat
      BY <1>1, LenProperties
    <2>2. Len(c.frames) > d
      BY <1>7, <2>1
    <2>3. Len(PopN(c, d).frames) = Len(c.frames) - d
      BY <1>1, <2>2, PopNFrames
    <2>4. QED BY <1>7, <2>1, <2>3
  <1>8. QED BY <1>1, <1>2, <1>5, <1>6, <1>7 DEF Session

\* A session after a node was entered and a level added.
LEMMA Grows ==
  ASSUME NEW s, NEW c, NEW h, Session(s, c, h),
         NEW t \in StateType, NotBoth(t), t.code = s.code, Len(t.path) = Len(s.path) + 1,
         \A j \in 1 .. Len(s.path) : t.path[j] = s.path[j]
  PROVE  Session(t, Push(c), h)
  <1>1. CacheShape(c) /\ Cached(c) \subseteq DOMAIN h /\ Scoped(s.path, c.frames, h)
        /\ s.path \in Seq(Node) /\ t.path \in Seq(Node)
        /\ \A k \in DOMAIN h : h[k] \in Seq(Node)
    BY DEF Session, StateType
  <1>2. CacheShape(Push(c)) /\ Cached(Push(c)) \subseteq Cached(c)
    <2>1. /\ CacheShape(Push(c)) /\ Len(Push(c).frames) = Len(c.frames) + 1
          /\ \A i \in DOMAIN c.frames : Push(c).frames[i] = c.frames[i]
          /\ DOMAIN Push(c).frames[Len(c.frames) + 1] = {}
      BY <1>1, PushFrames
    <2>2. /\ DOMAIN c.frames = 1 .. Len(c.frames) /\ Len(c.frames) \in Nat
          /\ DOMAIN Push(c).frames = 1 .. Len(Push(c).frames)
      BY <1>1, <2>1, Numbered
    <2>3. \A i \in DOMAIN Push(c).frames : i \in DOMAIN c.frames \/ i = Len(c.frames) + 1
      BY <2>1, <2>2
    <2>4. QED BY <2>1, <2>3 DEF Cached
  <1>3. AllHomes(h) \in Home /\ Scoped(s.path, c.frames, AllHomes(h))
    BY <1>1, ScopeOfCached
  <1>4. Scoped(t.path, Push(c).frames, AllHomes(h))
    BY <1>1, <1>3, GrowScope
  <1>5. Cached(Push(c)) \subseteq DOMAIN h
    BY <1>1, <1>2
  <1>6. Scoped(t.path, Push(c).frames, h)
    BY <1>1, <1>2, <1>4, <1>5, ScopeOfCached
  <1>7. Len(Push(c).frames) = Len(c.frames) + 1
    BY <1>1, PushFrames
  <1>8. QED BY <1>1, <1>2, <1>5, <1>6, <1>7 DEF Session

\* Outside of every node only the level on top can hold a symbol.
LEMMA FreesTheRest ==
  ASSUME NEW s, NEW c, NEW h, Session(s, c, h), s.path = <<>>
  PROVE  Session(s, PopN(c, 1), h)
  <1>1. CacheShape(c) /\ Scoped(s.path, c.frames, h) /\ Len(s.path) = 0
        /\ Cached(c) \subseteq DOMAIN h /\ \A k \in DOMAIN h : h[k] \in Seq(Node)
    BY DEF Session
  <1>2. CacheShape(PopN(c, 1)) /\ Cached(PopN(c, 1)) \subseteq Cached(c)
    BY <1>1, PopNFrames, PopNCached
  <1> DEFINE n == Len(c.frames)
             fs == PopN(c, 1).frames
  <1>3. /\ Len(fs) = IF n > 1 THEN n - 1 ELSE 1
        /\ \A i \in DOMAIN fs : IF n > 1 THEN i \in DOMAIN c.frames /\ fs[i] = c.frames[i]
                                ELSE DOMAIN fs[i] = {}
        /\ DOMAIN fs = 1 .. Len(fs) /\ DOMAIN c.frames = 1 .. n /\ n \in Nat
    BY <1>1, <1>2, PopNFrames, Numbered
  <1> HIDE DEF n, fs
  <1>4. ASSUME NEW i \in DOMAIN fs, NEW k \in DOMAIN fs[i] PROVE FALSE
    <2>1. n > 1 /\ i \in DOMAIN c.frames /\ k \in DOMAIN c.frames[i] /\ i < n /\ i \in Nat
      BY <1>3, <1>4
    <2>2. k \in DOMAIN h
      BY <1>1, <2>1 DEF Cached
    <2>3. 0 - Len(h[k]) >= n - i
      BY <1>1, <2>1 DEF Scoped, n
    <2>4. Len(h[k]) \in Nat
      BY <1>1, <2>2, LenProperties
    <2>5. QED BY <1>3, <2>1, <2>3, <2>4
  <1>5. Scoped(s.path, fs, h)
    BY <1>4 DEF Scoped
  <1>6. Len(c.frames) = Len(s.path) + 1 => Len(fs) = Len(s.path) + 1
    BY <1>1, <1>3 DEF n
  <1>7. QED BY <1>1, <1>2, <1>5, <1>6 DEF Session, fs

\* The state may change where scope does not look.
LEMMA OtherState ==
  ASSUME NEW s, NEW c, NEW h, Session(s, c, h),
         NEW t \in StateType, NotBoth(t), t.path = s.path,
         t.code = s.code \/ t.code = <<>> \/ t.code = <<MOVE(Root)>>
  PROVE  Session(t, c, h)
  BY UncroakedCode DEF Session

\* Only the last value of the cache changes.
LEMMA ForgetsLast ==
  ASSUME NEW s, NEW c, NEW h, Session(s, c, h)
  PROVE  Session(s, ForgetLast(c), h) /\ ForgetLast(c).frames = c.frames
  <1>1. /\ DOMAIN ForgetLast(c) = DOMAIN c /\ ForgetLast(c).frames = c.frames
        /\ ForgetLast(c).last = Empty
    BY DEF Session, ForgetLast, CacheShape
  <1>2. ForgetLast(c).last \in Value
    BY <1>1, CacheAssumption
  <1>3. CacheShape(ForgetLast(c)) /\ Cached(ForgetLast(c)) = Cached(c)
    BY <1>1, <1>2 DEF Session, CacheShape, Cached
  <1>4. QED BY <1>1, <1>3 DEF Session

-----------------------------------------------------------------------------
(* Output and reset.                                                       *)

Fields == {"st", "ca", "pg", "mn", "home", "eng", "store", "reply", "out"}

\* reset keeps the code and leaves no path, and nothing else of the call changes.
LEMMA ResetSession ==
  ASSUME NEW x, DOMAIN x = Fields, Session(x.st, x.ca, x.home)
  PROVE  /\ DOMAIN EngineReset(x) = Fields
         /\ EngineReset(x).pg = x.pg /\ EngineReset(x).mn = x.mn
         /\ EngineReset(x).home = x.home /\ EngineReset(x).eng = x.eng
         /\ EngineReset(x).store = x.store /\ EngineReset(x).reply = x.reply
         /\ EngineReset(x).out = x.out
         /\ Session(EngineReset(x).st, EngineReset(x).ca, x.home)
         /\ EngineReset(x).st.path = <<>> /\ EngineReset(x).st.code = x.st.code
         /\ EngineReset(x).st.flags \subseteq x.st.flags
  <1>1. CASE x.st.path = <<>>
    BY <1>1 DEF EngineReset, Fields
  <1>2. CASE x.st.path # <<>>
    <2> DEFINE n == Len(x.st.path)
               f == x.st.flags \ {"TERMINATE", "DIRTY", "LOADFAIL"}
               u == [x.st EXCEPT !.path = <<>>, !.idx = 0]
               t == [u EXCEPT !.flags = f]
               c == PopN(x.ca, n)
               d == IF ResetRoot THEN PopN(c, 1) ELSE c
               y == EngineReset(x)
    <2>1. /\ x.st \in StateType /\ x.st.path \in Seq(Node) /\ n \in Nat
          /\ x.st.flags \in SUBSET Flag /\ NotBoth(x.st)
      BY LenProperties DEF Session, StateType
    <2>2. u \in StateType /\ u.path = <<>> /\ u.code = x.st.code /\ u.flags = x.st.flags
      <3>1. 0 \in 0 .. (IdxMod - 1) /\ <<>> \in Seq(Node)
        BY StateAssumption
      <3>2. QED BY <2>1, <3>1 DEF StateType
    <2>3. Restart(u) = u
      BY <2>2 DEF Restart
    <2>4. t \in StateType /\ t.path = <<>> /\ t.code = x.st.code /\ t.flags = f
      BY <2>1, <2>2, FlagsOnly
    <2>5. y = [x EXCEPT !.st = t, !.ca = d]
      <3>1. AllUp(x) = [x EXCEPT !.st = u, !.ca = c]
        BY <2>1 DEF AllUp, StateType
      <3>2. AllUp(x).st = u /\ AllUp(x).ca = c
        BY <3>1 DEF Fields
      <3> DEFINE a == AllUp(x)
      <3>3. y = [a EXCEPT !.ca = IF ResetRoot THEN Pop(a.ca) ELSE a.ca,
                          !.st = [Restart(a.st) EXCEPT !.flags
                                    = Restart(a.st).flags \ {"TERMINATE", "DIRTY", "LOADFAIL"}]]
        BY <1>2 DEF EngineReset
      <3>4. a.st = u /\ a.ca = c
        BY <3>2
      <3> HIDE DEF a, y, u, c
      <3>5. Restart(a.st) = u /\ Restart(a.st).flags = x.st.flags /\ Pop(c) = PopN(c, 1)
        BY <2>2, <2>3, <3>4 DEF Pop
      <3>6. y = [a EXCEPT !.ca = d, !.st = t]
        BY <3>3, <3>4, <3>5
      <3> HIDE DEF t, d
      <3>7. QED BY <3>1, <3>6 DEF a
    <2>6. NotBoth(t)
      BY <2>1, <2>4 DEF NotBoth
    <2> HIDE DEF t, u
    <2>7. Session(t, c, x.home)
      <3>1. Len(t.path) = n - n /\ \A j \in 1 .. Len(t.path) : t.path[j] = x.st.path[j]
        BY <2>1, <2>4
      <3>2. QED BY <2>1, <2>4, <2>6, <3>1, Shrinks
    <2> HIDE DEF c
    <2>8. Session(t, d, x.home)
      BY <2>4, <2>7, FreesTheRest
    <2> HIDE DEF d, y
    <2>9. QED BY <2>4, <2>5, <2>8 DEF Fields, y
  <1>3. QED BY <1>1, <1>2

\* DIRTY is no part of what goes together.
LEMMA UndirtySession ==
  ASSUME NEW s, NEW c, NEW h, Session(s, c, h), NEW f
  PROVE  /\ Session(ResetFlag(s, f), c, h)
         /\ ResetFlag(s, f).path = s.path /\ ResetFlag(s, f).code = s.code
         /\ ResetFlag(s, f).flags = s.flags \ {f}
  <1>1. s \in StateType /\ s.flags \in SUBSET Flag
    BY DEF Session, StateType
  <1>2. /\ ResetFlag(s, f) \in StateType
        /\ ResetFlag(s, f).path = s.path /\ ResetFlag(s, f).code = s.code
        /\ ResetFlag(s, f).flags = s.flags \ {f}
    BY <1>1, FlagsOnly DEF ResetFlag
  <1>3. NotBoth(ResetFlag(s, f))
    BY <1>2 DEF Session, NotBoth
  <1>4. QED BY <1>2, <1>3, OtherState

\* An answer changes nothing else.
LEMMA AnswerGood ==
  ASSUME NEW x, CallGood(x), NEW r \in Reply
  PROVE  /\ CallGood(Answer(x, r)) /\ Answer(x, r).reply = r
         /\ Answer(x, r).st = x.st /\ Answer(x, r).ca = x.ca /\ Answer(x, r).home = x.home
         /\ Answer(x, r).eng = x.eng /\ Answer(x, r).store = x.store
  <1> DEFINE y == Answer(x, r)
  <1>1. /\ DOMAIN y = Fields /\ y.reply = r /\ y.st = x.st /\ y.ca = x.ca /\ y.home = x.home
        /\ y.pg = x.pg /\ y.mn = x.mn /\ y.eng = x.eng /\ y.store = x.store /\ y.out = x.out
    BY DEF Answer, CallGood, CallShape, Fields
  <1> HIDE DEF y
  <1>2. CallShape(y)
    BY <1>1 DEF CallGood, CallShape, Fields
  <1>3. Rules(y)
    BY <1>1 DEF CallGood, Rules
  <1>4. QED BY <1>1, <1>2, <1>3 DEF CallGood, y

\* An answer is of some kind.
LEMMA Replies ==
  {"none", "on", "more", "over", "refused", "error", "panic"} = Reply
  BY DEF Reply

\* What Flush and a discarded output leave alone.
FlushKeeps(x, y) ==
  /\ y.store = x.store /\ y.eng.initd = x.eng.initd /\ y.eng.ready = x.eng.ready
  /\ "TERMINATE" \in x.st.flags => "TERMINATE" \in y.st.flags
  /\ y.reply \in {"on", "error"}

\* Flush.
LEMMA FlushedGood ==
  ASSUME NEW x, CallGood(x), x.reply = "on", NEW how
  PROVE  /\ CallGood(Flushed(x, how)) /\ FlushKeeps(x, Flushed(x, how))
         /\ ~Returned(Flushed(x, how)) => ~Flushed(x, how).eng.exiting
  <1> DEFINE u == ResetFlag(x.st, "DIRTY")
             y == [x EXCEPT !.st = u]
             page == Shows(x) /\ how = "page"
             z == [y EXCEPT !.out = [page |-> page, exit |-> x.eng.exit]]
             e == [x.eng EXCEPT !.exiting = FALSE]
             w == EngineReset(z)
             v == [w EXCEPT !.eng = e]
             failed == Shows(x) /\ how = "fail"
  <1>1. /\ DOMAIN x = Fields /\ x.eng \in EngineType /\ Session(x.st, x.ca, x.home)
        /\ CallShape(x) /\ Rules(x)
    BY DEF CallGood, CallShape, Fields
  <1>2. /\ Session(u, x.ca, x.home) /\ u.path = x.st.path /\ u.code = x.st.code
        /\ u.flags = x.st.flags \ {"DIRTY"}
    BY <1>1, UndirtySession
  <1> HIDE DEF u
  <1>3. /\ DOMAIN y = Fields /\ y.st = u /\ y.ca = x.ca /\ y.home = x.home /\ y.pg = x.pg
        /\ y.mn = x.mn /\ y.eng = x.eng /\ y.store = x.store /\ y.reply = "on" /\ y.out = x.out
    BY <1>1 DEF Fields
  <1>4. [page |-> page, exit |-> x.eng.exit] \in Output
    <2>1. page \in BOOLEAN /\ x.eng.exit \in Value
      BY <1>1 DEF EngineType
    <2> HIDE DEF page
    <2>2. QED BY <2>1 DEF Output
  <1> DEFINE o == [page |-> page, exit |-> x.eng.exit]
  <1> HIDE DEF page, y
  <1>5. /\ DOMAIN z = Fields /\ z.st = u /\ z.ca = x.ca /\ z.home = x.home /\ z.pg = x.pg
        /\ z.mn = x.mn /\ z.eng = x.eng /\ z.store = x.store /\ z.reply = "on" /\ z.out = o
    BY <1>3 DEF Fields
  <1> HIDE DEF z, o
  <1>6. Flushed(x, how) =
          IF ~x.eng.execd THEN Answer(x, "error")
          ELSE IF failed /\ x.eng.exit = Empty THEN Answer(y, "error")
          ELSE IF x.eng.exiting THEN [w EXCEPT !.eng.exiting = FALSE]
          ELSE z
    BY DEF Flushed, y, u, z, page, o
  <1> HIDE DEF failed
  <1>7. TRUE \in BOOLEAN /\ (x.eng.execd \/ x.eng.initd => x.eng.ready)
    BY <1>1 DEF Rules
  <1>8. CASE ~x.eng.execd
    <2>1. Flushed(x, how) = Answer(x, "error")
      BY <1>6, <1>8
    <2>2. CallGood(Answer(x, "error")) /\ FlushKeeps(x, Answer(x, "error"))
          /\ Answer(x, "error").reply = "error"
      BY Replies, AnswerGood DEF FlushKeeps
    <2>3. QED BY <2>1, <2>2 DEF Returned
  <1>9. AtNode(x.st) => AtNode(u)
    BY <1>2 DEF AtNode, EndsAt, Where
  <1>10. CASE x.eng.execd /\ failed /\ x.eng.exit = Empty
    <2>1. CallShape(y)
      BY <1>1, <1>3, Replies DEF CallShape, Fields
    <2>2. Rules(y)
      BY <1>1, <1>2, <1>3, <1>7, <1>9, <1>10 DEF Rules
    <2>3. CallGood(y)
      BY <1>2, <1>3, <2>1, <2>2 DEF CallGood
    <2>4. CallGood(Answer(y, "error")) /\ Answer(y, "error").reply = "error"
          /\ FlushKeeps(x, Answer(y, "error"))
      <3>1. FlushKeeps(x, y)
        BY <1>2, <1>3 DEF FlushKeeps
      <3>2. QED BY <2>3, <3>1, Replies, AnswerGood DEF FlushKeeps
    <2>5. QED BY <1>6, <1>10, <2>4 DEF Returned
  <1>11. CASE x.eng.execd /\ ~(failed /\ x.eng.exit = Empty) /\ x.eng.exiting
    <2>1. /\ DOMAIN w = Fields /\ w.pg = x.pg /\ w.mn = x.mn /\ w.home = x.home
          /\ w.eng = x.eng /\ w.store = x.store /\ w.reply = "on" /\ w.out = o
          /\ Session(w.st, w.ca, x.home) /\ w.st.path = <<>> /\ w.st.code = x.st.code
      BY <1>2, <1>5, ResetSession
    <2> HIDE DEF w
    <2>2. e \in EngineType /\ e.ready = x.eng.ready /\ e.initd = x.eng.initd
          /\ e.execd = x.eng.execd /\ e.exiting = FALSE
      BY <1>1 DEF EngineType
    <2> HIDE DEF e
    <2>3. /\ DOMAIN v = Fields /\ v.pg = x.pg /\ v.mn = x.mn /\ v.home = x.home
          /\ v.eng = e /\ v.store = x.store /\ v.reply = "on" /\ v.out = o
          /\ v.st = w.st /\ v.ca = w.ca
      BY <2>1 DEF Fields
    <2>4. Flushed(x, how) = v
      BY <1>6, <1>11, <2>1 DEF e
    <2> HIDE DEF v
    <2>5. CallShape(v)
      BY <1>1, <1>4, <2>2, <2>3, Replies DEF CallShape, Fields, o
    <2>6. x.st.code = <<>> /\ "TERMINATE" \notin x.st.flags
      BY <1>1, <1>11 DEF Rules
    <2>7. Rules(v)
      BY <1>1, <1>7, <1>11, <2>1, <2>2, <2>3, <2>6 DEF Rules, AtNode, Starts
    <2>8. CallGood(v) /\ FlushKeeps(x, v) /\ ~v.eng.exiting
      BY <2>1, <2>2, <2>3, <2>5, <2>6, <2>7 DEF CallGood, FlushKeeps
    <2>9. QED BY <2>4, <2>8
  <1>12. CASE x.eng.execd /\ ~(failed /\ x.eng.exit = Empty) /\ ~x.eng.exiting
    <2>1. CallShape(z)
      BY <1>1, <1>4, <1>5, Replies DEF CallShape, Fields, o
    <2>2. Rules(z)
      BY <1>1, <1>2, <1>5, <1>7, <1>9, <1>12 DEF Rules
    <2>3. CallGood(z) /\ FlushKeeps(x, z)
      BY <1>2, <1>5, <2>1, <2>2 DEF CallGood, FlushKeeps
    <2>4. QED BY <1>5, <1>6, <1>12, <2>3
  <1>13. QED BY <1>8, <1>10, <1>11, <1>12

\* A call that was not answered, with no output left.
Unserved(x) == x.reply = "on" /\ ~x.eng.execd /\ ~x.eng.exiting

\* Output nobody fetched is discarded, and the call goes on without any.
LEMMA DiscardedGood ==
  ASSUME NEW x, CallGood(x), x.reply = "on", NEW how
  PROVE  /\ CallGood(Discarded(x, how)) /\ FlushKeeps(x, Discarded(x, how))
         /\ ~Returned(Discarded(x, how)) => Unserved(Discarded(x, how))
  <1> DEFINE f == Flushed(x, how)
             y == IF x.eng.execd THEN [f EXCEPT !.out = x.out] ELSE x
             e == [y.eng EXCEPT !.execd = FALSE, !.exit = Empty, !.exiting = FALSE]
             z == [y EXCEPT !.eng = e]
  <1>1. CallGood(f) /\ FlushKeeps(x, f) /\ x.out \in Output
    BY FlushedGood DEF CallGood, CallShape
  <1> HIDE DEF f
  <1>2. CallGood([f EXCEPT !.out = x.out]) /\ FlushKeeps(x, [f EXCEPT !.out = x.out])
    <2> DEFINE g == [f EXCEPT !.out = x.out]
    <2>1. /\ DOMAIN g = Fields /\ g.st = f.st /\ g.ca = f.ca /\ g.home = f.home /\ g.pg = f.pg
          /\ g.mn = f.mn /\ g.eng = f.eng /\ g.store = f.store /\ g.reply = f.reply
          /\ g.out = x.out
      BY <1>1 DEF CallGood, CallShape, Fields
    <2> HIDE DEF g
    <2>2. CallShape(g) /\ Rules(g)
      BY <1>1, <2>1 DEF CallGood, CallShape, Rules, Fields
    <2>3. CallGood(g) /\ FlushKeeps(x, g)
      BY <1>1, <2>1, <2>2 DEF CallGood, FlushKeeps
    <2>4. QED BY <2>3 DEF g
  <1>3. CallGood(y) /\ FlushKeeps(x, y)
    <2>1. FlushKeeps(x, x)
      BY DEF FlushKeeps
    <2>2. QED BY <1>2, <2>1
  <1>4. Discarded(x, how) = IF Returned(y) THEN y ELSE z
    <2>1. DOMAIN y = Fields /\ DOMAIN y.eng = {"ready", "initd", "execd", "exiting", "exit"}
      BY <1>3 DEF CallGood, CallShape, Fields, EngineType
    <2>2. y = IF x.eng.execd THEN [Flushed(x, how) EXCEPT !.out = x.out] ELSE x
      BY DEF f
    <2> DEFINE w == [y EXCEPT !.eng.execd = FALSE, !.eng.exit = Empty, !.eng.exiting = FALSE]
    <2>3. Discarded(x, how) = IF Returned(y) THEN y ELSE w
      BY <2>2 DEF Discarded
    <2> HIDE DEF y
    <2>4. w = z
      BY <2>1 DEF Fields
    <2>5. QED BY <2>3, <2>4
  <1> HIDE DEF y
  <1>5. /\ e \in EngineType /\ e.ready = y.eng.ready /\ e.initd = y.eng.initd
        /\ ~e.execd /\ ~e.exiting
    BY <1>3, CacheAssumption DEF CallGood, CallShape, EngineType
  <1> HIDE DEF e
  <1>6. /\ DOMAIN z = Fields /\ z.st = y.st /\ z.ca = y.ca /\ z.home = y.home /\ z.pg = y.pg
        /\ z.mn = y.mn /\ z.eng = e /\ z.store = y.store /\ z.reply = y.reply
        /\ z.out = y.out
    BY <1>3 DEF CallGood, CallShape, Fields
  <1> HIDE DEF z
  <1>7. CallShape(z)
    BY <1>3, <1>5, <1>6 DEF CallGood, CallShape, Fields
  <1>8. Rules(z)
    BY <1>3, <1>5, <1>6 DEF CallGood, Rules
  <1>9. CallGood(z) /\ FlushKeeps(x, z) /\ (~Returned(y) => Unserved(z))
    BY <1>3, <1>5, <1>6, <1>7, <1>8 DEF CallGood, FlushKeeps, Returned, Unserved
  <1>10. QED BY <1>3, <1>4, <1>9

-----------------------------------------------------------------------------
(* A session is opened.                                                    *)

\* Frames are what of a cache goes together with a session.
LEMMA SameFrames ==
  ASSUME NEW s, NEW c, NEW h, Session(s, c, h), NEW d, CacheShape(d), d.frames = c.frames
  PROVE  Session(s, d, h) /\ Cached(d) = Cached(c)
  BY DEF Session, Cached

\* A session that was never used.
LEMMA NewSession ==
  /\ NewState \in StateType /\ NewState.path = <<>> /\ NewState.code = <<>>
  /\ NewState.flags = {}
  /\ Cached(NewCache) = {}
  /\ \A s \in StateType : s.path = <<>> /\ s.code = <<>> /\ NotBoth(s)
       => Session(s, NewCache, NoHome) /\ AtNode(s)
  <1>1. NewMap \in Frame /\ DOMAIN NewMap = {} /\ Empty \in Value
    BY NewMapIsFrame, CacheAssumption
  <1>2. CacheShape(NewCache) /\ NewCache.frames = <<NewMap>>
    BY <1>1 DEF NewCache, CacheShape
  <1>3. DOMAIN NewCache.frames = {1} /\ Len(NewCache.frames) = 1 /\ NewCache.frames[1] = NewMap
    BY <1>2
  <1>4. Cached(NewCache) = {}
    BY <1>1, <1>3 DEF Cached
  <1>5. NewState \in StateType /\ NewState.path = <<>> /\ NewState.code = <<>>
        /\ NewState.flags = {}
    <2>1. 0 \in 0 .. (IdxMod - 1) /\ <<>> \in Seq(Node) /\ <<>> \in Seq(Instruction)
      BY StateAssumption
    <2>2. QED BY <2>1 DEF NewState, StateType
  <1>6. ASSUME NEW s \in StateType, s.path = <<>>, s.code = <<>>, NotBoth(s)
        PROVE  Session(s, NewCache, NoHome) /\ AtNode(s)
    <2>1. Scoped(s.path, NewCache.frames, NoHome)
      BY <1>1, <1>3 DEF Scoped
    <2>2. Len(NewCache.frames) = Len(s.path) + 1
      BY <1>3, <1>6
    <2>3. DOMAIN NoHome = {}
      BY DEF NoHome
    <2>4. QED BY <1>2, <1>4, <1>6, <2>1, <2>2, <2>3, UncroakedCode
                 DEF Session, AtNode, Starts
  <1>7. QED BY <1>4, <1>5, <1>6

\* The configured language.
LEMMA ConfiguredType ==
  ASSUME NEW s \in StateType, NotBoth(s)
  PROVE  /\ Configured(s) \in StateType /\ NotBoth(Configured(s))
         /\ Configured(s).path = s.path /\ Configured(s).code = s.code
         /\ "TERMINATE" \in Configured(s).flags <=> "TERMINATE" \in s.flags
  <1> DEFINE t == [s EXCEPT !.lang = ConfigLang]
             f == t.flags \cup {"LANG"}
             u == [t EXCEPT !.flags = f]
  <1>1. /\ t \in StateType /\ t.path = s.path /\ t.code = s.code /\ t.flags = s.flags
        /\ t.flags \in SUBSET Flag
    BY EngineAssumption DEF StateType
  <1> HIDE DEF t
  <1>2. f \in SUBSET Flag /\ ("TERMINATE" \in f <=> "TERMINATE" \in s.flags)
        /\ ("WAIT" \in f <=> "WAIT" \in s.flags)
    BY <1>1 DEF Flag, BaseFlag
  <1> HIDE DEF f
  <1>3. u \in StateType /\ u.path = t.path /\ u.code = t.code /\ u.flags = f
    BY <1>1, <1>2, FlagsOnly
  <1>4. Configured(s) = IF s.lang = NoLang /\ ConfigLang # NoLang THEN u ELSE s
    BY DEF Configured, SetFlag, u, t, f
  <1> HIDE DEF u
  <1>5. QED BY <1>1, <1>2, <1>3, <1>4 DEF NotBoth

\* What goes on, of a session in an engine or of one that is stored.
ViewOf(x) == View(x.st, x.ca, x.st.code)
NewView == View(NewState, NewCache, <<>>)

\* What a view is made of.
LEMMA SameView ==
  ASSUME NEW s, NEW c, NEW b, NEW t, NEW d, NEW a, s.path = t.path, c.frames = d.frames,
         "TERMINATE" \in s.flags <=> "TERMINATE" \in t.flags,
         b = a \/ (b = <<>> /\ a = <<MOVE(Root)>>)
  PROVE  View(s, c, b) = View(t, d, a)
  <1>1. (IF b = <<>> THEN <<MOVE(Root)>> ELSE b) = (IF a = <<>> THEN <<MOVE(Root)>> ELSE a)
    OBVIOUS
  <1>2. ("TERMINATE" \in s.flags) = ("TERMINATE" \in t.flags)
    OBVIOUS
  <1> DEFINE m == IF b = <<>> THEN <<MOVE(Root)>> ELSE b
             n == IF a = <<>> THEN <<MOVE(Root)>> ELSE a
             v == "TERMINATE" \in s.flags
             w == "TERMINATE" \in t.flags
  <1>3. m = n /\ v = w
    BY <1>1, <1>2
  <1>4. /\ View(s, c, b) = [path |-> s.path, frames |-> c.frames, next |-> m, over |-> v]
        /\ View(t, d, a) = [path |-> t.path, frames |-> d.frames, next |-> n, over |-> w]
    BY DEF View
  <1> HIDE DEF m, n, v, w
  <1>5. QED BY <1>3, <1>4

\* What prepare stores, and what it goes on with.
LEMMA PreparedGood ==
  ASSUME NEW x, CallGood(x), Unserved(x), NEW fails
  PROVE  /\ CallGood(Prepared(x, fails))
         /\ x.eng.initd => Prepared(x, fails) = x
         /\ Prepared(x, fails).eng.initd = x.eng.initd
         /\ ~Returned(Prepared(x, fails)) =>
              /\ Unserved(Prepared(x, fails))
              /\ Prepared(x, fails).eng.ready /\ AtNode(Prepared(x, fails).st)
         /\ Prepared(x, fails).store # x.store =>
              /\ ~x.eng.initd
              /\ x.store = NoSession \/ "get" \in fails
              /\ ViewOf(Prepared(x, fails).store) = NewView
         /\ ~x.eng.initd /\ Persisted /\ ~Returned(Prepared(x, fails)) =>
              /\ ViewOf(Prepared(x, fails)) = ViewOf(Prepared(x, fails).store)
              /\ (\A z : Image(z) # NoSession) => Prepared(x, fails).store # NoSession
  <1> DEFINE s == Configured(x.st)
             e == [x.eng EXCEPT !.ready = TRUE]
             y == [x EXCEPT !.st = s, !.pg = NewPage, !.mn = NewMenu, !.eng = e]
             p == Prepared(x, fails)
             goal == /\ CallGood(p)
                     /\ x.eng.initd => p = x
                     /\ p.eng.initd = x.eng.initd
                     /\ ~Returned(p) => Unserved(p) /\ p.eng.ready /\ AtNode(p.st)
                     /\ p.store # x.store =>
                          /\ ~x.eng.initd
                          /\ x.store = NoSession \/ "get" \in fails
                          /\ ViewOf(p.store) = NewView
                     /\ ~x.eng.initd /\ Persisted /\ ~Returned(p) =>
                          /\ ViewOf(p) = ViewOf(p.store)
                          /\ (\A z : Image(z) # NoSession) => p.store # NoSession
  <1>1. /\ DOMAIN x = Fields /\ x.eng \in EngineType /\ Session(x.st, x.ca, x.home)
        /\ CallShape(x) /\ Rules(x) /\ x.reply = "on" /\ ~x.eng.execd /\ ~x.eng.exiting
        /\ x.st \in StateType /\ NotBoth(x.st)
    BY DEF CallGood, CallShape, Fields, Unserved, Session
  <1>2. /\ s \in StateType /\ NotBoth(s) /\ s.path = x.st.path /\ s.code = x.st.code
        /\ "TERMINATE" \in s.flags <=> "TERMINATE" \in x.st.flags
    BY <1>1, ConfiguredType
  <1> HIDE DEF s
  <1>3. /\ e \in EngineType /\ e.ready /\ e.initd = x.eng.initd /\ ~e.execd /\ ~e.exiting
    BY <1>1 DEF EngineType
  <1> HIDE DEF e
  <1>4. /\ DOMAIN y = Fields /\ y.st = s /\ y.ca = x.ca /\ y.home = x.home /\ y.pg = NewPage
        /\ y.mn = NewMenu /\ y.eng = e /\ y.store = x.store /\ y.reply = "on"
        /\ y.out = x.out
    BY <1>1 DEF Fields
  <1>5. p = IF x.eng.initd THEN x
            ELSE IF Persisted /\ x.eng.ready THEN Answer(x, "error")
            ELSE IF Persisted THEN Opened(y, fails) ELSE y
    <2>1. y = [x EXCEPT !.st = Configured(@), !.pg = NewPage, !.mn = NewMenu,
                        !.eng.ready = TRUE]
      BY <1>1 DEF Fields, e, s
    <2> HIDE DEF y
    <2>2. QED BY <2>1 DEF Prepared
  <1> HIDE DEF y, p
  <1>6. NewPage \in Page /\ NewMenu \in Menu
    BY NewMapIsFrame DEF NewPage, NewMenu, Page, Menu
  <1>7. Session(s, x.ca, x.home)
    BY <1>1, <1>2, OtherState
  <1>8. CallShape(y)
    BY <1>1, <1>3, <1>4, <1>6 DEF CallShape, Fields
  <1>9. CASE x.eng.initd
    <2>1. p = x
      BY <1>5, <1>9
    <2>2. goal
      BY <1>1, <1>9, <2>1 DEF Rules, Unserved
    <2>3. QED BY <2>2 DEF p
  <1>10. CASE ~x.eng.initd /\ Persisted /\ x.eng.ready
    <2>1. p = Answer(x, "error")
      BY <1>5, <1>10
    <2>2. CallGood(p) /\ p.reply = "error" /\ p.eng = x.eng /\ p.store = x.store
      BY <2>1, Replies, AnswerGood
    <2>3. goal
      BY <1>10, <2>2 DEF Returned
    <2>4. QED BY <2>3 DEF p
  <1>11. CASE ~x.eng.initd /\ ~Persisted
    <2>1. p = y
      BY <1>5, <1>11
    <2>2. x.store = NoSession /\ x.st.code = <<>>
      BY <1>1, <1>11 DEF Rules
    <2>3. Rules(y)
      BY <1>1, <1>2, <1>3, <1>4, <1>11, <2>2 DEF Rules
    <2>4. CallGood(y)
      BY <1>4, <1>7, <1>8, <2>3 DEF CallGood
    <2>5. AtNode(y.st)
      BY <1>2, <1>4, <2>2 DEF AtNode, Starts
    <2>6. goal
      BY <1>3, <1>4, <1>11, <2>1, <2>4, <2>5 DEF Unserved
    <2>7. QED BY <2>6 DEF p
  <1>12. CASE ~x.eng.initd /\ Persisted /\ ~x.eng.ready
    <2>1. p = Opened(y, fails)
      BY <1>5, <1>12
    <2>2. x.st = NewState /\ x.ca = NewCache /\ x.home = NoHome
      BY <1>1, <1>12 DEF Rules
    <2>3. /\ Session(s, NewCache, NoHome) /\ AtNode(s) /\ s.code = <<>> /\ s.path = <<>>
          /\ "TERMINATE" \notin s.flags /\ Cached(NewCache) = {}
      BY <1>2, <2>2, NewSession
    <2>4. CASE x.store # NoSession /\ "get" \notin fails
      <3> DEFINE r == Restored(y)
      <3>1. /\ DOMAIN r = Fields /\ r.st = x.store.st /\ r.ca = x.store.ca
            /\ r.home = x.store.home /\ r.pg = NewPage /\ r.mn = NewMenu /\ r.eng = e
            /\ r.store = x.store /\ r.reply = "on" /\ r.out = x.out
        BY <1>4 DEF Restored, Fields
      <3>2. p = r
        BY <1>4, <2>1, <2>4 DEF Opened
      <3> HIDE DEF r
      <3>3. Session(r.st, r.ca, r.home) /\ AtNode(r.st)
        BY <1>1, <2>4, <3>1 DEF CallShape, Stored
      <3>4. CallShape(r)
        BY <1>4, <1>8, <3>1 DEF CallShape, Fields
      <3>5. Rules(r)
        BY <1>3, <1>12, <3>1 DEF Rules
      <3>6. CallGood(r) /\ Unserved(r)
        BY <1>3, <3>1, <3>3, <3>4, <3>5 DEF CallGood, Unserved
      <3>7. ViewOf(r) = ViewOf(r.store)
        BY <3>1 DEF ViewOf
      <3>8. goal
        BY <1>3, <1>12, <2>4, <3>1, <3>2, <3>3, <3>6, <3>7
      <3>9. QED BY <3>8 DEF p
    <2>5. CASE ~(x.store # NoSession /\ "get" \notin fails)
      <3> DEFINE im == Image(y)
                 z == [y EXCEPT !.store = im]
                 t == [s EXCEPT !.input = NoInput]
      <3>1. p = IF "put" \in fails THEN Answer(y, "error")
                ELSE IF "again" \in fails THEN Answer(z, "error") ELSE z
        BY <1>4, <2>1, <2>5 DEF Opened
      <3>2. im.st = t /\ im.ca = NewCache /\ im.home = NoHome
        BY <1>4, <2>2 DEF Image
      <3>3. t \in StateType /\ t.path = s.path /\ t.code = s.code /\ t.flags = s.flags
        BY <1>2 DEF StateType
      <3> HIDE DEF t
      <3>4. Stored(im)
        <4>1. NotBoth(t)
          BY <2>3, <3>3 DEF NotBoth
        <4>2. Session(t, NewCache, NoHome) /\ AtNode(t)
          BY <2>3, <3>3, <4>1, NewSession
        <4>3. DOMAIN NoHome = {}
          BY DEF NoHome
        <4>4. QED BY <2>3, <3>2, <4>2, <4>3 DEF Stored
      <3>5. ViewOf(im) = NewView
        BY <2>3, <3>2, <3>3, NewSession, SameView DEF ViewOf, NewView
      <3>6. (\A o : Image(o) # NoSession) => im # NoSession
        OBVIOUS
      <3> HIDE DEF im
      <3>7. /\ DOMAIN z = Fields /\ z.st = s /\ z.ca = NewCache /\ z.home = NoHome
            /\ z.pg = NewPage /\ z.mn = NewMenu /\ z.eng = e /\ z.store = im
            /\ z.reply = "on" /\ z.out = x.out
        BY <1>4, <2>2 DEF Fields
      <3> HIDE DEF z
      <3>8. CallShape(z)
        BY <1>4, <1>8, <3>4, <3>7 DEF CallShape, Fields
      <3>9. Rules(z) /\ Rules(y)
        BY <1>3, <1>4, <1>12, <3>7 DEF Rules
      <3>10. CallGood(z) /\ Unserved(z) /\ CallGood(y)
        BY <1>3, <1>4, <1>7, <1>8, <2>3, <3>7, <3>8, <3>9 DEF CallGood, Unserved
      <3>11. ViewOf(z) = ViewOf(im)
        BY <3>2, <3>3, <3>7, SameView DEF ViewOf
      <3>12. CASE "put" \in fails
        <4>1. p = Answer(y, "error")
          BY <3>1, <3>12
        <4>2. CallGood(p) /\ p.reply = "error" /\ p.eng = e /\ p.store = x.store
          BY <1>4, <3>10, <4>1, Replies, AnswerGood
        <4>3. goal
          BY <1>3, <1>12, <4>2 DEF Returned
        <4>4. QED BY <4>3 DEF p
      <3>13. CASE "put" \notin fails /\ "again" \in fails
        <4>1. p = Answer(z, "error")
          BY <3>1, <3>13
        <4>2. CallGood(p) /\ p.reply = "error" /\ p.eng = e /\ p.store = im
          BY <3>7, <3>10, <4>1, Replies, AnswerGood
        <4>3. goal
          BY <1>3, <1>12, <2>5, <3>5, <4>2 DEF Returned
        <4>4. QED BY <4>3 DEF p
      <3>14. CASE "put" \notin fails /\ "again" \notin fails
        <4>1. p = z
          BY <3>1, <3>14
        <4>2. goal
          BY <1>3, <1>12, <2>3, <2>5, <3>5, <3>6, <3>7, <3>10, <3>11, <4>1
        <4>3. QED BY <4>2 DEF p
      <3>15. QED BY <3>12, <3>13, <3>14
    <2>6. QED BY <2>4, <2>5
  <1>13. QED BY <1>9, <1>10, <1>11, <1>12

-----------------------------------------------------------------------------
(* The first function.                                                     *)

\* A machine state at node n, one level above a session with state s and cache c.
OneAbove(s, c, n, o) ==
  /\ DOMAIN o = {"st", "ca", "pg", "mn", "b", "err"}
  /\ o.st \in StateType /\ o.st.path = Append(s.path, n) /\ o.st.code = s.code
  /\ CacheShape(o.ca) /\ Len(o.ca.frames) = Len(c.frames) + 1
  /\ \A i \in DOMAIN c.frames : o.ca.frames[i] = c.frames[i]

\* The node is left, its level freed, and the session is the one before.
LEMMA BackDown ==
  ASSUME NEW s, NEW c, NEW h, Session(s, c, h), NEW n \in Node, NEW o, OneAbove(s, c, n, o),
         NEW f \in SUBSET o.st.flags, "TERMINATE" \notin f,
         NEW u, u = Up([o.st EXCEPT !.flags = f])
  PROVE  /\ u.path = s.path /\ u.code = s.code /\ u.flags = f
         /\ Pop(o.ca).frames = c.frames /\ Cached(Pop(o.ca)) = Cached(c)
         /\ Session(u, Pop(o.ca), h)
  <1> DEFINE t == [o.st EXCEPT !.flags = f]
             d == PopN(o.ca, 1)
  <1>1. /\ s.path \in Seq(Node) /\ s.code \in Seq(Instruction) /\ s \in StateType
        /\ o.st \in StateType /\ f \in SUBSET Flag
    BY DEF Session, OneAbove, StateType
  <1>2. /\ Len(t.path) = Len(s.path) + 1 /\ t.path # <<>> /\ t \in StateType /\ t.code = s.code
        /\ \A j \in 1 .. Len(s.path) : t.path[j] = s.path[j]
        /\ t.flags = f
    <2>1. /\ t \in StateType /\ t.path = o.st.path /\ t.code = o.st.code /\ t.flags = f
      BY <1>1, FlagsOnly
    <2> HIDE DEF t
    <2> DEFINE q == Append(s.path, n)
    <2>2. /\ Len(q) = Len(s.path) + 1 /\ q # <<>>
          /\ \A j \in 1 .. Len(s.path) : q[j] = s.path[j]
      BY <1>1, AppendProperties
    <2>3. t.path = q /\ t.code = s.code
      BY <2>1 DEF OneAbove
    <2> HIDE DEF q
    <2>4. QED BY <2>1, <2>2, <2>3
  <1> HIDE DEF t
  <1>3. /\ u \in StateType /\ Len(u.path) = Len(t.path) - 1 /\ u.code = s.code
        /\ \A j \in 1 .. Len(t.path) - 1 : u.path[j] = t.path[j]
        /\ u.flags = f
    BY <1>2, PathSteps DEF t
  <1>4. u.path = s.path
    <2>1. u.path \in Seq(Node) /\ Len(s.path) \in Nat
      BY <1>1, <1>3, LenProperties DEF StateType
    <2>2. Len(u.path) = Len(s.path) /\ \A j \in 1 .. Len(s.path) : u.path[j] = s.path[j]
      BY <1>2, <1>3, <2>1
    <2>3. QED BY <1>1, <2>1, <2>2, SeqEqual
  <1>5. CacheShape(d) /\ d.frames = c.frames
    <2>1. CacheShape(c) /\ CacheShape(o.ca)
      BY DEF Session, OneAbove
    <2>2. /\ Len(c.frames) \in Nat \ {0} /\ DOMAIN c.frames = 1 .. Len(c.frames)
          /\ DOMAIN d.frames = 1 .. Len(d.frames) /\ CacheShape(d)
          /\ Len(o.ca.frames) = Len(c.frames) + 1
      BY <2>1, Numbered, PopNFrames DEF OneAbove
    <2>3. /\ Len(d.frames) = Len(c.frames)
          /\ \A i \in DOMAIN d.frames : d.frames[i] = o.ca.frames[i]
      BY <2>1, <2>2, PopNFrames
    <2>4. \A i \in 1 .. Len(c.frames) : d.frames[i] = c.frames[i]
      BY <2>2, <2>3 DEF OneAbove
    <2>5. d.frames \in Seq(Frame) /\ c.frames \in Seq(Frame)
      BY <2>1, <2>2 DEF CacheShape
    <2> HIDE DEF d
    <2>6. QED BY <2>2, <2>3, <2>4, <2>5, SeqEqual
  <1> HIDE DEF d
  <1>6. NotBoth(u)
    BY <1>3 DEF NotBoth
  <1>7. Session(u, c, h)
    BY <1>3, <1>4, <1>6, OtherState
  <1>8. Session(u, d, h) /\ Cached(d) = Cached(c)
    BY <1>5, <1>7, SameFrames
  <1>9. QED BY <1>3, <1>4, <1>5, <1>8 DEF d, Pop

\* The first function starts in a session that was just opened.
ForFirst(x) == CallGood(x) /\ Unserved(x) /\ ~x.eng.initd /\ x.eng.ready

\* The deferred calls leave a session that is not over.
LEMMA FirstDoneGood ==
  ASSUME NEW x, ForFirst(x), NEW s, NEW c, Session(s, c, x.home), s.code = x.st.code,
         NEW n \in Node, NEW o, OneAbove(s, c, n, o), NEW y, y = FirstDone(x, o)
  PROVE  /\ CallGood(y) /\ Unserved(y) /\ y.eng = x.eng /\ y.store = x.store
         /\ y.st.path = s.path /\ y.ca.frames = c.frames /\ y.st.code = s.code
         /\ "TERMINATE" \notin y.st.flags
  <1> DEFINE f == o.st.flags \ {"TERMINATE", "DIRTY"}
             u == Up([o.st EXCEPT !.flags = f])
             d == Pop(o.ca)
  <1>1. /\ DOMAIN x = Fields /\ CallShape(x) /\ Rules(x) /\ x.reply = "on"
        /\ ~x.eng.execd /\ ~x.eng.exiting
    BY DEF ForFirst, CallGood, CallShape, Fields, Unserved
  <1>2. y = [x EXCEPT !.st = u, !.ca = d]
    BY DEF FirstDone
  <1>3. f \in SUBSET o.st.flags /\ "TERMINATE" \notin f
    OBVIOUS
  <1> HIDE DEF f, d
  <1>4. /\ u.path = s.path /\ u.code = s.code /\ u.flags = f
        /\ d.frames = c.frames
        /\ Session(u, d, x.home)
    BY <1>3, BackDown DEF d
  <1> HIDE DEF u
  <1>5. /\ DOMAIN y = Fields /\ y.st = u /\ y.ca = d /\ y.home = x.home /\ y.pg = x.pg
        /\ y.mn = x.mn /\ y.eng = x.eng /\ y.store = x.store /\ y.reply = "on"
        /\ y.out = x.out
    BY <1>1, <1>2 DEF Fields
  <1>6. CallShape(y)
    BY <1>1, <1>5 DEF CallShape, Fields
  <1>7. Rules(y)
    BY <1>1, <1>4, <1>5 DEF Rules, ForFirst
  <1>8. QED BY <1>1, <1>3, <1>4, <1>5, <1>6, <1>7 DEF CallGood, Unserved

\* The engine is blocked.
LEMMA BlocksGood ==
  ASSUME NEW x, ForFirst(x), NEW s, NEW c, Session(s, c, x.home), s.code = x.st.code,
         NEW n \in Node, NEW o, OneAbove(s, c, n, o), NEW y, y = Blocks(x, o)
  PROVE  CallGood(y) /\ Returned(y) /\ ~y.eng.initd /\ y.store = x.store
  <1> DEFINE d == ForgetLast(o.ca)
             p == [o EXCEPT !.ca = d]
             g == FirstDone(x, p)
             e == [g.eng EXCEPT !.execd = TRUE, !.exit = o.ca.last]
             z == [g EXCEPT !.eng = e]
  <1>1. CacheShape(d) /\ d.frames = o.ca.frames /\ o.ca.last \in Value
    BY CacheAssumption DEF OneAbove, CacheShape, ForgetLast
  <1> HIDE DEF d
  <1>2. OneAbove(s, c, n, p)
    BY <1>1 DEF OneAbove
  <1> HIDE DEF p
  <1>3. /\ CallGood(g) /\ Unserved(g) /\ g.eng = x.eng /\ g.store = x.store
    BY <1>2, FirstDoneGood
  <1> HIDE DEF g
  <1>4. e \in EngineType /\ e.ready /\ ~e.initd /\ ~e.exiting
    BY <1>1, <1>3 DEF CallGood, CallShape, ForFirst, Unserved, EngineType
  <1>5. y = Answer(z, "over")
    <2>1. DOMAIN g = Fields /\ DOMAIN g.eng = {"ready", "initd", "execd", "exiting", "exit"}
      BY <1>3 DEF CallGood, CallShape, Fields, EngineType
    <2> DEFINE w == [g EXCEPT !.eng.execd = TRUE, !.eng.exit = o.ca.last]
    <2>2. y = Answer(w, "over")
      BY DEF Blocks, g, p, d
    <2>3. w = z
      BY <2>1 DEF Fields
    <2>4. QED BY <2>2, <2>3
  <1> HIDE DEF e
  <1>6. /\ DOMAIN z = Fields /\ z.st = g.st /\ z.ca = g.ca /\ z.home = g.home /\ z.pg = g.pg
        /\ z.mn = g.mn /\ z.eng = e /\ z.store = g.store /\ z.reply = g.reply
        /\ z.out = g.out
    BY <1>3 DEF CallGood, CallShape, Fields
  <1> HIDE DEF z
  <1>7. CallShape(z)
    BY <1>3, <1>4, <1>6 DEF CallGood, CallShape, Fields
  <1>8. Rules(z)
    BY <1>3, <1>4, <1>6 DEF CallGood, Rules, ForFirst
  <1>9. CallGood(z)
    BY <1>3, <1>6, <1>7, <1>8 DEF CallGood
  <1>10. QED BY <1>3, <1>4, <1>5, <1>6, <1>9, Replies, AnswerGood DEF Returned

\* The head of the loop changes flags, and page and menu.
LEMMA LoopHeadKeeps ==
  ASSUME NEW o, DOMAIN o = {"st", "ca", "pg", "mn", "b", "err"}, o.st \in StateType
  PROVE  /\ DOMAIN LoopHead(o) = DOMAIN o
         /\ LoopHead(o).st \in StateType
         /\ LoopHead(o).st.path = o.st.path /\ LoopHead(o).st.code = o.st.code
         /\ LoopHead(o).ca = o.ca /\ LoopHead(o).b = o.b /\ LoopHead(o).err = o.err
  <1> DEFINE f == (o.st.flags \ {"LANG"}) \cup {"DIRTY"}
             g == f \ {"WAIT", "INMATCH"}
             t == [o.st EXCEPT !.flags = f]
             p == [o EXCEPT !.st = t]
             u == [t EXCEPT !.flags = g]
             q == [p EXCEPT !.st = u, !.pg = PageReset(p.pg), !.mn = MenuReset(p.mn)]
  <1>1. f \in SUBSET Flag /\ g \in SUBSET Flag
    BY DEF StateType, Flag, BaseFlag
  <1>2. LoopHead(o) = IF "WAIT" \in o.st.flags THEN q ELSE p
    BY DEF LoopHead, Wake, StateType
  <1> HIDE DEF f, g
  <1>3. t \in StateType /\ t.path = o.st.path /\ t.code = o.st.code
    BY <1>1, FlagsOnly
  <1> HIDE DEF t
  <1>4. u \in StateType /\ u.path = o.st.path /\ u.code = o.st.code
    BY <1>1, <1>3, FlagsOnly
  <1> HIDE DEF u
  <1>5. /\ DOMAIN p = DOMAIN o /\ p.st = t /\ p.ca = o.ca /\ p.b = o.b /\ p.err = o.err
        /\ DOMAIN q = DOMAIN o /\ q.st = u /\ q.ca = o.ca /\ q.b = o.b /\ q.err = o.err
    OBVIOUS
  <1> HIDE DEF p, q
  <1>6. QED BY <1>2, <1>3, <1>4, <1>5

\* Add changes the frame on top only.
LEMMA AddKeepsBelow ==
  ASSUME NEW c, CacheShape(c), NEW k, NEW v, NEW lim
  PROVE  \A i \in DOMAIN c.frames :
           i # Len(c.frames) => Add(c, k, v, lim).frames[i] = c.frames[i]
  BY DEF Add, Levels

\* The first function's value is loaded at its own level, or nothing is.
LEMMA FirstLoad ==
  ASSUME NEW x, ForFirst(x), conf \in Configs, NEW r \in First,
         NEW o, o = RunLoad(LoopHead(FirstVm(x)), LOAD(FirstSym, 0), r)
  PROVE  /\ OneAbove(x.st, x.ca, FirstSym, o)
         /\ o.err # "ok" => o.ca = Push(x.ca)
  <1> DEFINE v == FirstVm(x)
             p == LoopHead(v)
             i == LOAD(FirstSym, 0)
             lim == 0 % U16
             s == Refreshed(p.st, r)
             d == Add(p.ca, FirstSym, r.content, lim)
             good == AddOutcome(p.ca, FirstSym, r.content, lim) \in {"ok", "dup"}
  <1>1. r \in Result /\ r.found /\ FirstSym \in Key /\ FirstSym \in Node
    BY EngineAssumption DEF First
  <1>2. x.st \in StateType /\ x.st.path \in Seq(Node) /\ CacheShape(x.ca)
    BY DEF ForFirst, CallGood, Session, StateType
  <1>3. /\ DOMAIN v = {"st", "ca", "pg", "mn", "b", "err"} /\ v.ca = Push(x.ca)
        /\ v.st \in StateType /\ v.st.path = Append(x.st.path, FirstSym)
        /\ v.st.code = x.st.code /\ v.err = "ok"
    <2>1. Down(x.st, FirstSym) \in StateType /\ Down(x.st, FirstSym).code = x.st.code
      BY <1>1, <1>2, PathSteps
    <2>2. Down(x.st, FirstSym).path = Append(x.st.path, FirstSym)
      BY <1>2 DEF Down, StateType
    <2>3. QED BY <2>1, <2>2 DEF FirstVm
  <1> HIDE DEF v
  <1>4. /\ DOMAIN p = {"st", "ca", "pg", "mn", "b", "err"} /\ p.ca = Push(x.ca)
        /\ p.st \in StateType /\ p.st.path = Append(x.st.path, FirstSym)
        /\ p.st.code = x.st.code /\ p.err = "ok"
    BY <1>3, LoopHeadKeeps
  <1> HIDE DEF p
  <1>5. /\ CacheShape(p.ca) /\ Len(p.ca.frames) = Len(x.ca.frames) + 1
        /\ \A j \in DOMAIN x.ca.frames : p.ca.frames[j] = x.ca.frames[j] /\ j \in DOMAIN p.ca.frames
                                         /\ j # Len(p.ca.frames)
    <2>1. /\ CacheShape(p.ca) /\ Len(p.ca.frames) = Len(x.ca.frames) + 1
          /\ \A j \in DOMAIN x.ca.frames : p.ca.frames[j] = x.ca.frames[j]
      BY <1>2, <1>4, PushFrames
    <2>2. /\ DOMAIN p.ca.frames = 1 .. Len(p.ca.frames)
          /\ DOMAIN x.ca.frames = 1 .. Len(x.ca.frames) /\ Len(x.ca.frames) \in Nat
      BY <1>2, <2>1, Numbered
    <2>3. \A j \in 1 .. Len(x.ca.frames) : j \in 1 .. Len(x.ca.frames) + 1
                                            /\ j # Len(x.ca.frames) + 1
      BY <2>2
    <2>4. QED BY <2>1, <2>2, <2>3
  <1>6. /\ o = IF FrameOf(p.ca, FirstSym) # 0 THEN p
               ELSE IF r.fail THEN RefreshFails(p, r)
               ELSE [p EXCEPT !.st = s, !.ca = d, !.err = IF good THEN "ok" ELSE "fail"]
    BY <1>4 DEF RunLoad, LOAD, p, v
  <1>7. CASE FrameOf(p.ca, FirstSym) # 0
    BY <1>4, <1>5, <1>6, <1>7 DEF OneAbove
  <1>8. CASE FrameOf(p.ca, FirstSym) = 0 /\ r.fail
    <2> DEFINE t == SetFlag(p.st, "LOADFAIL")
    <2>1. /\ t \in StateType /\ t.path = p.st.path /\ t.code = p.st.code
      <3> DEFINE flags == p.st.flags \cup {"LOADFAIL"}
      <3>1. flags \in SUBSET Flag
        BY <1>4 DEF StateType, Flag, BaseFlag
      <3>2. t = [p.st EXCEPT !.flags = flags]
        BY DEF SetFlag
      <3> HIDE DEF flags, t
      <3>3. QED BY <1>4, <3>1, <3>2, FlagsOnly
    <2>2. o = [p EXCEPT !.err = "fail", !.st = t]
      BY <1>1, <1>4, <1>6, <1>8 DEF RefreshFails
    <2> HIDE DEF t
    <2>3. /\ DOMAIN o = {"st", "ca", "pg", "mn", "b", "err"} /\ o.ca = p.ca /\ o.st = t
      BY <1>4, <2>2
    <2>4. QED BY <1>4, <1>5, <2>1, <2>3 DEF OneAbove
  <1>9. CASE FrameOf(p.ca, FirstSym) = 0 /\ ~r.fail
    <2>1. s \in StateType /\ s.path = p.st.path /\ s.code = p.st.code /\ r.content \in Value
      BY <1>1, <1>4, <1>9, RefreshedType
    <2>2. /\ CacheShape(d) /\ Len(d.frames) = Len(p.ca.frames)
      BY ONLY <1>1, <1>5, <2>1, AddFrames
    <2>3. \A j \in DOMAIN p.ca.frames : j # Len(p.ca.frames) => d.frames[j] = p.ca.frames[j]
      BY <1>5, AddKeepsBelow
    <2>4. ~good => d = p.ca
      BY DEF Add
    <2> HIDE DEF s, d, good
    <2>5. /\ DOMAIN o = {"st", "ca", "pg", "mn", "b", "err"} /\ o.ca = d /\ o.st = s
          /\ o.err = IF good THEN "ok" ELSE "fail"
      BY <1>4, <1>6, <1>9
    <2>6. \A j \in DOMAIN x.ca.frames : o.ca.frames[j] = x.ca.frames[j]
      BY <1>5, <2>3, <2>5
    <2>7. QED BY <1>4, <1>5, <2>1, <2>2, <2>4, <2>5, <2>6 DEF OneAbove
  <1>10. QED BY <1>7, <1>8, <1>9

\* runDeadCheck moves nothing.
LEMMA DeadCheckKeeps ==
  ASSUME NEW o, DOMAIN o = {"st", "ca", "pg", "mn", "b", "err"}, o.st \in StateType
  PROVE  /\ DOMAIN DeadCheck(o) = DOMAIN o
         /\ DeadCheck(o).st \in StateType
         /\ DeadCheck(o).st.path = o.st.path /\ DeadCheck(o).st.code = o.st.code
         /\ DeadCheck(o).ca = o.ca
  <1> DEFINE t == SetFlag(o.st, "TERMINATE")
             f == [o EXCEPT !.st = t]
             g == [o EXCEPT !.pg.err = TRUE, !.b = <<MOVE(Catch)>>]
             h == [o EXCEPT !.err = "fail"]
  <1>1. t \in StateType /\ t.path = o.st.path /\ t.code = o.st.code
    <2>1. o.st.flags \cup {"TERMINATE"} \in SUBSET Flag
      BY DEF StateType, Flag, BaseFlag
    <2>2. QED BY <2>1, FlagsOnly DEF SetFlag
  <1>2. DeadCheck(o) \in {f, o, h, g}
    BY DEF DeadCheck, Fails
  <1> HIDE DEF t
  <1>3. \A e \in {f, o, h, g} : /\ DOMAIN e = DOMAIN o /\ e.ca = o.ca
                                /\ e.st = t \/ e.st = o.st
    OBVIOUS
  <1> HIDE DEF f, g, h
  <1>4. QED BY <1>1, <1>2, <1>3

\* The way to _catch, when the first function has failed: the session is one node
\* deeper and one level higher.
LEMMA FirstCaught ==
  ASSUME NEW x, ForFirst(x), NEW o, OneAbove(x.st, x.ca, FirstSym, o), o.ca = Push(x.ca),
         NEW e, e = DeadCheck(FreshPage(Descend(LoopHead(Ok(o)), Catch)))
  PROVE  /\ Session(Down(x.st, FirstSym), Push(x.ca), x.home)
         /\ Down(x.st, FirstSym).code = x.st.code
         /\ OneAbove(Down(x.st, FirstSym), Push(x.ca), Catch, e)
  <1> DEFINE s == Down(x.st, FirstSym)
             c == Push(x.ca)
             p == LoopHead(Ok(o))
             d == Descend(p, Catch)
             q == FreshPage(d)
  <1>1. /\ Session(x.st, x.ca, x.home) /\ x.st \in StateType /\ CacheShape(x.ca)
        /\ x.st.path \in Seq(Node) /\ NotBoth(x.st) /\ FirstSym \in Node /\ Catch \in Node
    BY EngineAssumption, VmAssumption DEF ForFirst, CallGood, Session, StateType
  <1>2. /\ s \in StateType /\ Len(s.path) = Len(x.st.path) + 1 /\ s.code = x.st.code
        /\ \A j \in 1 .. Len(x.st.path) : s.path[j] = x.st.path[j]
        /\ s.flags = x.st.flags /\ s.path = Append(x.st.path, FirstSym)
    <2>1. s.path = Append(x.st.path, FirstSym)
      BY <1>1 DEF Down, StateType
    <2>2. QED BY <1>1, <2>1, PathSteps
  <1> HIDE DEF s
  <1>3. Session(s, c, x.home)
    <2>1. NotBoth(s)
      BY <1>1, <1>2 DEF NotBoth
    <2>2. QED BY <1>1, <1>2, <2>1, Grows
  <1>4. /\ DOMAIN p = {"st", "ca", "pg", "mn", "b", "err"} /\ p.st \in StateType
        /\ p.st.path = s.path /\ p.st.code = s.code /\ p.ca = c
    <2> DEFINE k == [o EXCEPT !.err = "ok"]
    <2>1. /\ DOMAIN k = {"st", "ca", "pg", "mn", "b", "err"} /\ k.st = o.st /\ k.ca = o.ca
      BY DEF OneAbove
    <2>2. k.st \in StateType /\ k.st.path = s.path /\ k.st.code = s.code /\ k.ca = c
      BY <1>2, <2>1 DEF OneAbove
    <2> HIDE DEF k, c
    <2>3. p = LoopHead(k)
      BY DEF Ok, k
    <2>4. QED BY <2>1, <2>2, <2>3, LoopHeadKeeps
  <1> HIDE DEF p, c
  <1>5. CacheShape(c) /\ CacheShape(Push(c)) /\ Len(Push(c).frames) = Len(c.frames) + 1
        /\ \A i \in DOMAIN c.frames : Push(c).frames[i] = c.frames[i]
    <2>1. CacheShape(c)
      BY <1>3 DEF Session
    <2>2. QED BY <2>1, PushFrames
  <1>6. /\ DOMAIN q = {"st", "ca", "pg", "mn", "b", "err"} /\ q.ca = Push(c)
        /\ q.st = Down(p.st, Catch)
    BY <1>4 DEF FreshPage, Descend
  <1> HIDE DEF q
  <1>7. /\ q.st \in StateType /\ q.st.path = Append(s.path, Catch) /\ q.st.code = s.code
    <2>1. Down(p.st, Catch) \in StateType /\ Down(p.st, Catch).code = p.st.code
      BY <1>1, <1>4, PathSteps
    <2>2. Down(p.st, Catch).path = Append(p.st.path, Catch)
      BY <1>4 DEF Down, StateType
    <2>3. QED BY <1>4, <1>6, <2>1, <2>2
  <1>8. e = DeadCheck(q)
    BY DEF q, p
  <1>9. /\ DOMAIN e = {"st", "ca", "pg", "mn", "b", "err"} /\ e.st \in StateType
        /\ e.st.path = Append(s.path, Catch) /\ e.st.code = s.code /\ e.ca = Push(c)
    BY <1>6, <1>7, <1>8, DeadCheckKeeps
  <1>10. OneAbove(s, c, Catch, e)
    BY <1>5, <1>9 DEF OneAbove
  <1>11. QED BY <1>2, <1>3, <1>10 DEF s, c

\* A call that goes on after the first function goes on where it was.
SameSession(x, y) ==
  /\ CallGood(y) /\ y.store = x.store /\ ~y.eng.initd
  /\ ~Returned(y) => /\ Unserved(y) /\ y.eng = x.eng
                     /\ y.st.path = x.st.path /\ y.ca.frames = x.ca.frames
                     /\ y.st.code = x.st.code
                     /\ "TERMINATE" \in y.st.flags <=> "TERMINATE" \in x.st.flags

\* An answer in place of the first function.
LEMMA AnswersFirst ==
  ASSUME NEW x, NEW y, CallGood(y), ~y.eng.initd, y.store = x.store, NEW r \in Reply, r # "on"
  PROVE  SameSession(x, Answer(y, r))
  BY AnswerGood DEF SameSession, Returned

\* runFirst.
LEMMA RunFirstGood ==
  ASSUME NEW x, ForFirst(x), conf \in Configs,
         NEW r \in IF First = {} THEN {Missing} ELSE First
  PROVE  SameSession(x, RunFirst(x, r))
  <1> DEFINE v == FirstVm(x)
             o == RunLoad(LoopHead(v), LOAD(FirstSym, 0), r)
             l == LoopHead(o)
             halted == [l EXCEPT !.st = SetFlag(@, "WAIT")]
             caught == DeadCheck(FreshPage(Descend(LoopHead(Ok(o)), Catch)))
             y == RunFirst(x, r)
  <1>1. /\ CallGood(x) /\ Unserved(x) /\ ~x.eng.initd /\ Session(x.st, x.ca, x.home)
        /\ FirstSym \in Node /\ Catch \in Node /\ x.st \in StateType
    BY EngineAssumption, VmAssumption DEF ForFirst, CallGood, Session
  <1>2. /\ "over" \in Reply /\ "error" \in Reply /\ "panic" \in Reply
    BY DEF Reply
  <1>3. CASE First = {}
    BY <1>1, <1>3 DEF RunFirst, SameSession
  <1>4. CASE First # {} /\ DownPanics(x.st, FirstSym)
    BY <1>1, <1>2, <1>4, AnswersFirst DEF RunFirst
  <1>5. CASE First # {} /\ ~DownPanics(x.st, FirstSym) /\ "TERMINATE" \in x.st.flags
    <2>1. y = Blocks(x, v)
      BY <1>5 DEF RunFirst
    <2>2. OneAbove(x.st, x.ca, FirstSym, v)
      <3>1. /\ Down(x.st, FirstSym) \in StateType /\ Down(x.st, FirstSym).code = x.st.code
            /\ Down(x.st, FirstSym).path = Append(x.st.path, FirstSym)
        BY <1>1, PathSteps DEF Down, StateType
      <3>2. /\ CacheShape(Push(x.ca)) /\ Len(Push(x.ca).frames) = Len(x.ca.frames) + 1
            /\ \A i \in DOMAIN x.ca.frames : Push(x.ca).frames[i] = x.ca.frames[i]
        BY <1>1, PushFrames DEF Session
      <3>3. QED BY <3>1, <3>2 DEF FirstVm, OneAbove
    <2> HIDE DEF v, y
    <2>3. CallGood(y) /\ Returned(y) /\ ~y.eng.initd /\ y.store = x.store
      BY <1>1, <2>1, <2>2, BlocksGood
    <2>4. SameSession(x, y)
      BY <2>3 DEF SameSession
    <2>5. QED BY <2>4 DEF y
  <1>6. CASE First # {} /\ ~DownPanics(x.st, FirstSym) /\ "TERMINATE" \notin x.st.flags
    <2>1. y = AfterFirstLoad(x, o)
      BY <1>6 DEF RunFirst
    <2>2. /\ OneAbove(x.st, x.ca, FirstSym, o)
          /\ o.err # "ok" => o.ca = Push(x.ca)
      BY <1>6, FirstLoad
    <2> HIDE DEF o, v
    <2>3. y = IF o.err # "ok" /\ "LOADFAIL" \notin o.st.flags
                THEN Answer(FirstDone(x, o), "error")
              ELSE IF "TERMINATE" \in o.st.flags THEN Blocks(x, o)
              ELSE IF o.err = "ok" THEN FirstDone(x, halted)
              ELSE IF DownPanics(o.st, Catch) THEN Answer(x, "panic")
              ELSE IF caught.err # "ok" THEN Answer(FirstDone(x, caught), "error")
              ELSE Blocks(x, caught)
      BY <2>1 DEF AfterFirstLoad
    <2>4. SameSession(x, Answer(FirstDone(x, o), "error"))
      <3>1. CallGood(FirstDone(x, o)) /\ FirstDone(x, o).eng = x.eng
            /\ FirstDone(x, o).store = x.store
        BY <1>1, <2>2, FirstDoneGood
      <3>2. QED BY <1>1, <1>2, <3>1, AnswersFirst
    <2>5. SameSession(x, Blocks(x, o))
      BY <1>1, <2>2, BlocksGood DEF SameSession
    <2>6. SameSession(x, FirstDone(x, halted))
      <3>1. /\ DOMAIN l = {"st", "ca", "pg", "mn", "b", "err"} /\ l.st \in StateType
            /\ l.st.path = o.st.path /\ l.st.code = o.st.code /\ l.ca = o.ca
        BY <2>2, LoopHeadKeeps DEF OneAbove
      <3> HIDE DEF l
      <3> DEFINE t == SetFlag(l.st, "WAIT")
      <3>2. t \in StateType /\ t.path = l.st.path /\ t.code = l.st.code
        <4>1. l.st.flags \cup {"WAIT"} \in SUBSET Flag
          BY <3>1 DEF StateType, Flag, BaseFlag
        <4>2. QED BY <3>1, <4>1, FlagsOnly DEF SetFlag
      <3>3. halted = [l EXCEPT !.st = t]
        OBVIOUS
      <3> HIDE DEF t, halted
      <3>4. OneAbove(x.st, x.ca, FirstSym, halted)
        BY <2>2, <3>1, <3>2, <3>3 DEF OneAbove
      <3> DEFINE z == FirstDone(x, halted)
      <3>5. /\ CallGood(z) /\ Unserved(z) /\ z.eng = x.eng /\ z.store = x.store
            /\ z.st.path = x.st.path /\ z.ca.frames = x.ca.frames /\ z.st.code = x.st.code
            /\ "TERMINATE" \notin z.st.flags
        BY <1>1, <3>4, FirstDoneGood
      <3> HIDE DEF z
      <3>6. SameSession(x, z)
        BY <1>1, <1>6, <3>5 DEF SameSession
      <3>7. QED BY <3>6 DEF z
    <2>7. SameSession(x, Answer(x, "panic"))
      BY <1>1, <1>2, AnswersFirst
    <2>8. ASSUME o.err # "ok"
          PROVE  /\ SameSession(x, Answer(FirstDone(x, caught), "error"))
                 /\ SameSession(x, Blocks(x, caught))
      <3> DEFINE s == Down(x.st, FirstSym)
                 c == Push(x.ca)
      <3>1. /\ Session(s, c, x.home) /\ s.code = x.st.code /\ OneAbove(s, c, Catch, caught)
        BY <2>2, <2>8, FirstCaught
      <3> HIDE DEF s, c, caught
      <3>2. CallGood(FirstDone(x, caught)) /\ FirstDone(x, caught).eng = x.eng
            /\ FirstDone(x, caught).store = x.store
        BY <1>1, <3>1, FirstDoneGood
      <3>3. SameSession(x, Answer(FirstDone(x, caught), "error"))
        BY <1>1, <1>2, <3>2, AnswersFirst
      <3>4. SameSession(x, Blocks(x, caught))
        BY <1>1, <3>1, BlocksGood DEF SameSession
      <3>5. QED BY <3>3, <3>4
    <2> HIDE DEF halted, caught, y
    <2>9. SameSession(x, y)
      BY <2>3, <2>4, <2>5, <2>6, <2>7, <2>8
    <2>10. QED BY <2>9 DEF y
  <1>7. QED BY <1>3, <1>4, <1>5, <1>6

-----------------------------------------------------------------------------
(* A call of Exec, up to the vm.                                           *)

\* An input is recorded.
WithInput(x, in) == [x EXCEPT !.st.input = in]

\* Recording it changes nothing else.
LEMMA InputGood ==
  ASSUME NEW x, CallGood(x), x.eng.ready, NEW in \in Input \cup {NoInput},
         NEW y, y = WithInput(x, in)
  PROVE  /\ CallGood(y) /\ y.eng = x.eng /\ y.store = x.store /\ y.reply = x.reply
         /\ y.ca = x.ca /\ y.home = x.home /\ y.st.path = x.st.path
         /\ y.st.code = x.st.code /\ y.st.flags = x.st.flags
  <1> DEFINE t == [x.st EXCEPT !.input = in]
  <1>1. /\ DOMAIN x = Fields /\ CallShape(x) /\ Session(x.st, x.ca, x.home) /\ Rules(x)
        /\ x.st \in StateType /\ NotBoth(x.st)
    BY DEF CallGood, CallShape, Fields, Session
  <1>2. t \in StateType /\ t.path = x.st.path /\ t.code = x.st.code /\ t.flags = x.st.flags
    BY <1>1 DEF StateType
  <1>3. y = [x EXCEPT !.st = t]
    BY DEF WithInput
  <1> HIDE DEF t
  <1>4. /\ DOMAIN y = Fields /\ y.st = t /\ y.ca = x.ca /\ y.home = x.home /\ y.pg = x.pg
        /\ y.mn = x.mn /\ y.eng = x.eng /\ y.store = x.store /\ y.reply = x.reply
        /\ y.out = x.out
    BY <1>1, <1>3 DEF Fields
  <1>5. NotBoth(t)
    BY <1>1, <1>2 DEF NotBoth
  <1>6. Session(t, x.ca, x.home)
    BY <1>1, <1>2, <1>5, OtherState
  <1>7. CallShape(y)
    BY <1>1, <1>4 DEF CallShape, Fields
  <1>8. AtNode(x.st) => AtNode(t)
    BY <1>2 DEF AtNode, EndsAt, Where
  <1>9. Rules(y)
    BY <1>1, <1>2, <1>4, <1>8 DEF Rules
  <1>10. QED BY <1>2, <1>4, <1>6, <1>7, <1>9 DEF CallGood

\* init: the session goes on as it was opened.
LEMMA InitialisedGood ==
  ASSUME NEW x, CallGood(x), Unserved(x), x.eng.ready, AtNode(x.st), conf \in Configs,
         NEW in \in Input, NEW r \in IF First = {} THEN {Missing} ELSE First,
         NEW y, y = Initialised(x, in, r)
  PROVE  /\ CallGood(y) /\ y.store = x.store
         /\ x.eng.initd => y = x
         /\ Returned(y) => ~y.eng.initd
         /\ ~Returned(y) => Unserved(y) /\ y.eng.initd
         /\ ~Returned(y) => ViewOf(y) = ViewOf(x)
  <1>1. CASE x.eng.initd
    BY <1>1 DEF Initialised, Unserved, Returned
  <1>2. CASE ~x.eng.initd
    <2> DEFINE w == WithInput(x, in)
               f == RunFirst(w, r)
               code == IF f.st.code = <<>> THEN <<MOVE(Root)>> ELSE f.st.code
               g == AtRoot(f)
               t == [g.st EXCEPT !.input = x.st.input]
               e == [g.eng EXCEPT !.initd = TRUE]
               z == [g EXCEPT !.st = t, !.eng = e]
    <2>1. /\ CallGood(w) /\ w.eng = x.eng /\ w.store = x.store /\ w.reply = x.reply
          /\ w.ca = x.ca /\ w.st.path = x.st.path
          /\ w.st.code = x.st.code /\ w.st.flags = x.st.flags
      <3>1. in \in Input \cup {NoInput}
        OBVIOUS
      <3>2. QED BY <3>1, InputGood
    <2> HIDE DEF w
    <2>2. ForFirst(w)
      BY <1>2, <2>1 DEF ForFirst, Unserved
    <2>3. SameSession(w, f)
      BY <2>2, RunFirstGood
    <2> HIDE DEF f
    <2>4. y = IF Returned(f) THEN f
              ELSE [AtRoot(f) EXCEPT !.eng.initd = TRUE, !.st.input = x.st.input]
      BY <1>2 DEF Initialised, f, w, WithInput
    <2>5. CASE Returned(f)
      BY <1>2, <2>1, <2>3, <2>4, <2>5 DEF SameSession
    <2>6. CASE ~Returned(f)
      <3>1. /\ DOMAIN f = Fields /\ CallShape(f) /\ Session(f.st, f.ca, f.home) /\ Rules(f)
            /\ f.st \in StateType /\ NotBoth(f.st) /\ f.eng \in EngineType
            /\ f.reply = "on" /\ f.eng = x.eng /\ f.store = x.store /\ Unserved(f)
            /\ f.st.path = x.st.path /\ f.ca.frames = x.ca.frames /\ f.st.code = x.st.code
            /\ "TERMINATE" \in f.st.flags <=> "TERMINATE" \in x.st.flags
        BY <2>1, <2>3, <2>6 DEF SameSession, CallGood, CallShape, Session, Fields, Returned
      <3>2. /\ DOMAIN g = Fields /\ g.st = [f.st EXCEPT !.code = code]
            /\ g.ca = f.ca /\ g.home = f.home /\ g.pg = f.pg /\ g.mn = f.mn /\ g.eng = f.eng
            /\ g.store = f.store /\ g.reply = f.reply /\ g.out = f.out
        <4>1. CASE f.st.code = <<>>
          BY <3>1, <4>1 DEF AtRoot, Fields
        <4>2. CASE f.st.code # <<>>
          <5>1. [f.st EXCEPT !.code = f.st.code] = f.st
            BY <3>1 DEF StateType
          <5>2. QED BY <3>1, <4>2, <5>1 DEF AtRoot
        <4>3. QED BY <4>1, <4>2
      <3> HIDE DEF g, code
      <3>3. y = z
        <4>1. y = [g EXCEPT !.eng.initd = TRUE, !.st.input = x.st.input]
          BY <2>4, <2>6 DEF g
        <4>2. QED BY <3>2, <4>1 DEF Fields
      <3>4. <<MOVE(Root)>> \in Seq(Instruction) /\ <<MOVE(Root)>> # <<>>
        <4>1. MOVE(Root) \in Instruction
          BY VmAssumption DEF MOVE, Instruction, Target
        <4>2. QED BY <4>1
      <3>5. /\ t \in StateType /\ t.path = f.st.path /\ t.code = code /\ t.flags = f.st.flags
        <4>1. code \in Seq(Instruction) /\ x.st.input \in Input \cup {NoInput}
          BY <3>1, <3>4 DEF StateType, CallGood, Session, code
        <4>2. QED BY <3>1, <3>2, <4>1 DEF StateType
      <3>6. code # <<>> /\ (code = f.st.code \/ code = <<MOVE(Root)>>)
            /\ (code = x.st.code \/ (x.st.code = <<>> /\ code = <<MOVE(Root)>>))
        BY <3>1, <3>4 DEF code
      <3> HIDE DEF t
      <3>7. NotBoth(t)
        BY <3>1, <3>5 DEF NotBoth
      <3>8. Session(t, f.ca, f.home)
        BY <3>1, <3>5, <3>6, <3>7, OtherState
      <3>9. AtNode(t)
        <4>1. Where(t) = Where(x.st)
          BY <3>1, <3>5 DEF Where
        <4>2. QED BY <3>5, <3>6, <4>1 DEF AtNode, EndsAt, Starts
      <3>10. e \in EngineType /\ e.ready = f.eng.ready /\ e.initd /\ e.execd = f.eng.execd
            /\ e.exiting = f.eng.exiting
        BY <3>1, <3>2 DEF EngineType
      <3> HIDE DEF e
      <3>11. /\ DOMAIN z = Fields /\ z.st = t /\ z.ca = f.ca /\ z.home = f.home /\ z.pg = f.pg
             /\ z.mn = f.mn /\ z.eng = e /\ z.store = f.store /\ z.reply = "on"
             /\ z.out = f.out
        BY <3>1, <3>2 DEF Fields
      <3> HIDE DEF z
      <3>12. CallShape(z)
        BY <3>1, <3>10, <3>11 DEF CallShape, Fields
      <3>13. Rules(z)
        BY <3>1, <3>9, <3>10, <3>11 DEF Rules, Unserved
      <3>14. CallGood(z) /\ Unserved(z) /\ z.eng.initd /\ z.store = x.store
        BY <3>1, <3>8, <3>10, <3>11, <3>12, <3>13 DEF CallGood, Unserved
      <3>15. ViewOf(z) = ViewOf(x)
        BY <3>1, <3>5, <3>6, <3>11, SameView DEF ViewOf
      <3>16. QED BY <1>2, <3>3, <3>14, <3>15 DEF Unserved, Returned
    <2>7. QED BY <2>5, <2>6
  <1>3. QED BY <1>1, <1>2

\* Reset(force).
LEMMA ForcedResetGood ==
  ASSUME NEW x, CallGood(x), Unserved(x), x.eng.initd, NEW in,
         NEW y, y = ForcedReset(x, in)
  PROVE  /\ CallGood(y) /\ Unserved(y) /\ y.eng.initd /\ y.store = x.store
         /\ ~ResetOnEmptyInput => y = x
  <1>1. CASE ~(ResetOnEmptyInput /\ in = EmptyInput /\ x.st.path # <<>>)
    BY <1>1 DEF ForcedReset
  <1>2. CASE ResetOnEmptyInput /\ in = EmptyInput /\ x.st.path # <<>>
    <2> DEFINE t == [x.st EXCEPT !.code = <<MOVE(Root)>>]
               z == [x EXCEPT !.st = t]
    <2>1. /\ DOMAIN x = Fields /\ CallShape(x) /\ Session(x.st, x.ca, x.home) /\ Rules(x)
          /\ x.st \in StateType /\ NotBoth(x.st) /\ x.reply = "on"
      BY DEF CallGood, CallShape, Fields, Session, Unserved
    <2>2. t \in StateType /\ t.path = x.st.path /\ t.code = <<MOVE(Root)>>
          /\ t.flags = x.st.flags
      <3>1. MOVE(Root) \in Instruction
        BY VmAssumption DEF MOVE, Instruction, Target
      <3>2. <<MOVE(Root)>> \in Seq(Instruction)
        BY <3>1
      <3>3. QED BY <2>1, <3>2 DEF StateType
    <2>3. y = EngineReset(z)
      BY <1>2 DEF ForcedReset
    <2> HIDE DEF t
    <2>4. Session(t, x.ca, x.home)
      <3>1. NotBoth(t)
        BY <2>1, <2>2 DEF NotBoth
      <3>2. QED BY <2>1, <2>2, <3>1, OtherState
    <2>5. /\ DOMAIN z = Fields /\ z.st = t /\ z.ca = x.ca /\ z.home = x.home /\ z.pg = x.pg
          /\ z.mn = x.mn /\ z.eng = x.eng /\ z.store = x.store /\ z.reply = "on"
          /\ z.out = x.out
      BY <2>1 DEF Fields
    <2> HIDE DEF z
    <2>6. /\ DOMAIN y = Fields /\ y.home = x.home /\ y.pg = x.pg
          /\ y.mn = x.mn /\ y.eng = x.eng /\ y.store = x.store /\ y.reply = "on"
          /\ y.out = x.out /\ Session(y.st, y.ca, x.home) /\ y.st.code = <<MOVE(Root)>>
      BY <2>2, <2>3, <2>4, <2>5, ResetSession
    <2>7. CallShape(y)
      BY <2>1, <2>6 DEF CallShape, Fields
    <2>8. AtNode(y.st)
      BY <2>6 DEF AtNode, Starts
    <2>9. Rules(y)
      BY <2>1, <2>6, <2>8 DEF Rules, Unserved
    <2>10. QED BY <1>2, <2>6, <2>7, <2>8, <2>9 DEF CallGood, Unserved
  <1>3. QED BY <1>1, <1>2

\* What is checked last.
LEMMA AcceptedGood ==
  ASSUME NEW x, CallGood(x), Unserved(x), x.eng.initd, NEW in \in Input,
         NEW y, y = Accepted(x, in)
  PROVE  /\ CallGood(y) /\ y.eng = x.eng /\ y.store = x.store
         /\ y.st.flags = x.st.flags /\ ViewOf(y) = ViewOf(x)
         /\ ~Returned(y) => Unserved(y) /\ y.st.code # <<>>
         /\ y.reply # "panic"
  <1> DEFINE w == WithInput(x, in)
  <1>1. in \in Input \cup {NoInput} /\ x.eng.ready /\ "refused" \in Reply /\ "error" \in Reply
    BY DEF CallGood, Rules, Reply
  <1>2. /\ CallGood(w) /\ w.eng = x.eng /\ w.store = x.store /\ w.reply = x.reply
        /\ w.ca = x.ca /\ w.home = x.home /\ w.st.path = x.st.path
        /\ w.st.code = x.st.code /\ w.st.flags = x.st.flags
    BY <1>1, InputGood
  <1>3. ViewOf(w) = ViewOf(x)
    BY <1>2 DEF ViewOf, View
  <1> HIDE DEF w
  <1>4. y = IF in \in BadInput THEN Answer(x, "refused")
            ELSE IF x.st.code = <<>> THEN Answer(w, "error") ELSE w
    BY DEF Accepted, WithInput, w
  <1>5. CASE in \in BadInput
    <2>1. /\ CallGood(Answer(x, "refused")) /\ Answer(x, "refused").reply = "refused"
          /\ Answer(x, "refused").st = x.st /\ Answer(x, "refused").ca = x.ca
          /\ Answer(x, "refused").eng = x.eng /\ Answer(x, "refused").store = x.store
      BY <1>1, AnswerGood
    <2>2. y = Answer(x, "refused")
      BY <1>4, <1>5
    <2>3. QED BY <2>1, <2>2 DEF ViewOf, Returned
  <1>6. CASE in \notin BadInput /\ x.st.code = <<>>
    <2>1. /\ CallGood(Answer(w, "error")) /\ Answer(w, "error").reply = "error"
          /\ Answer(w, "error").st = w.st /\ Answer(w, "error").ca = w.ca
          /\ Answer(w, "error").eng = w.eng /\ Answer(w, "error").store = w.store
      BY <1>1, <1>2, AnswerGood
    <2>2. y = Answer(w, "error")
      BY <1>4, <1>6
    <2>3. ViewOf(y) = ViewOf(w)
      BY <2>1, <2>2 DEF ViewOf
    <2>4. QED BY <1>2, <1>3, <2>1, <2>2, <2>3 DEF Returned
  <1>7. CASE in \notin BadInput /\ x.st.code # <<>>
    <2>1. y = w
      BY <1>4, <1>7
    <2>2. QED BY <1>2, <1>3, <1>7, <2>1 DEF Unserved
  <1>8. QED BY <1>5, <1>6, <1>7

\* A call, up to the vm: what it may store, and what it goes on with.
LEMMA OpeningGood ==
  ASSUME CallGood(Here), conf \in Configs, NEW in \in Input, NEW how, NEW fails,
         NEW r \in IF First = {} THEN {Missing} ELSE First,
         NEW y, y = Opening(in, how, fails, r)
  PROVE  /\ CallGood(y)
         /\ ~Returned(y) => Unserved(y) /\ y.eng.initd /\ y.st.code # <<>>
         /\ y.reply = "panic" => ~y.eng.initd
         /\ y.store # store =>
              /\ ~eng.initd
              /\ store = NoSession \/ "get" \in fails
              /\ ViewOf(y.store) = NewView
         /\ eng.initd => y.eng.initd
         /\ eng.initd /\ ~ResetOnEmptyInput /\ Terminated => "TERMINATE" \in y.st.flags
         /\ ~eng.initd /\ y.eng.initd /\ Persisted /\ ~ResetOnEmptyInput =>
              /\ ViewOf(y) = ViewOf(y.store)
              /\ (\A z : Image(z) # NoSession) => y.store # NoSession
  <1> DEFINE d == Discarded(Here, how)
             p == IF Returned(d) THEN d ELSE Prepared(d, fails)
             i == IF Returned(p) THEN p ELSE Initialised(p, in, r)
             f == ForcedReset(i, in)
  <1>1. Here.reply = "on" /\ Here.store = store /\ Here.eng = eng /\ Here.st = st
    BY DEF Here
  <1>2. /\ CallGood(d) /\ d.store = store /\ d.eng.initd = eng.initd
        /\ Terminated => "TERMINATE" \in d.st.flags
        /\ ~Returned(d) => Unserved(d)
        /\ d.reply # "panic"
    BY <1>1, DiscardedGood DEF FlushKeeps, Terminated
  <1>3. y = IF Returned(i) THEN i ELSE Accepted(f, in)
    BY DEF Opening
  <1> HIDE DEF d
  <1>4. /\ CallGood(p) /\ p.eng.initd = eng.initd
        /\ eng.initd => p = d
        /\ ~Returned(p) => Unserved(p) /\ p.eng.ready /\ AtNode(p.st)
        /\ p.store # store =>
             /\ ~eng.initd
             /\ store = NoSession \/ "get" \in fails
             /\ ViewOf(p.store) = NewView
        /\ ~eng.initd /\ Persisted /\ ~Returned(p) =>
             /\ ViewOf(p) = ViewOf(p.store)
             /\ (\A z : Image(z) # NoSession) => p.store # NoSession
    <2>1. CASE Returned(d)
      BY <1>2, <2>1
    <2>2. CASE ~Returned(d)
      <3> DEFINE q == Prepared(d, fails)
      <3>1. /\ CallGood(q)
            /\ d.eng.initd => q = d
            /\ q.eng.initd = d.eng.initd
            /\ ~Returned(q) => Unserved(q) /\ q.eng.ready /\ AtNode(q.st)
            /\ q.store # d.store =>
                 /\ ~d.eng.initd
                 /\ d.store = NoSession \/ "get" \in fails
                 /\ ViewOf(q.store) = NewView
            /\ ~d.eng.initd /\ Persisted /\ ~Returned(q) =>
                 /\ ViewOf(q) = ViewOf(q.store)
                 /\ (\A z : Image(z) # NoSession) => q.store # NoSession
        BY <1>2, <2>2, PreparedGood
      <3>2. p = q
        BY <2>2
      <3> HIDE DEF q, p
      <3>3. QED BY <1>2, <3>1, <3>2
    <2>3. QED BY <2>1, <2>2
  <1> HIDE DEF p
  <1>5. /\ CallGood(i) /\ i.store = p.store
        /\ eng.initd => i = p
        /\ Returned(i) => i.eng.initd = eng.initd
        /\ ~Returned(i) => Unserved(i) /\ i.eng.initd /\ ViewOf(i) = ViewOf(p)
                           /\ ~Returned(p)
    <2>1. CASE Returned(p)
      BY <1>4, <2>1
    <2>2. CASE ~Returned(p)
      <3> DEFINE q == Initialised(p, in, r)
      <3>1. /\ CallGood(q) /\ q.store = p.store
            /\ p.eng.initd => q = p
            /\ Returned(q) => ~q.eng.initd
            /\ ~Returned(q) => Unserved(q) /\ q.eng.initd
            /\ ~Returned(q) => ViewOf(q) = ViewOf(p)
        BY <1>4, <2>2, InitialisedGood
      <3>2. i = q
        BY <2>2
      <3>3. p.eng.initd \in BOOLEAN /\ eng.initd \in BOOLEAN /\ q.eng.initd \in BOOLEAN
        BY <1>1, <1>4, <3>1 DEF CallGood, CallShape, EngineType
      <3> HIDE DEF q, i
      <3>4. QED BY <1>4, <2>2, <3>1, <3>2, <3>3
    <2>3. QED BY <2>1, <2>2
  <1> HIDE DEF i
  <1>6. CASE Returned(i)
    <2>1. y = i
      BY <1>3, <1>6
    <2>2. QED BY <1>2, <1>4, <1>5, <1>6, <2>1
  <1>7. CASE ~Returned(i)
    <2> DEFINE q == Accepted(f, in)
    <2>1. /\ CallGood(f) /\ Unserved(f) /\ f.eng.initd /\ f.store = i.store
          /\ ~ResetOnEmptyInput => f = i
      BY <1>5, <1>7, ForcedResetGood
    <2> HIDE DEF f
    <2>2. /\ CallGood(q) /\ q.eng = f.eng /\ q.store = f.store
          /\ q.st.flags = f.st.flags /\ ViewOf(q) = ViewOf(f)
          /\ ~Returned(q) => Unserved(q) /\ q.st.code # <<>>
          /\ q.reply # "panic"
      BY <2>1, AcceptedGood
    <2>3. y = q
      BY <1>3, <1>7
    <2> HIDE DEF q
    <2>4. QED BY <1>2, <1>4, <1>5, <1>7, <2>1, <2>2, <2>3
  <1>8. QED BY <1>6, <1>7

-----------------------------------------------------------------------------
(* The steps.                                                              *)

\* The invariant: the vm's, of the state and cache the engine has, and a call that goes
\* well with them and with what is stored. Runs only happen in an engine that has its
\* session, with nothing of an earlier answer left.
EIInv ==
  /\ IInv /\ (NoCroak => Deep) /\ RunBelongs
  /\ CallGood(Now) /\ conf \in Configs
  /\ run.pc = "on" => run.err = "ok"
  /\ run.pc \in {"on", "ret"} => eng.initd /\ ~eng.execd /\ ~eng.exiting
  /\ run.pc = "ret" /\ "WAIT" \in st.flags => "DIRTY" \in st.flags

\* A call sees what there is.
LEMMA HereGood ==
  ASSUME CallGood(Now)
  PROVE  CallGood(Here)
  <1>1. /\ DOMAIN Here = Fields /\ DOMAIN Now = Fields
        /\ Here.st = Now.st /\ Here.ca = Now.ca /\ Here.home = Now.home /\ Here.pg = Now.pg
        /\ Here.mn = Now.mn /\ Here.eng = Now.eng /\ Here.store = Now.store
        /\ Here.reply = "on" /\ Here.out = Now.out
    BY DEF Here, Now, Fields
  <1>2. CallShape(Here)
    BY <1>1 DEF CallGood, CallShape, Fields, Reply
  <1>3. Rules(Here)
    BY <1>1 DEF CallGood, Rules
  <1>4. QED BY <1>1, <1>2, <1>3 DEF CallGood

\* What a call leaves behind when it is over or goes on.
LEMMA LeavesGood ==
  ASSUME NEW x, CallGood(x), conf \in Configs, hits' \in Nat,
         NEW q, q.pc \in {"off", "on", "panic"},
         q = [pc |-> q.pc, b |-> q.b, err |-> "ok"],
         q.b \in Seq(Instruction), NoCroak => q.b \in Seq(Uncroaked),
         q.pc = "on" => /\ x.st.code = <<>> /\ x.eng.initd /\ ~x.eng.execd /\ ~x.eng.exiting
                        /\ q.b \in Starts \/ EndsAt(q.b, x.st),
         Leaves(x, q)
  PROVE  EIInv'
  <1> DEFINE g == [k \in Cached(x.ca) |-> IF k \in DOMAIN x.home THEN x.home[k]
                                         ELSE Append(x.st.path, FirstSym)]
  <1>1. /\ st' = x.st /\ ca' = x.ca /\ pg' = x.pg /\ mn' = x.mn /\ home' = g
        /\ eng' = x.eng /\ store' = x.store /\ reply' = x.reply /\ out' = x.out
        /\ run' = q /\ conf' = conf
    BY DEF Leaves
  <1>2. /\ CallShape(x) /\ Session(x.st, x.ca, x.home) /\ Rules(x)
        /\ x.st \in StateType /\ NotBoth(x.st) /\ CacheShape(x.ca)
        /\ Cached(x.ca) \subseteq DOMAIN x.home /\ \A k \in DOMAIN x.home : x.home[k] \in Seq(Node)
        /\ Scoped(x.st.path, x.ca.frames, x.home)
        /\ NoCroak => Len(x.ca.frames) = Len(x.st.path) + 1 /\ x.st.code \in Seq(Uncroaked)
    BY DEF CallGood, Session
  <1>3. g \in [Cached(x.ca) -> Seq(Node)] /\ DOMAIN g = Cached(x.ca)
    BY <1>2
  <1>4. Scoped(x.st.path, x.ca.frames, g)
    <2>1. \A i \in DOMAIN x.ca.frames : \A k \in DOMAIN x.ca.frames[i] : g[k] = x.home[k]
      BY <1>2, CachedIsKey
    <2> HIDE DEF g
    <2>2. Scoped(x.st.path, x.ca.frames, x.home)
      BY <1>2
    <2>3. ASSUME NEW i \in DOMAIN x.ca.frames, NEW k \in DOMAIN x.ca.frames[i]
          PROVE  /\ Len(x.st.path) - Len(g[k]) >= Len(x.ca.frames) - i
                 /\ \A j \in 1 .. Len(g[k]) : g[k][j] = x.st.path[j]
      <3>1. g[k] = x.home[k]
        BY <2>1
      <3>2. /\ Len(x.st.path) - Len(x.home[k]) >= Len(x.ca.frames) - i
            /\ \A j \in 1 .. Len(x.home[k]) : x.home[k][j] = x.st.path[j]
        BY <2>2 DEF Scoped
      <3>3. QED BY ONLY <3>1, <3>2
    <2>4. QED BY ONLY <2>3 DEF Scoped
  <1> HIDE DEF g
  <1>5. Session(x.st, x.ca, g)
    BY <1>2, <1>3, <1>4 DEF Session
  <1>6. q.err = "ok" /\ q \in [pc : {"off", "on", "ret", "panic"}, b : Seq(Instruction), err : Outcome]
    <2>1. "ok" \in Outcome /\ q.pc \in {"off", "on", "ret", "panic"}
      BY DEF Outcome
    <2>2. QED BY <2>1
  <1>7. IInv'
    <2>1. TypeOK'
      BY <1>1, <1>2, <1>6 DEF TypeOK, CallShape, CacheShape
    <2>2. Flow'
      BY <1>1, <1>2 DEF Flow, Terminated, NotBoth
    <2>3. YieldReason' /\ LoadFailCaught'
      BY <1>1, <1>6 DEF YieldReason, LoadFailCaught
    <2>4. (/\ CacheShape(ca) /\ home \in [Cached(ca) -> Seq(Node)]
           /\ Scoped(st.path, ca.frames, home))'
      BY <1>1, <1>2, <1>3, <1>4
    <2>5. QED BY <2>1, <2>2, <2>3, <2>4 DEF IInv
  <1>8. NoCroak => Deep'
    BY <1>1, <1>2, <1>6 DEF Deep, Levels
  <1>9. RunBelongs'
    BY <1>1 DEF RunBelongs
  <1>10. CallGood(Now)'
    <2>1. /\ DOMAIN Now' = Fields
          /\ Now'.st = x.st /\ Now'.ca = x.ca /\ Now'.home = g /\ Now'.pg = x.pg
          /\ Now'.mn = x.mn /\ Now'.eng = x.eng /\ Now'.store = x.store
          /\ Now'.reply = x.reply /\ Now'.out = x.out
      BY <1>1 DEF Now, Here, Fields
    <2>2. CallShape(Now')
      BY <1>2, <2>1 DEF CallShape, Fields
    <2>3. Session(Now'.st, Now'.ca, Now'.home)
      BY <1>5, <2>1
    <2>4. ~x.eng.ready => g = NoHome
      <3>1. ASSUME ~x.eng.ready PROVE x.ca = NewCache
        BY <1>2, <3>1 DEF Rules
      <3>2. NoHome = [k \in {} |-> <<>>]
        BY DEF NoHome
      <3>3. ASSUME ~x.eng.ready PROVE Cached(x.ca) = {}
        BY <3>1, <3>3, NewSession
      <3>4. QED BY <3>2, <3>3 DEF g
    <2>5. Rules(Now)'
      BY <1>1, <1>2, <2>1, <2>4 DEF Rules, Persisted
    <2>6. QED BY <2>2, <2>3, <2>5 DEF CallGood
  <1>11. QED BY <1>1, <1>6, <1>7, <1>8, <1>9, <1>10 DEF EIInv

\* What of a session the engine works on decides how it goes on.
Work == View(st, ca, IF run = Idle THEN st.code ELSE run.b)

\* A call of Exec: an input is taken, or refused.
LEMMA EngineExecStep ==
  ASSUME EIInv, NEW in \in Input, EngineExec(in)
  PROVE  /\ EIInv'
         /\ store' # store =>
              /\ ~eng.initd
              /\ store = NoSession \/ "get" \in DbFails
              /\ ViewOf(store') = NewView
         /\ eng.initd => eng'.initd
         /\ eng.initd /\ ~ResetOnEmptyInput /\ Terminated => Terminated'
         /\ ~eng.initd /\ eng'.initd /\ Persisted /\ ~ResetOnEmptyInput =>
              /\ Work' = ViewOf(store')
              /\ (\A z : Image(z) # NoSession) => store' # NoSession
  <1>1. /\ CallGood(Here) /\ conf \in Configs /\ hits' \in Nat /\ run = Idle
    BY HereGood DEF EIInv, EngineExec
  <1>2. PICK how \in Rendering, fails \in SUBSET DbFails,
             r \in IF First = {} THEN {Missing} ELSE First :
               LET x == Opening(in, how, fails, r) IN
               Leaves(IF Returned(x) THEN x ELSE TakenCode(x), Continues(x))
    BY DEF EngineExec
  <1> DEFINE x == Opening(in, how, fails, r)
             t == [x.st EXCEPT !.code = <<>>]
             y == IF Returned(x) THEN x ELSE TakenCode(x)
             q == Continues(x)
  <1>3. /\ CallGood(x)
        /\ ~Returned(x) => Unserved(x) /\ x.eng.initd /\ x.st.code # <<>>
        /\ x.reply = "panic" => ~x.eng.initd
        /\ x.store # store =>
             /\ ~eng.initd
             /\ store = NoSession \/ "get" \in fails
             /\ ViewOf(x.store) = NewView
        /\ eng.initd => x.eng.initd
        /\ eng.initd /\ ~ResetOnEmptyInput /\ Terminated => "TERMINATE" \in x.st.flags
        /\ ~eng.initd /\ x.eng.initd /\ Persisted /\ ~ResetOnEmptyInput =>
             /\ ViewOf(x) = ViewOf(x.store)
             /\ (\A z : Image(z) # NoSession) => x.store # NoSession
    BY <1>1, OpeningGood
  <1>4. Leaves(y, q)
    BY <1>2
  <1>5. /\ DOMAIN x = Fields /\ CallShape(x) /\ Session(x.st, x.ca, x.home) /\ Rules(x)
        /\ x.st \in StateType /\ NotBoth(x.st)
        /\ NoCroak => x.st.code \in Seq(Uncroaked)
        /\ x.eng.initd => AtNode(x.st)
    <2> HIDE DEF x
    <2>1. QED BY <1>3 DEF CallGood, CallShape, Fields, Session, Rules
  <1>6. TakenCode(x) = [x EXCEPT !.st = t]
    BY DEF TakenCode
  <1> HIDE DEF x
  <1>7. /\ t \in StateType /\ t.path = x.st.path /\ t.code = <<>> /\ t.flags = x.st.flags
    <2>1. <<>> \in Seq(Instruction)
      OBVIOUS
    <2>2. QED BY <1>5, <2>1 DEF StateType
  <1> HIDE DEF t
  <1>8. /\ CallGood(y) /\ y.store = x.store /\ y.eng = x.eng /\ y.ca = x.ca
        /\ y.st.path = x.st.path /\ y.st.flags = x.st.flags
        /\ IF Returned(x) THEN y.st = x.st ELSE y.st = t
    <2>1. CASE Returned(x)
      BY <1>3, <2>1
    <2>2. CASE ~Returned(x)
      <3>1. /\ DOMAIN y = Fields /\ y.st = t /\ y.ca = x.ca /\ y.home = x.home /\ y.pg = x.pg
            /\ y.mn = x.mn /\ y.eng = x.eng /\ y.store = x.store /\ y.reply = x.reply
            /\ y.out = x.out
        BY <1>5, <1>6, <2>2 DEF Fields
      <3> HIDE DEF y
      <3>2. NotBoth(t)
        BY <1>5, <1>7 DEF NotBoth
      <3>3. Session(t, x.ca, x.home)
        BY <1>5, <1>7, <3>2, OtherState
      <3>4. CallShape(y)
        BY <1>5, <3>1 DEF CallShape, Fields
      <3>5. AtNode(t)
        BY <1>7 DEF AtNode, Starts
      <3>6. Rules(y)
        BY <1>3, <1>5, <1>7, <2>2, <3>1, <3>5 DEF Rules, Unserved
      <3>7. QED BY <1>7, <2>2, <3>1, <3>3, <3>4, <3>6 DEF CallGood
    <2>3. QED BY <2>1, <2>2
  <1>9. q = IF ~Returned(x) THEN [pc |-> "on", b |-> x.st.code, err |-> "ok"]
            ELSE IF x.reply = "panic" THEN [pc |-> "panic", b |-> <<>>, err |-> "ok"]
            ELSE [pc |-> "off", b |-> <<>>, err |-> "ok"]
    BY DEF Continues, Idle, Returned
  <1> HIDE DEF y, q
  <1>10. /\ st' = y.st /\ ca' = y.ca /\ eng' = y.eng /\ store' = y.store /\ run' = q
    BY <1>4 DEF Leaves
  <1>11. EIInv'
    <2>1. CASE Returned(x)
      <3>1. /\ q.pc \in {"off", "on", "panic"} /\ q = [pc |-> q.pc, b |-> q.b, err |-> "ok"]
            /\ q.b \in Seq(Instruction) /\ (NoCroak => q.b \in Seq(Uncroaked)) /\ q.pc # "on"
        BY <1>9, <2>1, UncroakedCode
      <3>2. QED BY <1>1, <1>4, <1>8, <3>1, LeavesGood
    <2>2. CASE ~Returned(x)
      <3>1. /\ q.pc = "on" /\ q = [pc |-> q.pc, b |-> q.b, err |-> "ok"]
            /\ q.b \in Seq(Instruction) /\ (NoCroak => q.b \in Seq(Uncroaked))
            /\ q.b = x.st.code
        BY <1>5, <1>9, <2>2 DEF StateType
      <3>2. y.st.code = <<>> /\ y.eng.initd /\ ~y.eng.execd /\ ~y.eng.exiting
        BY <1>3, <1>7, <1>8, <2>2 DEF Unserved
      <3>3. q.b \in Starts \/ EndsAt(q.b, y.st)
        <4>1. AtNode(x.st) /\ Where(y.st) = Where(x.st)
          BY <1>3, <1>5, <1>8, <2>2 DEF Where
        <4>2. QED BY <3>1, <4>1 DEF AtNode, EndsAt
      <3>4. q.pc \in {"off", "on", "panic"}
        BY <3>1
      <3>5. QED BY <1>1, <1>4, <1>8, <3>1, <3>2, <3>3, <3>4, LeavesGood
    <2>3. QED BY <2>1, <2>2
  <1>12. eng'.initd /\ ~eng.initd => Work' = ViewOf(x)
    <2>1. SUFFICES ASSUME eng'.initd, ~eng.initd PROVE Work' = ViewOf(x)
      OBVIOUS
    <2>2. x.reply # "panic"
      BY <1>3, <1>8, <1>10, <2>1
    <2>3. (IF run' = Idle THEN st'.code ELSE run'.b) = x.st.code
      <3>1. CASE Returned(x)
        BY <1>8, <1>9, <1>10, <2>2, <3>1 DEF Idle
      <3>2. CASE ~Returned(x)
        BY <1>9, <1>10, <3>2 DEF Idle
      <3>3. QED BY <3>1, <3>2
    <2>4. Work' = View(st', ca', x.st.code)
      BY <2>3 DEF Work, Idle, View
    <2>5. QED BY <1>8, <1>10, <2>4, SameView DEF ViewOf
  <1>13. "TERMINATE" \in x.st.flags => Terminated'
    BY <1>8, <1>10 DEF Terminated
  <1>14. QED BY <1>3, <1>8, <1>10, <1>11, <1>12, <1>13

\* What a call leaves behind when it is over.
LEMMA LeavesIdle ==
  ASSUME NEW x, CallGood(x), conf \in Configs, hits' \in Nat, Leaves(x, Idle)
  PROVE  EIInv'
  <1> DEFINE q == Idle
  <1>1. /\ q.pc = "off" /\ q.b = <<>> /\ q = [pc |-> q.pc, b |-> q.b, err |-> "ok"]
        /\ q.b \in Seq(Instruction) /\ q.b \in Seq(Uncroaked)
    BY UncroakedCode DEF Idle
  <1>2. Leaves(x, q)
    OBVIOUS
  <1> HIDE DEF q
  <1>3. /\ q.pc \in {"off", "on", "panic"} /\ q = [pc |-> q.pc, b |-> q.b, err |-> "ok"]
        /\ q.b \in Seq(Instruction) /\ (NoCroak => q.b \in Seq(Uncroaked)) /\ q.pc # "on"
    BY <1>1
  <1>4. CallGood(x) /\ conf \in Configs /\ hits' \in Nat
    OBVIOUS
  <1>5. QED BY ONLY <1>2, <1>3, <1>4, LeavesGood

\* After the run, the code is kept and what became of the session is answered.
LEMMA ReturnStep ==
  ASSUME EIInv, EngineReturn
  PROVE  EIInv' /\ store' = store /\ eng'.initd /\ (Terminated => Terminated')
  <1>1. /\ CallGood(Here) /\ conf \in Configs /\ hits' \in Nat /\ run.pc = "ret"
        /\ eng.initd /\ ~eng.execd /\ ~eng.exiting
        /\ Leaves(Concluded(Here), Idle)
        /\ st.code = <<>> /\ run.b \in Seq(Instruction) /\ CacheShape(ca)
    BY HereGood DEF EIInv, EngineReturn, IInv, TypeOK, Flow
  <1>2. /\ run.err = "ok" /\ ~Terminated => "DIRTY" \in st.flags
        /\ run.err = "ok" => run.b \in Starts \/ EndsAt(run.b, st)
        /\ NoCroak /\ run.err = "ok" => run.b \in Seq(Uncroaked)
    BY <1>1 DEF EIInv, IInv, YieldReason, RunBelongs, Deep
  <1> DEFINE x == Concluded(Here)
             e == [eng EXCEPT !.execd = TRUE]
             y == [Here EXCEPT !.eng = e]
             t == [st EXCEPT !.code = run.b]
             z == [y EXCEPT !.st = t]
             d == [e EXCEPT !.exiting = TRUE, !.exit = ca.last]
             c == ForgetLast(ca)
             w == [y EXCEPT !.eng = d, !.ca = c]
  <1>3. /\ DOMAIN Here = Fields /\ Here.st = st /\ Here.ca = ca /\ Here.home = home
        /\ Here.pg = pg /\ Here.mn = mn /\ Here.eng = eng /\ Here.store = store
        /\ Here.reply = "on" /\ Here.out = out
    BY DEF Here, Fields
  <1>4. /\ CallShape(Here) /\ Session(st, ca, home) /\ Rules(Here)
        /\ st \in StateType /\ NotBoth(st) /\ eng \in EngineType /\ ca.last \in Value
        /\ Stored(store) /\ pg \in Page /\ mn \in Menu /\ out \in Output
        /\ eng.ready /\ (~Persisted => store = NoSession)
    BY <1>1, <1>3 DEF CallGood, CallShape, Session, Rules, CacheShape
  <1>5. /\ e \in EngineType /\ e.ready = eng.ready /\ e.initd /\ e.execd /\ ~e.exiting
        /\ d \in EngineType /\ d.ready = eng.ready /\ d.initd /\ d.execd /\ d.exiting
    BY <1>1, <1>4 DEF EngineType
  <1>6. /\ t \in StateType /\ t.path = st.path /\ t.flags = st.flags /\ t.code = run.b
    BY <1>1, <1>4 DEF StateType
  <1>7. /\ DOMAIN y = Fields /\ y.st = st /\ y.ca = ca /\ y.home = home /\ y.pg = pg
        /\ y.mn = mn /\ y.eng = e /\ y.store = store /\ y.reply = "on" /\ y.out = out
    BY <1>3 DEF Fields
  <1>8. x = IF run.err # "ok" THEN Answer(Here, "error")
            ELSE IF Terminated THEN Answer(y, "over")
            ELSE IF run.b # <<>> THEN Answer(z, "more")
            ELSE IF "DIRTY" \in st.flags THEN Answer(w, "over")
            ELSE Answer(y, "over")
    <2>1. [Here EXCEPT !.eng.execd = TRUE] = y
      BY <1>3
    <2>2. [y EXCEPT !.st.code = run.b] = z
      BY <1>7
    <2>3. [y EXCEPT !.eng.exiting = TRUE, !.eng.exit = ca.last, !.ca = ForgetLast(@)] = w
      <3> HIDE DEF e
      <3>1. y.ca = ca /\ y.eng = e /\ DOMAIN y = Fields
        BY <1>7
      <3> HIDE DEF y
      <3>2. QED BY <3>1 DEF Fields
    <2> HIDE DEF y, z, w
    <2>4. x = IF run.err # "ok" THEN Answer(Here, "error")
              ELSE LET v == [Here EXCEPT !.eng.execd = TRUE] IN
                   IF Terminated THEN Answer(v, "over")
                   ELSE IF run.b # <<>> THEN Answer([v EXCEPT !.st.code = run.b], "more")
                   ELSE IF "DIRTY" \in st.flags
                        THEN Answer([v EXCEPT !.eng.exiting = TRUE, !.eng.exit = ca.last,
                                              !.ca = ForgetLast(@)], "over")
                   ELSE Answer(v, "over")
      BY DEF Concluded
    <2>5. QED BY <2>1, <2>2, <2>3, <2>4
  <1> HIDE DEF e, d, t, y, x
  <1>9. /\ DOMAIN z = Fields /\ z.st = t /\ z.ca = ca /\ z.home = home /\ z.pg = pg
        /\ z.mn = mn /\ z.eng = e /\ z.store = store /\ z.reply = "on" /\ z.out = out
        /\ DOMAIN w = Fields /\ w.st = st /\ w.ca = c /\ w.home = home /\ w.pg = pg
        /\ w.mn = mn /\ w.eng = d /\ w.store = store /\ w.reply = "on" /\ w.out = out
    BY <1>7 DEF Fields
  <1> HIDE DEF z, w, c
  <1>10. "error" \in Reply /\ "over" \in Reply /\ "more" \in Reply /\ "on" \in Reply
    BY DEF Reply
  <1>11. /\ CallGood(x) /\ x.store = store /\ x.eng.initd
         /\ x.st.flags = st.flags
    <2>1. CASE run.err # "ok"
      <3>1. x = Answer(Here, "error")
        BY <1>8, <2>1
      <3>2. CallGood(Here)
        BY <1>1, <1>3
      <3>3. /\ CallGood(x) /\ x.store = Here.store /\ x.eng = Here.eng /\ x.st = Here.st
        BY ONLY <1>10, <3>1, <3>2, AnswerGood
      <3>4. QED BY <1>1, <1>3, <3>3
    <2>2. CASE run.err = "ok" /\ Terminated
      <3>1. CallShape(y)
        BY <1>4, <1>5, <1>7, <1>10 DEF CallShape, Fields
      <3>2. AtNode(st)
        BY <1>1 DEF AtNode, Starts
      <3>3. Rules(y)
        BY <1>4, <1>5, <1>7, <2>2, <3>2 DEF Rules, Terminated
      <3>4. CallGood(y)
        BY <1>4, <1>7, <3>1, <3>3 DEF CallGood
      <3>5. x = Answer(y, "over")
        BY <1>8, <2>2
      <3>6. /\ CallGood(x) /\ x.store = y.store /\ x.eng = y.eng /\ x.st = y.st
        BY <1>10, <3>4, <3>5, AnswerGood
      <3>7. QED BY <1>5, <1>7, <3>6
    <2>3. CASE run.err = "ok" /\ ~Terminated /\ run.b # <<>>
      <3>1. CallShape(z)
        BY <1>4, <1>5, <1>9, <1>10 DEF CallShape, Fields
      <3>2. AtNode(t)
        <4>1. Where(t) = Where(st)
          BY <1>6 DEF Where
        <4>2. QED BY <1>2, <1>6, <2>3, <4>1 DEF AtNode, EndsAt
      <3>3. Rules(z)
        BY <1>4, <1>5, <1>6, <1>9, <2>3, <3>2 DEF Rules
      <3>4. Session(t, ca, home)
        BY <1>2, <1>4, <1>6, <2>3 DEF Session, NotBoth
      <3>5. CallGood(z)
        BY <1>9, <3>1, <3>3, <3>4 DEF CallGood
      <3>6. x = Answer(z, "more")
        BY <1>8, <2>3
      <3>7. /\ CallGood(x) /\ x.store = z.store /\ x.eng = z.eng /\ x.st = z.st
        BY <1>10, <3>5, <3>6, AnswerGood
      <3>8. QED BY <1>5, <1>6, <1>9, <3>7
    <2>4. CASE run.err = "ok" /\ ~Terminated /\ run.b = <<>>
      <3>1. CallShape(w)
        BY <1>4, <1>5, <1>9, <1>10 DEF CallShape, Fields
      <3>2. AtNode(st)
        BY <1>1 DEF AtNode, Starts
      <3>3. Rules(w)
        BY <1>1, <1>4, <1>5, <1>9, <2>4, <3>2 DEF Rules, Terminated
      <3>4. Session(st, c, home)
        BY <1>4, ForgetsLast DEF c
      <3>5. CallGood(w)
        BY <1>9, <3>1, <3>3, <3>4 DEF CallGood
      <3>6. x = Answer(w, "over")
        BY <1>2, <1>8, <2>4
      <3>7. /\ CallGood(x) /\ x.store = w.store /\ x.eng = w.eng /\ x.st = w.st
        BY <1>10, <3>5, <3>6, AnswerGood
      <3>8. QED BY <1>5, <1>9, <3>7
    <2>5. QED BY <2>1, <2>2, <2>3, <2>4
  <1>12. Leaves(x, Idle)
    BY <1>1 DEF x
  <1>13. EIInv'
    BY <1>1, <1>11, <1>12, LeavesIdle
  <1>14. QED BY <1>11, <1>12, <1>13 DEF Leaves, Terminated

\* Flush.
LEMMA FlushStep ==
  ASSUME EIInv, Flush
  PROVE  EIInv' /\ store' = store /\ eng'.initd = eng.initd /\ (Terminated => Terminated')
  <1>1. /\ CallGood(Here) /\ conf \in Configs /\ hits' \in Nat /\ run = Idle
        /\ reply \in Reply /\ Here.reply = "on" /\ Here.store = store /\ Here.eng = eng
        /\ Here.st = st
    <2>1. Now.reply = reply
      BY DEF Now, Here
    <2>2. QED BY <2>1, HereGood DEF EIInv, Flush, IInv, TypeOK, CallGood, CallShape, Here
  <1>2. PICK how \in Rendering : Leaves([Flushed(Here, how) EXCEPT !.reply = reply], Idle)
    BY DEF Flush
  <1> DEFINE f == Flushed(Here, how)
             y == Answer(f, reply)
  <1>3. CallGood(f) /\ FlushKeeps(Here, f)
    BY <1>1, FlushedGood
  <1>4. Leaves(y, Idle)
    BY <1>2 DEF Answer
  <1> HIDE DEF f
  <1>5. CallGood(y) /\ y.st = f.st /\ y.eng = f.eng /\ y.store = f.store
    BY <1>1, <1>3, AnswerGood
  <1> HIDE DEF y
  <1>6. EIInv'
    BY <1>1, <1>4, <1>5, LeavesIdle
  <1>7. QED BY <1>1, <1>3, <1>4, <1>5, <1>6 DEF Leaves, FlushKeeps, Terminated

\* The session that is stored goes on as the one in the engine does.
LEMMA ImageGood ==
  ASSUME NEW x, Session(x.st, x.ca, x.home), AtNode(x.st), DOMAIN x.home = Cached(x.ca)
  PROVE  Stored(Image(x)) /\ ViewOf(Image(x)) = ViewOf(x)
  <1> DEFINE t == [x.st EXCEPT !.input = NoInput]
             y == Image(x)
  <1>1. x.st \in StateType /\ NotBoth(x.st)
    BY DEF Session
  <1>2. /\ t \in StateType /\ t.path = x.st.path /\ t.code = x.st.code
        /\ t.flags = x.st.flags
    BY <1>1 DEF StateType
  <1>3. y.st = t /\ y.ca = x.ca /\ y.home = x.home
    BY DEF Image
  <1> HIDE DEF t, y
  <1>4. NotBoth(t) /\ AtNode(t)
    <2>1. Where(t) = Where(x.st)
      BY <1>2 DEF Where
    <2>2. QED BY <1>1, <1>2, <2>1 DEF NotBoth, AtNode, EndsAt
  <1>5. Session(t, x.ca, x.home)
    BY <1>2, <1>4, OtherState
  <1>6. Stored(y)
    BY <1>3, <1>4, <1>5 DEF Stored
  <1>7. ViewOf(y) = ViewOf(x)
    BY <1>2, <1>3 DEF ViewOf, View
  <1>8. QED BY <1>6, <1>7 DEF y

\* The fields of the engine between calls.
LEMMA NowFields ==
  /\ DOMAIN Now = Fields /\ Now.st = st /\ Now.ca = ca /\ Now.home = home
  /\ Now.pg = pg /\ Now.mn = mn /\ Now.eng = eng /\ Now.store = store
  /\ Now.reply = reply /\ Now.out = out
  BY DEF Now, Here, Fields

\* And after a step.
LEMMA NowAfter ==
  /\ DOMAIN Now' = Fields /\ Now'.st = st' /\ Now'.ca = ca' /\ Now'.home = home'
  /\ Now'.pg = pg' /\ Now'.mn = mn' /\ Now'.eng = eng' /\ Now'.store = store'
  /\ Now'.reply = reply' /\ Now'.out = out'
  BY DEF Now, Here, Fields

\* The invariant does not look beyond the variables of the vm and those of the engine.
LEMMA Unmoved ==
  ASSUME EIInv, UNCHANGED <<st, ca, pg, mn, run, home, hits, conf>>, CallGood(Now)',
         UNCHANGED eng
  PROVE  EIInv'
  <1>1. IInv'
    BY DEF EIInv, IInv, TypeOK, Flow, YieldReason, LoadFailCaught, Terminated
  <1>2. NoCroak => Deep'
    BY DEF EIInv, Deep
  <1>3. RunBelongs'
    BY DEF EIInv, RunBelongs
  <1>4. QED BY <1>1, <1>2, <1>3 DEF EIInv

\* Finish.
LEMMA FinishStep ==
  ASSUME EIInv, Finish
  PROVE  /\ EIInv' /\ store' = Image(Here) /\ ViewOf(store') = Work
         /\ UNCHANGED <<st, ca, run, conf, eng>>
  <1>1. /\ store' = Image(Here) /\ run = Idle /\ Persisted /\ eng.initd
        /\ UNCHANGED <<st, ca, pg, mn, run, home, hits, conf, eng, reply, out>>
    BY DEF Finish
  <1>2. /\ CallShape(Now) /\ Session(Now.st, Now.ca, Now.home) /\ Rules(Now)
        /\ DOMAIN home = Cached(ca)
    BY DEF EIInv, CallGood, IInv
  <1>3. /\ Session(st, ca, home) /\ AtNode(st) /\ eng.initd
        /\ Here.st = st /\ Here.ca = ca /\ Here.home = home
    BY <1>1, <1>2, NowFields DEF Rules, Here
  <1>4. Stored(store') /\ ViewOf(store') = ViewOf(Here)
    BY <1>1, <1>2, <1>3, ImageGood
  <1>5. CallGood(Now)'
    <2>1. CallShape(Now')
      BY <1>1, <1>2, <1>4, NowFields, NowAfter DEF CallShape, Fields
    <2>2. Session(Now'.st, Now'.ca, Now'.home)
      BY <1>1, <1>2, NowFields, NowAfter
    <2>3. Rules(Now)'
      BY <1>1, <1>2, NowFields, NowAfter DEF Rules, Persisted
    <2>4. QED BY <2>1, <2>2, <2>3 DEF CallGood
  <1>6. EIInv'
    BY <1>1, <1>5, Unmoved
  <1>7. ViewOf(Here) = Work
    BY <1>1, <1>3 DEF ViewOf, Work
  <1>8. QED BY <1>1, <1>4, <1>6, <1>7

\* An engine that did nothing yet.
Fresh(s) == [st |-> NewState, ca |-> NewCache, pg |-> NewPage, mn |-> NewMenu,
             home |-> NoHome, eng |-> NewEng, store |-> s, reply |-> "none",
             out |-> [page |-> FALSE, exit |-> Empty]]

\* Page and menu of a new vm.
LEMMA FreshGood ==
  ASSUME NEW s, Stored(s), ~Persisted => s = NoSession
  PROVE  CallGood(Fresh(s))
  <1> DEFINE x == Fresh(s)
  <1>1. /\ DOMAIN x = Fields /\ x.st = NewState /\ x.ca = NewCache /\ x.pg = NewPage
        /\ x.mn = NewMenu /\ x.home = NoHome /\ x.eng = NewEng /\ x.store = s
        /\ x.reply = "none" /\ x.out = [page |-> FALSE, exit |-> Empty]
    BY DEF Fresh, Fields
  <1>2. NewPage \in Page /\ NewMenu \in Menu
    BY NewMapIsFrame DEF NewPage, NewMenu, Page, Menu
  <1>3. NewEng \in EngineType /\ [page |-> FALSE, exit |-> Empty] \in Output
        /\ "none" \in Reply
    BY CacheAssumption DEF NewEng, EngineType, Output, Reply
  <1>4. ~NewEng.ready /\ ~NewEng.initd /\ ~NewEng.execd /\ ~NewEng.exiting
    BY DEF NewEng
  <1>5. Session(NewState, NewCache, NoHome) /\ NewState.code = <<>>
    <2>1. NotBoth(NewState)
      BY NewSession DEF NotBoth
    <2>2. QED BY <2>1, NewSession
  <1> HIDE DEF x
  <1>6. CallShape(x)
    BY <1>1, <1>2, <1>3 DEF CallShape, Fields
  <1>7. Rules(x)
    BY <1>1, <1>4, <1>5 DEF Rules
  <1>8. QED BY <1>1, <1>5, <1>6, <1>7 DEF CallGood, x

\* A new engine.
LEMMA NewEngineStep ==
  ASSUME EIInv, NewEngine
  PROVE  EIInv' /\ store' = store /\ ~eng'.initd /\ conf' = conf
  <1> DEFINE x == Fresh(store)
  <1>1. /\ st' = NewState /\ ca' = NewCache /\ pg' = NewPage /\ mn' = NewMenu
        /\ run' = Idle /\ home' = NoHome /\ hits' = 0
        /\ eng' = NewEng /\ reply' = "none" /\ out' = [page |-> FALSE, exit |-> Empty]
        /\ conf' = conf /\ store' = store
    BY DEF NewEngine
  <1>2. Stored(store) /\ (~Persisted => store = NoSession) /\ conf \in Configs
    BY NowFields DEF EIInv, CallGood, CallShape, Rules
  <1>3. CallGood(x)
    BY <1>2, FreshGood
  <1>4. NoHome = [k \in Cached(x.ca) |-> IF k \in DOMAIN x.home THEN x.home[k]
                                        ELSE Append(x.st.path, FirstSym)]
    <2>1. x.ca = NewCache /\ Cached(NewCache) = {}
      BY NewSession DEF Fresh
    <2> HIDE DEF x
    <2>2. Cached(x.ca) = {}
      BY <2>1
    <2>3. QED BY <2>2 DEF NoHome
  <1>5. Leaves(x, Idle)
    BY <1>1, <1>4 DEF Leaves, Fresh
  <1> HIDE DEF x
  <1>6. EIInv'
    BY <1>1, <1>2, <1>3, <1>5, LeavesIdle
  <1>7. QED BY <1>1, <1>6 DEF NewEng

\* The first engine.
LEMMA EngineInitGood == EngineInit => EIInv /\ store = NoSession /\ ~eng.initd
  <1> SUFFICES ASSUME EngineInit PROVE EIInv /\ store = NoSession /\ ~eng.initd
    OBVIOUS
  <1>1. /\ st = NewState /\ ca = NewCache /\ pg = NewPage /\ mn = NewMenu
        /\ run = Idle /\ home = NoHome /\ hits = 0
        /\ eng = NewEng /\ reply = "none" /\ out = [page |-> FALSE, exit |-> Empty]
        /\ store = NoSession /\ conf \in Configs
    BY DEF EngineInit
  <1>2. CallGood(Now)
    <2>1. Stored(NoSession)
      BY DEF Stored
    <2>2. CallGood(Fresh(NoSession))
      BY <2>1, FreshGood
    <2>3. Now = Fresh(NoSession)
      <3>1. Now = [st |-> st, ca |-> ca, pg |-> pg, mn |-> mn, home |-> home, eng |-> eng,
                   store |-> store, reply |-> reply, out |-> out]
        BY DEF Now, Here
      <3>2. QED BY <1>1, <3>1 DEF Fresh
    <2>4. QED BY <2>2, <2>3
  <1>3. run.pc = "off" /\ run.err = "ok" /\ run.b = <<>>
    BY <1>1 DEF Idle
  <1>4. /\ Session(st, ca, home) /\ st.code = <<>> /\ st.flags = {} /\ Cached(ca) = {}
        /\ pg \in Page /\ mn \in Menu
    BY <1>1, <1>2, NowFields, NewSession DEF CallGood, CallShape
  <1>5. IInv
    <2>1. TypeOK
      BY <1>1, <1>4 DEF TypeOK, Session, CacheShape, Idle, Outcome
    <2>2. Flow /\ YieldReason /\ LoadFailCaught
      BY <1>3, <1>4 DEF Flow, YieldReason, LoadFailCaught, Terminated
    <2>3. home \in [Cached(ca) -> Seq(Node)]
      BY <1>1, <1>4 DEF NoHome
    <2>4. QED BY <1>4, <2>1, <2>2, <2>3 DEF IInv, Session
  <1>6. NoCroak => Deep
    BY <1>3, <1>4, UncroakedCode DEF Deep, Session, Levels
  <1>7. RunBelongs
    BY <1>3 DEF RunBelongs
  <1>8. EIInv
    BY <1>1, <1>2, <1>3, <1>5, <1>6, <1>7 DEF EIInv
  <1>9. QED BY <1>1, <1>8 DEF NewEng

\* A step of the vm.
LEMMA RunStepGood ==
  ASSUME EIInv, RunStep
  PROVE  /\ EIInv' /\ UNCHANGED <<store, eng, conf>> /\ run.pc = "on"
         /\ Terminated => Terminated'
  <1>1. VmStep /\ IInv /\ UNCHANGED <<conf, eng, store, reply, out>>
    BY DEF RunStep, EIInv
  <1>2. IInv'
    BY <1>1, InstructionIInv, HaltIInv, BailIInv DEF VmStep
  <1>3. /\ run.pc = "on" /\ eng.initd /\ ~eng.execd /\ ~eng.exiting
        /\ \/ Bail
           \/ /\ ~Terminated /\ st'.code = <<>>
              /\ run'.pc = "on" => run'.err = "ok"
              /\ "WAIT" \in st'.flags => "DIRTY" \in st'.flags
    BY <1>1, StepShape DEF EIInv
  <1>4. Bail => run' = [pc |-> "ret", b |-> <<>>, err |-> "ok"] /\ st' = st /\ Terminated
    BY DEF Bail
  <1>5. NoCroak => Deep'
    BY <1>1, <1>2, VmStepDeep DEF EIInv
  <1>6. RunBelongs'
    BY <1>1, VmStepBelongs DEF EIInv
  <1>7. st'.code = <<>> /\ st' \in StateType /\ NotBoth(st')
    BY <1>1, <1>2, <1>3, <1>4 DEF IInv, Flow, TypeOK, NotBoth, Terminated
  <1>8. CallGood(Now)'
    <2>1. /\ CallShape(Now) /\ Rules(Now) /\ Now.eng = eng /\ eng.ready
      BY <1>3, NowFields DEF EIInv, CallGood, Rules
    <2>2. pg' \in Page /\ mn' \in Menu
      BY <1>2 DEF IInv, TypeOK
    <2>3. CallShape(Now')
      BY <1>1, <2>1, <2>2, NowFields, NowAfter DEF CallShape, Fields
    <2>4. Session(st', ca', home')
      <3>1. /\ CacheShape(ca') /\ home' \in [Cached(ca') -> Seq(Node)]
            /\ Scoped(st'.path, ca'.frames, home')
        BY <1>2 DEF IInv
      <3>2. NoCroak => Len(ca'.frames) = Len(st'.path) + 1 /\ st'.code \in Seq(Uncroaked)
        BY <1>5 DEF Deep, Levels
      <3>3. QED BY <1>7, <3>1, <3>2 DEF Session
    <2>5. AtNode(st')
      BY <1>7 DEF AtNode, Starts
    <2>6. Rules(Now)'
      BY <1>1, <1>3, <2>1, <2>5, NowFields, NowAfter DEF Rules, Persisted
    <2>7. QED BY <2>3, <2>4, <2>6, NowAfter DEF CallGood
  <1>9. /\ run'.pc = "on" => run'.err = "ok"
        /\ run'.pc = "ret" /\ "WAIT" \in st'.flags => "DIRTY" \in st'.flags
    <2>1. Terminated => "WAIT" \notin st.flags
      BY <1>1 DEF IInv, Flow
    <2>2. QED BY <1>3, <1>4, <2>1
  <1>10. EIInv'
    BY <1>1, <1>2, <1>3, <1>5, <1>6, <1>8, <1>9 DEF EIInv
  <1>11. QED BY <1>1, <1>3, <1>4, <1>10 DEF Terminated

\* The deployment stays.
LEMMA SameConf == [EngineNext]_engineVars => conf' = conf
  BY DEF EngineNext, EngineExec, RunStep, EngineReturn, Flush, Finish, NewEngine, Leaves,
         engineVars

\* Nothing happens.
LEMMA StutterGood ==
  ASSUME EIInv, UNCHANGED engineVars
  PROVE  EIInv'
  <1>1. UNCHANGED <<st, ca, pg, mn, run, home, hits, conf, eng, store, reply, out>>
    BY DEF engineVars
  <1>2. CallGood(Now) /\ Now' = Now
    BY <1>1 DEF EIInv, Now, Here
  <1>3. Rules(Now)'
    BY <1>1, <1>2, NowFields, NowAfter DEF CallGood, Rules, Persisted
  <1>4. CallGood(Now)'
    BY <1>2, <1>3 DEF CallGood
  <1>5. QED BY <1>1, <1>4, Unmoved

\* Every step keeps the invariant.
LEMMA NextEIInv == EIInv /\ [EngineNext]_engineVars => EIInv'
  <1> SUFFICES ASSUME EIInv, [EngineNext]_engineVars PROVE EIInv'
    OBVIOUS
  <1>1. ASSUME NEW in \in Input, EngineExec(in) PROVE EIInv'
    BY <1>1, EngineExecStep
  <1>2. CASE RunStep
    BY <1>2, RunStepGood
  <1>3. CASE EngineReturn
    BY <1>3, ReturnStep
  <1>4. CASE Flush
    BY <1>4, FlushStep
  <1>5. CASE Finish
    BY <1>5, FinishStep
  <1>6. CASE NewEngine
    BY <1>6, NewEngineStep
  <1>7. CASE UNCHANGED engineVars
    BY <1>7, StutterGood
  <1>8. QED BY <1>1, <1>2, <1>3, <1>4, <1>5, <1>6, <1>7 DEF EngineNext

\* It holds of every behaviour.
THEOREM EngineInvariant == EngineSpec => []EIInv
  <1>1. EngineInit => EIInv
    BY EngineInitGood
  <1>2. QED BY <1>1, NextEIInv, PTL DEF EngineSpec

-----------------------------------------------------------------------------
(* What follows.                                                           *)

\* Types: engine, stored session and output are well formed, whatever failed.
THEOREM EngineTyped == EngineSpec => []EngineTypeOK
  <1>1. ASSUME EIInv PROVE EngineTypeOK
    <2>1. CallShape(Now) /\ TypeOK
      BY <1>1 DEF EIInv, CallGood, IInv
    <2>2. eng \in EngineType /\ Stored(store) /\ reply \in Reply /\ out \in Output
      BY <2>1, NowFields DEF CallShape
    <2>3. store # NoSession => /\ store.st \in StateType
                               /\ store.ca.frames \in Seq(Frame) \ {<<>>}
                               /\ DOMAIN store.home = Cached(store.ca)
      BY <2>2 DEF Stored, Session, CacheShape
    <2>4. QED BY <2>1, <2>2, <2>3 DEF EngineTypeOK, EngineType, Reply, Output
  <1>2. QED BY <1>1, EngineInvariant, PTL

\* What ScopeHeld says of one run holds across runs, first functions, resets, errors and
\* stored sessions: a symbol is cached only while the node it was loaded at is on the path.
THEOREM ScopeAcrossSessions == EngineSpec => []ScopeHeld
  <1>1. EIInv => ScopeHeld
    BY InScope DEF EIInv
  <1>2. QED BY <1>1, EngineInvariant, PTL

\* A session that is over is never one that waits for input, whatever was stored.
THEOREM YieldsForOneReason == EngineSpec => []YieldReason
  <1>1. EIInv => YieldReason
    BY DEF EIInv, IInv
  <1>2. QED BY <1>1, EngineInvariant, PTL

\* In a program without CROAK there is a cache level for every node of the path and one
\* below, between any two steps of any number of engines.
THEOREM LevelsFollowPath ==
  ASSUME NoCroak
  PROVE  EngineSpec => []InStep
  <1>1. EIInv => InStep
    BY DEF EIInv, Deep, InStep
  <1>2. QED BY <1>1, EngineInvariant, PTL

\* The code kept between two inputs, in an engine or stored, ends with the code of the
\* node the session is at or is the end of it.
THEOREM KeptCodeBelongs == EngineSpec => []CodeBelongs
  <1>1. ASSUME EIInv PROVE CodeBelongs
    <2>1. \A s : AtNode(s) => Belongs(s)
      BY DEF AtNode, Belongs, EndsAt, Ends, Starts
    <2>2. Stored(store) /\ (eng.initd => AtNode(st))
      BY <1>1, NowFields DEF EIInv, CallGood, CallShape, Rules
    <2>3. QED BY <2>1, <2>2 DEF CodeBelongs, Stored
  <1>2. QED BY <1>1, EngineInvariant, PTL

\* A session whose answer was flushed has code, is over, or starts at the entry point.
THEOREM FlushedSessionsGoOn == EngineSpec => []EndsClean
  <1>1. ASSUME EIInv PROVE EndsClean
    BY <1>1, NowFields DEF EIInv, CallGood, Rules, EndsClean, Terminated
  <1>2. QED BY <1>1, EngineInvariant, PTL

\* Where the database answers every get, a session that is stored is replaced only by an
\* engine that loaded it.
THEOREM OnlyLoadersReplace ==
  ASSUME \A c \in Configs : "get" \notin c.dbFails
  PROVE  EngineSpec => SessionKept
  <1>1. ASSUME EIInv, [EngineNext]_engineVars, store # NoSession, store' # store
        PROVE  eng.initd
    <2>1. "get" \notin DbFails
      BY <1>1 DEF EIInv, DbFails
    <2>2. ASSUME NEW in \in Input, EngineExec(in) PROVE eng.initd
      BY <1>1, <2>1, <2>2, EngineExecStep
    <2>3. CASE Finish
      BY <2>3 DEF Finish
    <2>4. CASE RunStep \/ EngineReturn \/ Flush \/ NewEngine \/ UNCHANGED engineVars
      BY <1>1, <2>4, ReturnStep, FlushStep DEF RunStep, NewEngine, engineVars
    <2>5. QED BY <1>1, <2>2, <2>3, <2>4 DEF EngineNext
  <1>2. EIInv /\ [EngineNext]_engineVars
          => [store # NoSession /\ store' # store => eng.initd]_engineVars
    BY <1>1
  <1>3. QED BY <1>2, EngineInvariant, PTL DEF EngineSpec, SessionKept

-----------------------------------------------------------------------------
(* The stored session is a checkpoint.                                     *)

\* What Checkpoint sees.
Saved == IF store = NoSession THEN NoSession
         ELSE View(store.st, store.ca, store.st.code)
Working == IF ~Persisted \/ ~eng.initd THEN NoSession
           ELSE View(st, ca, IF run = Idle THEN st.code ELSE run.b)

\* The database answers every get, a persisted session is not started over by an empty
\* input, and NoSession is no session.
Checkpointed ==
  /\ \A c \in Configs : "get" \notin c.dbFails /\ (c.persisted => ~c.resetOnEmpty)
  /\ \A s, c, b : View(s, c, b) # NoSession
  /\ \A x : Image(x) # NoSession

\* Steps that leave the store alone, in an engine that has a session.
LEMMA UseMaps ==
  ASSUME store' = store, eng'.initd = eng.initd, conf' = conf, Terminated => Terminated',
         \A s, c, b : View(s, c, b) # NoSession
  PROVE  [Promise!Next]_(Promise!vars)
  <1>1. Saved' = Saved
    BY DEF Saved
  <1>2. CASE ~Persisted \/ ~eng.initd
    <2>1. Working = NoSession /\ Working' = NoSession
      BY <1>2 DEF Working, Persisted
    <2>2. QED BY <1>1, <2>1 DEF Promise!vars, Saved, Working
  <1>3. CASE Persisted /\ eng.initd
    <2>1. Working = View(st, ca, IF run = Idle THEN st.code ELSE run.b)
      BY <1>3 DEF Working
    <2>2. Working' = View(st', ca', IF run' = Idle THEN st'.code ELSE run'.b)
      BY <1>3 DEF Working, Persisted, Idle, View
    <2>3. Working # NoSession /\ Working' # NoSession
      BY <2>1, <2>2
    <2>4. Working.over => Working'.over
      BY <2>1, <2>2 DEF View, Terminated
    <2>5. Promise!Use
      BY <1>1, <2>3, <2>4 DEF Promise!Use, Saved, Working
    <2>6. QED BY <2>5 DEF Promise!Next
  <1>4. QED BY <1>2, <1>3

\* A call of Exec works on the session, or opens or creates one.
LEMMA ExecMaps ==
  ASSUME Checkpointed, EIInv, NEW in \in Input, EngineExec(in)
  PROVE  [Promise!Next]_(Promise!vars)
  <1>1. /\ EIInv'
        /\ store' # store => /\ ~eng.initd
                             /\ store = NoSession \/ "get" \in DbFails
                             /\ ViewOf(store') = NewView
        /\ eng.initd => eng'.initd
        /\ eng.initd /\ ~ResetOnEmptyInput /\ Terminated => Terminated'
        /\ ~eng.initd /\ eng'.initd /\ Persisted /\ ~ResetOnEmptyInput =>
             /\ Work' = ViewOf(store')
             /\ (\A z : Image(z) # NoSession) => store' # NoSession
    BY EngineExecStep
  <1>2. "get" \notin DbFails /\ (Persisted => ~ResetOnEmptyInput) /\ conf' = conf
    BY SameConf DEF EIInv, Checkpointed, DbFails, Persisted, ResetOnEmptyInput, EngineNext
  <1>3. \A s, c, b : View(s, c, b) # NoSession
    BY DEF Checkpointed
  <1>4. eng.initd \in BOOLEAN /\ eng'.initd \in BOOLEAN
    <2>1. CallGood(Now) /\ CallGood(Now)'
      BY <1>1 DEF EIInv
    <2>2. eng \in EngineType /\ eng' \in EngineType
      BY <2>1, NowFields, NowAfter DEF CallGood, CallShape
    <2>3. QED BY <2>2 DEF EngineType
  <1>5. CASE ~Persisted
    <2>1. Working = NoSession /\ Working' = NoSession
      BY <1>2, <1>5 DEF Working, Persisted
    <2>2. Saved' = Saved
      <3>1. store = NoSession /\ store' = NoSession
        BY <1>1, <1>2, <1>5, NowFields, NowAfter DEF EIInv, CallGood, Rules, Persisted
      <3>2. QED BY <3>1 DEF Saved
    <2>3. QED BY <2>1, <2>2 DEF Promise!vars, Saved, Working
  <1>6. CASE Persisted /\ eng.initd
    BY <1>1, <1>2, <1>3, <1>4, <1>6, UseMaps
  <1>7. CASE Persisted /\ ~eng.initd
    <2>1. Working = NoSession
      BY <1>7 DEF Working
    <2>2. Working' = IF ~eng'.initd THEN NoSession ELSE Work'
      BY <1>2, <1>7 DEF Working, Work, Persisted
    <2>3. eng'.initd => Work' = ViewOf(store') /\ store' # NoSession
      BY <1>1, <1>2, <1>7 DEF Checkpointed
    <2>4. store' # NoSession => Saved' = ViewOf(store')
      BY DEF Saved, ViewOf, View
    <2>5. CASE store' = store
      <3>1. Saved' = Saved
        BY <2>5 DEF Saved
      <3>2. CASE ~eng'.initd
        BY <2>1, <2>2, <3>1, <3>2 DEF Promise!vars, Saved, Working
      <3>3. CASE eng'.initd
        <4>1. Saved = ViewOf(store) /\ Saved # NoSession /\ Working' = Saved
          BY <1>3, <2>2, <2>3, <2>5, <3>3 DEF Saved, ViewOf
        <4>2. Promise!Open
          BY <2>1, <3>1, <4>1 DEF Promise!Open, Saved, Working
        <4>3. QED BY <4>2 DEF Promise!Next
      <3>4. QED BY <3>2, <3>3
    <2>6. CASE store' # store
      <3>1. Saved = NoSession /\ Saved' = NewView
        BY <1>1, <1>2, <2>4, <2>6 DEF Saved
      <3>2. Working' \in {NoSession, NewView}
        BY <1>1, <2>2, <2>3, <2>6
      <3>3. Promise!Create
        BY <3>1, <3>2 DEF Promise!Create, Saved, Working, NewView
      <3>4. QED BY <3>3 DEF Promise!Next
    <2>7. QED BY <2>5, <2>6
  <1>8. QED BY <1>5, <1>6, <1>7

\* Every step is one of Checkpoint's, or nothing to it.
LEMMA StepMaps ==
  ASSUME Checkpointed, EIInv, [EngineNext]_engineVars
  PROVE  [Promise!Next]_(Promise!vars)
  <1>1. conf' = conf /\ \A s, c, b : View(s, c, b) # NoSession
    BY SameConf DEF Checkpointed
  <1>2. ASSUME NEW in \in Input, EngineExec(in) PROVE [Promise!Next]_(Promise!vars)
    BY <1>2, ExecMaps
  <1>3. CASE RunStep
    <2>1. UNCHANGED <<store, eng>> /\ (Terminated => Terminated')
      BY <1>3, RunStepGood
    <2>2. QED BY <1>1, <2>1, UseMaps
  <1>4. CASE EngineReturn
    <2>1. store' = store /\ eng'.initd /\ (Terminated => Terminated') /\ eng.initd
      BY <1>4, ReturnStep DEF EIInv, EngineReturn
    <2>2. eng'.initd = eng.initd
      <3>1. CallGood(Now) /\ CallGood(Now)'
        BY <1>4, ReturnStep DEF EIInv
      <3>2. eng \in EngineType /\ eng' \in EngineType
        BY <3>1, NowFields, NowAfter DEF CallGood, CallShape
      <3>3. QED BY <2>1, <3>2 DEF EngineType
    <2>3. QED BY <1>1, <2>1, <2>2, UseMaps
  <1>5. CASE Flush
    <2>1. store' = store /\ eng'.initd = eng.initd /\ (Terminated => Terminated')
      BY <1>5, FlushStep
    <2>2. QED BY <1>1, <2>1, UseMaps
  <1>6. CASE Finish
    <2>1. /\ store' = Image(Here) /\ ViewOf(store') = Work /\ Persisted /\ eng.initd
          /\ UNCHANGED <<st, ca, run, conf, eng>>
      BY <1>6, FinishStep DEF Finish
    <2>2. Working = Work /\ Working # NoSession
      BY <1>1, <2>1 DEF Working, Work
    <2>3. Saved' = Working
      <3>1. store' # NoSession
        BY <2>1 DEF Checkpointed
      <3>2. Saved' = ViewOf(store')
        BY <3>1 DEF Saved, ViewOf, View
      <3>3. QED BY <2>1, <2>2, <3>2
    <2>4. Working' = Working
      BY <2>1 DEF Working, Persisted, Idle, View
    <2>5. Promise!Save
      BY <2>2, <2>3, <2>4 DEF Promise!Save, Saved, Working
    <2>6. QED BY <2>5 DEF Promise!Next
  <1>7. CASE NewEngine
    <2>1. store' = store /\ ~eng'.initd
      BY <1>7, NewEngineStep
    <2>2. Saved' = Saved /\ Working' = NoSession
      BY <2>1 DEF Saved, Working
    <2>3. Promise!Drop
      BY <2>2 DEF Promise!Drop, Saved, Working
    <2>4. QED BY <2>3 DEF Promise!Next
  <1>8. CASE UNCHANGED engineVars
    <2>1. store' = store /\ eng' = eng /\ st' = st
      BY <1>8 DEF engineVars
    <2>2. QED BY <1>1, <2>1, UseMaps DEF Terminated
  <1>9. QED BY <1>2, <1>3, <1>4, <1>5, <1>6, <1>7, <1>8 DEF EngineNext

\* With a persister, engines one after the other, finished, dropped or lost, treat the
\* stored session as Checkpoint says: each works on a copy of what was saved last, only
\* an engine that took the copy replaces it, and a session that is over stays over.
THEOREM CheckpointImplemented ==
  ASSUME Checkpointed
  PROVE  EngineSpec => ImplementsCheckpoint
  <1>1. ASSUME EngineInit PROVE Promise!Init
    <2>1. store = NoSession /\ ~eng.initd
      BY <1>1, EngineInitGood
    <2>2. QED BY <2>1 DEF Promise!Init
  <1>2. EIInv /\ [EngineNext]_engineVars => [Promise!Next]_(Promise!vars)
    BY StepMaps
  <1>3. QED BY <1>1, <1>2, EngineInvariant, PTL
           DEF EngineSpec, ImplementsCheckpoint, Promise!Spec

=============================================================================
