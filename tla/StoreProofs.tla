---------------------------- MODULE StoreProofs -----------------------------
(***************************************************************************)
(* A database handle for all sessions, names, languages and values: it     *)
(* stays well formed; once sealed it never lets read-only data change; and *)
(* among callers whose texts keep apart (KeysApart), every Get answers     *)
(* with what was put for its type, session, key and language, every entry  *)
(* of the log of puts with the put that wrote it, and every dump with all  *)
(* that is asked for and nothing else.                                     *)
(***************************************************************************)
EXTENDS Dumps, SumLemmas, SequenceTheorems, FunctionTheorems, TLAPS

\* A sealed handle protects all read-only data.
SealedIsSafe == h.seal => Safe(h)

\* The inductive invariant. That nothing was stored by a wrong type needs that a
\* handle is what its calls make of it, and a sealed one what no call can undo.
SIInv == StoreTypeOK /\ SealedIsSafe

\* A new handle, on any store, is a handle.
LEMMA NewHandleIsHandle ==
  ASSUME NEW kind \in Kind
  PROVE  NewHandle(kind) \in HandleType /\ Safe(NewHandle(kind))
  BY DEF NewHandle, HandleType, Type, SafeLock, Spoke, Safe

\* What an earlier process put is stored under known types.
LEMMA StoredIsTyped ==
  ASSUME NEW w, \A a \in DOMAIN w : a.typ \in Type \ {DATATYPE_UNKNOWN} /\ w[a] \in Value
  PROVE  \A k \in DOMAIN Stored(w) :
           k.typ \in Type \ {DATATYPE_UNKNOWN} /\ Stored(w)[k] \in Value
  <1> SUFFICES ASSUME NEW k \in DOMAIN Stored(w)
               PROVE  k.typ \in Type \ {DATATYPE_UNKNOWN} /\ Stored(w)[k] \in Value
    OBVIOUS
  <1>1. DOMAIN Stored(w) = {KeyAt(a) : a \in DOMAIN w}
    BY DEF Stored
  <1>2. PICK a \in DOMAIN w : KeyAt(a) = k
    BY <1>1
  <1> DEFINE b == CHOOSE x \in DOMAIN w : KeyAt(x) = k
  <1>3. b \in DOMAIN w /\ KeyAt(b) = k
    BY <1>2
  <1>4. Stored(w)[k] = w[b]
    BY <1>1 DEF Stored
  <1>5. k.typ = b.typ
    <2> HIDE DEF b
    <2>1. QED BY <1>3 DEF KeyAt, ToDbKey
  <1>6. QED BY <1>3, <1>4, <1>5

\* A store as it is found is well formed.
LEMMA InitSIInv == Init => SIInv
  <1> SUFFICES ASSUME Init PROVE SIInv
    OBVIOUS
  <1>1. PICK kind \in Kind : h = NewHandle(kind)
    BY DEF Init
  <1>2. h \in HandleType /\ SealedIsSafe
    BY <1>1, NewHandleIsHandle DEF SealedIsSafe
  <1>3. \A a \in DOMAIN wrote : a.typ \in Type \ {DATATYPE_UNKNOWN} /\ wrote[a] \in Value
    <2>1. CASE wrote = <<>>
      <3>1. DOMAIN wrote = {}
        BY <2>1
      <3>2. QED BY <3>1
    <2>2. CASE wrote \in Seeds
      BY <2>2, StoreAssumption
    <2>3. QED BY <2>1, <2>2 DEF Init
  <1>4. \A k \in DOMAIN kv : k.typ \in Type \ {DATATYPE_UNKNOWN} /\ kv[k] \in Value
    BY <1>3, StoredIsTyped DEF Init
  <1>5. QED BY <1>2, <1>4 DEF Init, SIInv, StoreTypeOK

\* What any call makes of a handle is a handle, on the same store.
LEMMA PrefixIsHandle ==
  ASSUME NEW g \in HandleType, NEW t \in Type
  PROVE  /\ WithPrefix(g, t) \in HandleType
         /\ WithPrefix(g, t).pfx = t
         /\ WithPrefix(g, t).lock = g.lock /\ WithPrefix(g, t).seal = g.seal
  BY DEF HandleType, WithPrefix

\* So it is when a session is set.
LEMMA SessionIsHandle ==
  ASSUME NEW g \in HandleType, NEW s \in Session
  PROVE  /\ WithSession(g, s) \in HandleType
         /\ WithSession(g, s).lock = g.lock /\ WithSession(g, s).seal = g.seal
  BY DEF HandleType, WithSession

\* So it is when a language is set.
LEMMA LanguageIsHandle ==
  ASSUME NEW g \in HandleType, NEW l \in Spoke
  PROVE  /\ WithLanguage(g, l) \in HandleType
         /\ WithLanguage(g, l).lock = g.lock /\ WithLanguage(g, l).seal = g.seal
  BY DEF HandleType, WithLanguage

\* A sealed handle stays as it is; one that is being sealed is locked.
LEMMA LockedIsHandle ==
  ASSUME NEW g \in HandleType, g.seal => Safe(g),
         NEW typs \in Mask \cup {{}}, NEW on \in BOOLEAN
  PROVE  /\ Locked(g, typs, on) \in HandleType
         /\ Locked(g, typs, on).seal => Safe(Locked(g, typs, on))
  <1>1. typs \subseteq Type /\ SafeLock \subseteq Type
    BY StoreAssumption DEF Type
  <1>2. CASE g.seal
    BY <1>2 DEF Locked
  <1>3. CASE ~g.seal /\ typs = {}
    <2>1. Locked(g, typs, on) = [g EXCEPT !.lock = @ \cup SafeLock, !.seal = TRUE]
      BY <1>3 DEF Locked
    <2>2. QED BY <2>1, <1>1 DEF HandleType, Safe
  <1>4. CASE ~g.seal /\ typs # {}
    <2>1. Locked(g, typs, on) = [g EXCEPT !.lock = IF on THEN @ \cup typs ELSE @ \ typs]
      BY <1>4 DEF Locked
    <2>2. QED BY <2>1, <1>1, <1>4 DEF HandleType, Safe
  <1>5. QED BY <1>2, <1>3, <1>4


\* A getter leaves a new handle, of the next process, or one with the same locks.
LEMMA GetterIsHandle ==
  ASSUME NEW g \in HandleType, NEW sym, NEW ctx, NEW r \in Getters(g, sym, ctx)
  PROVE  /\ r.h \in HandleType
         /\ r.h = NewHandle(g.kind) \/ (r.h.lock = g.lock /\ r.h.seal = g.seal)
  <1> DEFINE Ok(a) == /\ a.h \in HandleType
                      /\ a.h = NewHandle(g.kind) \/ (a.h.lock = g.lock /\ a.h.seal = g.seal)
  <1>0. g.kind \in Kind
    BY DEF HandleType
  <1>1. ASSUME NEW x PROVE Ok(Answer(g, x))
    BY DEF Answer
  <1>2. ASSUME NEW t \in SafeLock, NEW key PROVE Ok(Lookup(g, t, key, ctx))
    <2>1. CASE t \notin Handled
      BY <2>1, <1>1 DEF Lookup
    <2>2. CASE t \in Handled /\ ~Safe(g)
      BY <2>2, <1>0, NewHandleIsHandle DEF Lookup, Answer
    <2>3. CASE t \in Handled /\ Safe(g)
      <3>1. Lookup(g, t, key, ctx).h = WithPrefix(g, t)
        BY <2>3 DEF Lookup, Answer, Asking
      <3>2. QED BY <3>1, PrefixIsHandle DEF Type
    <2>4. QED BY <2>1, <2>2, <2>3
  <1>3. {DATATYPE_BIN, DATATYPE_MENU, DATATYPE_TEMPLATE, DATATYPE_STATICLOAD} = SafeLock
    BY DEF SafeLock
  <1>4. Ok(DbGetTemplate(g, sym, ctx)) /\ Ok(DbGetCode(g, sym, ctx))
    BY <1>2, <1>3 DEF DbGetTemplate, DbGetCode
  <1>5. Ok(DbGetMenu(g, sym, ctx))
    <2> DEFINE m == Lookup(g, DATATYPE_MENU, Append(sym, MenuTail), ctx)
    <2>1. Ok(m)
      BY <1>2, <1>3
    <2>2. DbGetMenu(g, sym, ctx) = m \/ DbGetMenu(g, sym, ctx) = Answer(m.h, sym)
      BY DEF DbGetMenu
    <2>3. QED BY <2>1, <2>2 DEF Answer
  <1>6. Ok(DbFuncFor(g, sym, ctx))
    BY <1>1, <1>2, <1>3 DEF DbFuncFor
  <1>7. QED BY <1>4, <1>5, <1>6 DEF Getters

\* A put stores a value of the type the handle is set to, if that is not locked.
LEMMA PutSIInv ==
  ASSUME SIInv, NEW g \in HandleType, g.lock = h.lock, g.seal = h.seal,
         NEW key, NEW v \in Value, NEW ctx, PutWith(g, key, v, ctx)
  PROVE  SIInv' /\ (h.seal => ReadOnly(kv') = ReadOnly(kv))
  <1> DEFINE k == Translation(g, key, ctx)
  <1>1. h' \in HandleType /\ who' \in Session \cup {<<>>} /\ SealedIsSafe'
    BY DEF PutWith, SIInv, StoreTypeOK, SealedIsSafe, Safe
  <1>2. CASE Puts(g)
    <2>1. k.typ = g.pfx
      BY DEF Translation, ToDbKey
    <2>2. k.typ \in Type \ {DATATYPE_UNKNOWN} /\ k.typ \notin h.lock
      BY <1>2, <2>1 DEF Puts, CheckPut, HandleType
    <2> HIDE DEF k
    <2>3. kv' = Extended(kv, k, v)
      BY <1>2 DEF PutWith, k
    <2>4. \A x \in DOMAIN kv' : x.typ \in Type \ {DATATYPE_UNKNOWN} /\ kv'[x] \in Value
      BY <2>2, <2>3 DEF Extended, SIInv, StoreTypeOK
    <2>5. ASSUME h.seal PROVE ReadOnly(kv') = ReadOnly(kv)
      <3>1. k.typ \notin SafeLock
        BY <2>2, <2>5 DEF SIInv, SealedIsSafe, Safe
      <3>2. QED BY <3>1, <2>3 DEF Extended, ReadOnly
    <2>6. QED BY <1>1, <2>4, <2>5 DEF SIInv, StoreTypeOK
  <1>3. CASE ~Puts(g)
    BY <1>1, <1>3 DEF PutWith, SIInv, StoreTypeOK, ReadOnly
  <1>4. QED BY <1>2, <1>3

\* A call that only changes the handle.
LEMMA HandleSIInv ==
  ASSUME SIInv, h' \in HandleType, SealedIsSafe',
         who' \in Session \cup {<<>>}, UNCHANGED kv
  PROVE  SIInv' /\ (h.seal => ReadOnly(kv') = ReadOnly(kv))
  BY DEF SIInv, StoreTypeOK, ReadOnly

\* Every call keeps the invariant, and none changes read-only data once sealed.
LEMMA StepSIInv ==
  ASSUME SIInv, [Next]_vars
  PROVE  SIInv' /\ (h.seal => ReadOnly(kv') = ReadOnly(kv))
  <1> USE DEF Handle
  <1>0. /\ h \in HandleType /\ h.kind \in Kind
        /\ who \in Session \cup {<<>>} /\ (h.seal => Safe(h))
    BY DEF SIInv, StoreTypeOK, SealedIsSafe, HandleType
  <1>1. ASSUME NEW t \in Type, SetPrefix(t)
        PROVE  SIInv' /\ (h.seal => ReadOnly(kv') = ReadOnly(kv))
    BY <1>0, <1>1, PrefixIsHandle, HandleSIInv DEF SetPrefix, SealedIsSafe, Safe
  <1>2. ASSUME NEW l \in Spoke, SetLanguage(l)
        PROVE  SIInv' /\ (h.seal => ReadOnly(kv') = ReadOnly(kv))
    BY <1>0, <1>2, LanguageIsHandle, HandleSIInv DEF SetLanguage, SealedIsSafe, Safe
  <1>3. ASSUME NEW typs \in Mask \cup {{}}, NEW on \in BOOLEAN, SetLock(typs, on)
        PROVE  SIInv' /\ (h.seal => ReadOnly(kv') = ReadOnly(kv))
    BY <1>0, <1>3, LockedIsHandle, HandleSIInv DEF SetLock, SealedIsSafe, Safe
  <1>4. ASSUME NEW s \in Session, SetSession(s)
        PROVE  SIInv' /\ (h.seal => ReadOnly(kv') = ReadOnly(kv))
    BY <1>0, <1>4, SessionIsHandle, HandleSIInv DEF SetSession, SealedIsSafe, Safe
  <1>5. ASSUME NEW key \in KeyOf(h.pfx), NEW v \in Value, NEW ctx \in Spoke, Put(key, v, ctx)
        PROVE  SIInv' /\ (h.seal => ReadOnly(kv') = ReadOnly(kv))
    BY <1>0, <1>5, PutSIInv DEF Put
  <1>6. ASSUME NEW sym \in Name, NEW ctx \in Spoke, Retrieve(sym, ctx)
        PROVE  SIInv' /\ (h.seal => ReadOnly(kv') = ReadOnly(kv))
    <2>1. PICK r \in Getters(h, sym, ctx) :
            /\ h' = r.h
            /\ who' = IF r.h = NewHandle(h.kind) THEN <<>> ELSE who
            /\ UNCHANGED <<kv, wrote>>
      BY <1>6 DEF Retrieve
    <2>2. h' \in HandleType /\ (h' = NewHandle(h.kind) \/ (h'.lock = h.lock /\ h'.seal = h.seal))
      BY <1>0, <2>1, GetterIsHandle
    <2>3. SealedIsSafe' /\ who' \in Session \cup {<<>>}
      BY <1>0, <2>1, <2>2, NewHandleIsHandle DEF SealedIsSafe, Safe
    <2>4. QED BY <2>1, <2>2, <2>3, HandleSIInv
  <1>7. ASSUME NEW key \in Name, NEW v \in Value, Save(key, v)
        PROVE  SIInv' /\ (h.seal => ReadOnly(kv') = ReadOnly(kv))
    <2>1. DATATYPE_STATE \in Type
      BY DEF Type
    <2>2. QED BY <1>0, <1>7, <2>1, PrefixIsHandle, PutSIInv DEF Save
  <1>8. CASE Load
    <2>1. DATATYPE_STATE \in Type
      BY DEF Type
    <2>2. QED BY <1>0, <1>8, <2>1, PrefixIsHandle, HandleSIInv DEF Load, SealedIsSafe, Safe
  <1>9. CASE Open
    BY <1>0, <1>9, NewHandleIsHandle, HandleSIInv DEF Open, SealedIsSafe, Safe
  <1>10. CASE UNCHANGED vars
    BY <1>0, <1>10, HandleSIInv DEF vars, SealedIsSafe, Safe
  <1>11. QED BY <1>1, <1>2, <1>3, <1>4, <1>5, <1>6, <1>7, <1>8, <1>9, <1>10 DEF Next

\* StoreTypeOK: handle and store stay well formed.
THEOREM StoreTypeCorrect == Spec => []StoreTypeOK
  <1>1. SIInv /\ [Next]_vars => SIInv'
    BY StepSIInv
  <1>2. SIInv => StoreTypeOK
    BY DEF SIInv
  <1>3. QED BY InitSIInv, <1>1, <1>2, PTL DEF Spec

\* SealHolds: what SetLock(0) has sealed no sequence of calls can change.
THEOREM SealIsPermanent == Spec => SealHolds
  <1>1. SIInv /\ [Next]_vars => SIInv' /\ [h.seal => ReadOnly(kv') = ReadOnly(kv)]_vars
    BY StepSIInv
  <1>2. QED BY InitSIInv, <1>1, PTL DEF Spec, SealHolds

-----------------------------------------------------------------------------
(* Keys are apart.                                                         *)

\* Text without z, a session and a key with z between them, and what a text begins with.
Free(n, z) == \A i \in DOMAIN n : n[i] # z
Joined(s, z, m) == Append(s, z) \o m
Begins(s, t) == \A i \in 1 .. Len(s) : t[i] = s[i]

\* What t is made of.
MadeOf(t, s, z, m) ==
  /\ Len(t) = Len(s) + 1 + Len(m) /\ t[Len(s) + 1] = z /\ Begins(s, t)
  /\ SubSeq(t, 1, Len(s)) = s /\ SubSeq(t, Len(s) + 2, Len(t)) = m

\* Without the separator.
Plain(n) == Free(n, Separator)

\* What ends a text.
LEMMA TextEnd ==
  ASSUME NEW S, NEW n \in Seq(S), NEW x \in S
  PROVE  /\ Append(n, x) \in Seq(S) /\ Append(n, x) # <<>> /\ Last(Append(n, x)) = x
         /\ Len(Append(n, x)) = Len(n) + 1
         /\ \A i \in 1 .. Len(n) : Append(n, x)[i] = n[i]
  <1> DEFINE a == Append(n, x)
  <1>1. /\ a \in Seq(S) /\ Len(a) = Len(n) + 1
        /\ \A i \in 1 .. Len(n) : a[i] = n[i]
        /\ Len(n) \in Nat /\ a[Len(n) + 1] = x
    BY AppendProperties, LenProperties
  <1> HIDE DEF a
  <1>2. a # <<>>
    BY <1>1
  <1>3. QED BY <1>1, <1>2 DEF Last, a

\* Nothing that is appended is something else.
LEMMA SameEnds ==
  ASSUME NEW S, NEW n \in Seq(S), NEW x \in S, NEW m \in Seq(S), NEW y \in S,
         Append(n, x) = Append(m, y)
  PROVE  n = m /\ x = y
  <1>1. Len(n) = Len(m) /\ Len(n) \in Nat /\ Len(m) \in Nat
    BY TextEnd, LenProperties
  <1> DEFINE a == Append(n, x)
             b == Append(m, y)
  <1>2. /\ \A i \in 1 .. Len(n) : a[i] = n[i]
        /\ \A i \in 1 .. Len(m) : b[i] = m[i]
        /\ Last(a) = x /\ Last(b) = y
    BY TextEnd
  <1>3. a = b
    OBVIOUS
  <1> HIDE DEF a, b
  <1>4. \A i \in 1 .. Len(n) : n[i] = m[i]
    BY <1>1, <1>2, <1>3
  <1>5. n = m
    BY <1>1, <1>4, SeqEqual
  <1>6. QED BY <1>2, <1>3, <1>5

\* A text that begins with a session and the separator is of that session.
LEMMA OneOwner ==
  ASSUME NEW S, NEW z \in S, NEW s \in Seq(S), NEW r \in Seq(S), NEW m \in Seq(S),
         Free(s, z), Free(r, z),
         Len(s) + 1 <= Len(Joined(r, z, m)), Joined(r, z, m)[Len(s) + 1] = z,
         Begins(s, Joined(r, z, m))
  PROVE  s = r
  <1> USE DEF Free, Begins
  <1> DEFINE t == Joined(r, z, m)
  <1>0. /\ t = Append(r, z) \o m /\ Len(s) + 1 <= Len(t) /\ t[Len(s) + 1] = z
        /\ \A i \in 1 .. Len(s) : t[i] = s[i]
    BY DEF Joined
  <1> HIDE DEF t
  <1> DEFINE a == Append(r, z)
             ls == Len(s)  lr == Len(r)
  <1>1. /\ ls \in Nat /\ lr \in Nat /\ Len(m) \in Nat /\ DOMAIN s = 1 .. ls /\ DOMAIN r = 1 .. lr
    BY LenProperties
  <1>2. /\ a \in Seq(S) /\ Len(a) = lr + 1 /\ a[lr + 1] = z
        /\ \A i \in 1 .. lr : a[i] = r[i]
    BY AppendProperties
  <1> HIDE DEF a
  <1>3. /\ Len(t) = lr + 1 + Len(m)
        /\ \A i \in 1 .. lr + 1 + Len(m) : t[i] = IF i <= lr + 1 THEN a[i] ELSE m[i - (lr + 1)]
    <2> DEFINE c == a \o m
    <2>1. t = c
      BY <1>0 DEF a
    <2>2. /\ Len(c) = Len(a) + Len(m)
          /\ \A i \in 1 .. Len(a) + Len(m) : c[i] = IF i <= Len(a) THEN a[i] ELSE m[i - Len(a)]
      <3>1. a \in Seq(S) /\ m \in Seq(S)
        BY <1>2
      <3>2. QED BY ONLY <3>1, ConcatProperties
    <2> HIDE DEF c, lr
    <2>3. QED BY <1>2, <2>1, <2>2
  <1> HIDE DEF ls, lr
  <1>4. /\ \A i \in 1 .. lr : t[i] = r[i] /\ r[i] # z
        /\ t[lr + 1] = z
    <2>1. \A i \in 1 .. lr : i \in 1 .. lr + 1 + Len(m) /\ i <= lr + 1
      BY <1>1
    <2>2. lr + 1 \in 1 .. lr + 1 + Len(m)
      BY <1>1
    <2>3. \A i \in 1 .. lr : t[i] = a[i] /\ a[i] = r[i]
      BY <1>2, <1>3, <2>1
    <2>4. t[lr + 1] = a[lr + 1]
      BY <1>1, <1>3, <2>2
    <2>5. QED BY <1>1, <1>2, <2>3, <2>4
  <1>5. /\ t[ls + 1] = z /\ \A i \in 1 .. ls : t[i] = s[i] /\ t[i] # z
    BY <1>0, <1>1 DEF ls
  <1>6. ls = lr
    <2>1. ~(ls < lr)
      <3>1. ls < lr => ls + 1 \in 1 .. lr
        BY <1>1
      <3>2. QED BY <1>4, <1>5, <3>1
    <2>2. ~(lr < ls)
      <3>1. lr < ls => lr + 1 \in 1 .. ls
        BY <1>1
      <3>2. QED BY <1>4, <1>5, <3>1
    <2>3. QED BY <1>1, <2>1, <2>2
  <1>7. \A i \in 1 .. ls : s[i] = r[i]
    BY <1>4, <1>5, <1>6
  <1>8. QED BY <1>6, <1>7, SeqEqual DEF ls, lr

\* A session and a key that make one text.
LEMMA TakenApart ==
  ASSUME NEW S, NEW z \in S, NEW r \in Seq(S), NEW m \in Seq(S)
  PROVE  Joined(r, z, m) \in Seq(S) /\ MadeOf(Joined(r, z, m), r, z, m)
  <1> DEFINE a == Append(r, z)
             t == a \o m
             lr == Len(r)  lm == Len(m)
  <1>1. /\ lr \in Nat /\ lm \in Nat /\ DOMAIN r = 1 .. lr /\ DOMAIN m = 1 .. lm
        /\ \A i \in 1 .. lr : r[i] \in S
        /\ \A i \in 1 .. lm : m[i] \in S
    BY LenProperties, ElementOfSeq
  <1>2. /\ a \in Seq(S) /\ Len(a) = lr + 1 /\ a[lr + 1] = z
        /\ \A i \in 1 .. lr : a[i] = r[i]
    BY AppendProperties
  <1> HIDE DEF a
  <1>3. /\ t \in Seq(S) /\ Len(t) = lr + 1 + lm
        /\ \A i \in 1 .. lr + 1 + lm : t[i] = IF i <= lr + 1 THEN a[i] ELSE m[i - (lr + 1)]
    <2>2. /\ t \in Seq(S) /\ Len(t) = Len(a) + lm
          /\ \A i \in 1 .. Len(a) + lm : t[i] = IF i <= Len(a) THEN a[i] ELSE m[i - Len(a)]
      BY <1>2, ConcatProperties
    <2> HIDE DEF t, lr, lm
    <2>3. QED BY <1>2, <2>2
  <1> HIDE DEF t, lr, lm
  <1>4. \A i \in 1 .. lr : t[i] = r[i]
    BY <1>1, <1>2, <1>3
  <1>5. t[lr + 1] = z
    BY <1>1, <1>2, <1>3
  <1>6. \A i \in 1 .. lm : t[lr + 1 + i] = m[i]
    <2>1. \A i \in 1 .. lm : /\ lr + 1 + i \in 1 .. lr + 1 + lm /\ ~(lr + 1 + i <= lr + 1)
                             /\ (lr + 1 + i) - (lr + 1) = i
      BY <1>1
    <2>2. QED BY <1>3, <2>1
  <1>7. SubSeq(t, 1, lr) = r
    <2> DEFINE q == SubSeq(t, 1, lr)
    <2>1. \A i \in 1 .. lr : t[i] \in S
      BY <1>1, <1>4
    <2>2. 1 \in Int /\ lr \in Int
      BY <1>1
    <2>3. /\ q \in Seq(S) /\ Len(q) = IF 1 <= lr THEN lr - 1 + 1 ELSE 0
          /\ \A i \in 1 .. lr - 1 + 1 : q[i] = t[1 + i - 1]
      BY <2>1, <2>2, SubSeqProperties
    <2> HIDE DEF q
    <2>4. Len(q) = lr /\ \A i \in 1 .. lr : q[i] = r[i]
      BY <1>1, <1>4, <2>3
    <2>5. q = r
      BY <2>3, <2>4, SeqEqual DEF lr
    <2>6. QED BY <2>5 DEF q
  <1>8. SubSeq(t, lr + 2, Len(t)) = m
    <2> DEFINE lt == Len(t)
               q == SubSeq(t, lr + 2, lt)
    <2>1. lt = lr + 1 + lm
      BY <1>3
    <2> HIDE DEF lt
    <2>2. \A i \in lr + 2 .. lt : t[i] \in S
      BY <1>3, <2>1, <1>1, ElementOfSeq
    <2>3. lr + 2 \in Int /\ lt \in Int
      BY <1>1, <2>1
    <2>4. /\ q \in Seq(S) /\ Len(q) = IF lr + 2 <= lt THEN lt - (lr + 2) + 1 ELSE 0
          /\ \A i \in 1 .. lt - (lr + 2) + 1 : q[i] = t[(lr + 2) + i - 1]
      BY <2>2, <2>3, SubSeqProperties
    <2> HIDE DEF q
    <2>5. Len(q) = lm
      BY <1>1, <2>1, <2>4
    <2>6. \A i \in 1 .. lm : i \in 1 .. lt - (lr + 2) + 1 /\ (lr + 2) + i - 1 = lr + 1 + i
      BY <1>1, <2>1
    <2>7. \A i \in 1 .. lm : q[i] = m[i]
      BY <1>6, <2>4, <2>6
    <2>8. q = m
      BY <2>4, <2>5, <2>7, SeqEqual DEF lm
    <2>9. QED BY <2>8 DEF q, lt
  <1>9. QED BY <1>3, <1>4, <1>5, <1>7, <1>8 DEF Joined, MadeOf, Begins, a, t, lr, lm

\* Of two sessions and keys that make one text, nothing differs.
LEMMA OneSplit ==
  ASSUME NEW S, NEW z \in S, NEW s \in Seq(S), NEW m \in Seq(S), NEW r \in Seq(S), NEW k \in Seq(S),
         Free(s, z), Free(r, z), Joined(s, z, m) = Joined(r, z, k)
  PROVE  s = r /\ m = k
  <1> DEFINE t == Joined(s, z, m)
             u == Joined(r, z, k)
  <1>0. t = u
    OBVIOUS
  <1>1. MadeOf(t, s, z, m)
    BY TakenApart
  <1>2. MadeOf(u, r, z, k)
    BY TakenApart
  <1>3. Len(s) \in Nat /\ Len(m) \in Nat
    BY LenProperties
  <1> HIDE DEF t
  <1>4. Len(s) + 1 <= Len(u) /\ u[Len(s) + 1] = z /\ Begins(s, u)
    BY <1>0, <1>1, <1>3 DEF MadeOf
  <1>5. s = r
    BY <1>4, OneOwner
  <1> HIDE DEF u
  <1>6. QED BY <1>0, <1>1, <1>2, <1>5 DEF MadeOf

\* Sessions, names and languages are texts and tokens.
LEMMA Texts ==
  /\ Session \cup {<<>>} \subseteq Text /\ Name \subseteq Text /\ Lang \subseteq STRING
  /\ MenuTail \in STRING /\ TextTail \in STRING /\ CodeTail \in STRING /\ Separator \in STRING
  /\ \A l \in Spoke : l # NoLang => l \in STRING
  <1>1. <<>> \in Seq(STRING)
    BY EmptySeq
  <1>2. Session \cup {<<>>} \subseteq Text /\ Name \subseteq Text
    BY <1>1, StoreAssumption DEF Text
  <1>3. {Separator, MenuTail, TextTail, CodeTail} \subseteq STRING /\ Lang \subseteq STRING
    BY StoreAssumption
  <1>4. \A l \in Spoke : l # NoLang => l \in STRING
    BY <1>3 DEF Spoke
  <1>5. QED BY <1>2, <1>3, <1>4

\* A session and a key with the separator between them, taken apart.
LEMMA TextJoined ==
  ASSUME NEW r \in Text, NEW m \in Text
  PROVE  /\ Joined(r, Separator, m) \in Text
         /\ Len(r) \in Nat /\ Len(m) \in Nat
         /\ MadeOf(Joined(r, Separator, m), r, Separator, m)
  <1>1. Separator \in STRING /\ r \in Seq(STRING) /\ m \in Seq(STRING)
    BY Texts DEF Text
  <1>2. Joined(r, Separator, m) \in Seq(STRING) /\ MadeOf(Joined(r, Separator, m), r, Separator, m)
    BY <1>1, TakenApart
  <1>3. QED BY <1>1, <1>2, LenProperties DEF Text

\* Keys end like no translation, and those of sessions are free of the separator.
LEMMA KeyShape ==
  ASSUME KeysApart, NEW t \in Type, NEW key \in KeyOf(t)
  PROVE  /\ key \in Text /\ Last(key) \notin Spoke
         /\ t \in Sessioned => Plain(key)
  <1>1. /\ \A n \in Name : Plain(n) /\ Last(n) \notin Spoke
        /\ MenuTail \notin Spoke /\ TextTail \notin Spoke
    BY DEF KeysApart, Plain, Free
  <1>2. /\ DATATYPE_MENU \notin Sessioned /\ DATATYPE_STATICLOAD \notin Sessioned
        /\ DATATYPE_MENU # DATATYPE_STATICLOAD
    BY DEF Sessioned, DATATYPE_MENU, DATATYPE_STATICLOAD, DATATYPE_STATE, DATATYPE_USERDATA
  <1>3. ASSUME NEW n \in Name, NEW x \in STRING, x \notin Spoke
        PROVE  Append(n, x) \in Text /\ Last(Append(n, x)) \notin Spoke
    <2>1. n \in Seq(STRING)
      BY Texts DEF Text
    <2>2. Append(n, x) \in Seq(STRING) /\ Last(Append(n, x)) = x
      BY <1>3, <2>1, TextEnd
    <2>3. QED BY <1>3, <2>2 DEF Text
  <1>4. CASE t = DATATYPE_MENU
    <2>1. PICK n \in Name : key = Append(n, MenuTail)
      BY <1>2, <1>4 DEF KeyOf
    <2>2. QED BY <1>1, <1>2, <1>3, <1>4, <2>1, Texts
  <1>5. CASE t = DATATYPE_STATICLOAD
    <2>1. key \in Name \/ \E n \in Name : key = Append(n, TextTail)
      BY <1>2, <1>5 DEF KeyOf
    <2>2. QED BY <1>1, <1>2, <1>3, <1>5, <2>1, Texts
  <1>6. CASE t # DATATYPE_MENU /\ t # DATATYPE_STATICLOAD
    <2>1. key \in Name
      BY <1>6 DEF KeyOf
    <2>2. QED BY <1>1, <2>1, Texts
  <1>7. QED BY <1>4, <1>5, <1>6

\* The text of an address, without its language.
Base(a) == IF a.ses = <<>> THEN a.key ELSE Joined(a.ses, Separator, a.key)

\* The parts of an address.
LEMMA AddressParts ==
  ASSUME KeysApart, NEW a, IsAddress(a)
  PROVE  /\ a = [typ |-> a.typ, key |-> a.key, ses |-> a.ses, lang |-> a.lang]
         /\ a.typ \in Type \ {DATATYPE_UNKNOWN} /\ a.key \in Text /\ a.ses \in Text
         /\ Last(a.key) \notin Spoke /\ Plain(a.ses) /\ (a.ses # <<>> => Plain(a.key))
         /\ a.typ \in Sessioned => Plain(a.key)
         /\ a.typ \notin Sessioned => a.ses = <<>>
         /\ a.lang \in Spoke /\ (a.lang # NoLang => Translates(a.typ) /\ a.lang \in STRING)
         /\ Base(a) \in Text
         /\ KeyAt(a) = [typ |-> a.typ,
                        text |-> IF a.lang # NoLang THEN Append(Base(a), a.lang) ELSE Base(a)]
  <1>1. /\ a = [typ |-> a.typ, key |-> a.key, ses |-> a.ses, lang |-> a.lang]
        /\ a.typ \in Type \ {DATATYPE_UNKNOWN} /\ a.key \in KeyOf(a.typ)
        /\ a.ses \in Session \cup {<<>>} /\ a.lang \in Spoke
        /\ a.typ \notin Sessioned => a.ses = <<>>
        /\ ~Translates(a.typ) => a.lang = NoLang
    BY DEF IsAddress
  <1>2. a.ses \in Text /\ (a.lang # NoLang => Translates(a.typ) /\ a.lang \in STRING)
    BY <1>1, Texts
  <1>3. Plain(a.ses)
    <2>1. CASE a.ses \in Session
      BY <2>1 DEF KeysApart, Plain, Free
    <2>2. CASE a.ses = <<>>
      BY <2>2 DEF Plain, Free
    <2>3. QED BY <1>1, <2>1, <2>2
  <1>4. /\ a.key \in Text /\ Last(a.key) \notin Spoke /\ (a.typ \in Sessioned => Plain(a.key))
    BY <1>1, KeyShape
  <1>5. Base(a) \in Text
    <2>1. a.ses \in Seq(STRING) /\ a.key \in Seq(STRING) /\ Separator \in STRING
      BY <1>2, <1>4, Texts DEF Text
    <2>2. Joined(a.ses, Separator, a.key) \in Seq(STRING)
      BY <2>1, TakenApart
    <2>3. QED BY <2>1, <2>2 DEF Base, Text
  <1>6. KeyAt(a) = [typ |-> a.typ,
                    text |-> IF a.lang # NoLang THEN Append(Base(a), a.lang) ELSE Base(a)]
    BY <1>2 DEF KeyAt, ToDbKey, Base, Joined
  <1>7. QED BY <1>1, <1>2, <1>3, <1>4, <1>5, <1>6

\* Different addresses have different keys.
LEMMA KeysDiffer ==
  ASSUME KeysApart, NEW a, IsAddress(a), NEW b, IsAddress(b), KeyAt(a) = KeyAt(b)
  PROVE  a = b
  <1> DEFINE S == STRING
  <1>1. /\ a = [typ |-> a.typ, key |-> a.key, ses |-> a.ses, lang |-> a.lang]
        /\ a.key \in Text /\ a.ses \in Text /\ Last(a.key) \notin Spoke
        /\ Plain(a.ses) /\ (a.typ \in Sessioned => Plain(a.key))
        /\ a.typ \notin Sessioned => a.ses = <<>>
        /\ a.lang \in Spoke /\ (a.lang # NoLang => Translates(a.typ) /\ a.lang \in S)
        /\ Base(a) \in Text
        /\ KeyAt(a) = [typ |-> a.typ,
                       text |-> IF a.lang # NoLang THEN Append(Base(a), a.lang) ELSE Base(a)]
    BY AddressParts
  <1>2. /\ b = [typ |-> b.typ, key |-> b.key, ses |-> b.ses, lang |-> b.lang]
        /\ b.key \in Text /\ b.ses \in Text /\ Last(b.key) \notin Spoke
        /\ Plain(b.ses) /\ (b.typ \in Sessioned => Plain(b.key))
        /\ b.typ \notin Sessioned => b.ses = <<>>
        /\ b.lang \in Spoke /\ (b.lang # NoLang => Translates(b.typ) /\ b.lang \in S)
        /\ Base(b) \in Text
        /\ KeyAt(b) = [typ |-> b.typ,
                       text |-> IF b.lang # NoLang THEN Append(Base(b), b.lang) ELSE Base(b)]
    BY AddressParts
  <1>3. a.typ = b.typ
        /\ (IF a.lang # NoLang THEN Append(Base(a), a.lang) ELSE Base(a))
             = (IF b.lang # NoLang THEN Append(Base(b), b.lang) ELSE Base(b))
    <2>1. [typ |-> a.typ, text |-> IF a.lang # NoLang THEN Append(Base(a), a.lang) ELSE Base(a)]
            = [typ |-> b.typ, text |-> IF b.lang # NoLang THEN Append(Base(b), b.lang) ELSE Base(b)]
      BY <1>1, <1>2
    <2>2. QED BY <2>1
  <1>4. a.key \in Seq(S) /\ b.key \in Seq(S) /\ a.ses \in Seq(S) /\ b.ses \in Seq(S)
        /\ Base(a) \in Seq(S) /\ Base(b) \in Seq(S) /\ Separator \in S
    BY <1>1, <1>2, Texts DEF Text
  <1>5. Translates(a.typ) => a.typ \notin Sessioned
    BY DEF Translates, Sessioned, DATATYPE_MENU, DATATYPE_TEMPLATE, DATATYPE_STATICLOAD,
           DATATYPE_STATE, DATATYPE_USERDATA
  <1> HIDE DEF S
  <1>6. /\ a.lang # NoLang => Base(a) = a.key /\ Last(Append(Base(a), a.lang)) = a.lang
                              /\ Base(b) = b.key
        /\ b.lang # NoLang => Base(b) = b.key /\ Last(Append(Base(b), b.lang)) = b.lang
                              /\ Base(a) = a.key
    BY <1>1, <1>2, <1>3, <1>4, <1>5, TextEnd DEF Base
  <1>7. CASE a.lang # NoLang /\ b.lang # NoLang
    <2>1. Append(Base(a), a.lang) = Append(Base(b), b.lang) /\ a.lang \in S /\ b.lang \in S
      BY <1>1, <1>2, <1>3, <1>7
    <2>2. Base(a) = Base(b) /\ a.lang = b.lang
      BY <1>4, <2>1, SameEnds
    <2>3. a.ses = b.ses /\ a.key = b.key
      BY <1>1, <1>2, <1>3, <1>5, <1>6, <1>7, <2>2
    <2>4. QED BY <1>1, <1>2, <1>3, <2>2, <2>3
  <1>8. CASE a.lang # NoLang /\ b.lang = NoLang
    BY <1>1, <1>2, <1>3, <1>6, <1>8
  <1>9. CASE a.lang = NoLang /\ b.lang # NoLang
    BY <1>1, <1>2, <1>3, <1>6, <1>9
  <1>10. CASE a.lang = NoLang /\ b.lang = NoLang
    <2>1. Base(a) = Base(b)
      BY <1>3, <1>10
    <2>2. ASSUME NEW k \in Seq(S), NEW r \in Seq(S), NEW m \in Seq(S), Plain(k), r # <<>>,
                 k = Joined(r, Separator, m)
          PROVE  FALSE
      <3>1. /\ Len(k) = Len(r) + 1 + Len(m) /\ k[Len(r) + 1] = Separator
            /\ Len(r) \in Nat /\ Len(m) \in Nat /\ DOMAIN k = 1 .. Len(k)
        <4>1. MadeOf(Joined(r, Separator, m), r, Separator, m)
          BY ONLY <1>4, r \in Seq(S), m \in Seq(S), TakenApart
        <4>2. QED BY <2>2, <4>1, LenProperties DEF MadeOf
      <3>2. Len(r) + 1 \in DOMAIN k
        BY <3>1
      <3>3. QED BY <2>2, <3>1, <3>2 DEF Plain, Free
    <2>3. CASE a.ses = <<>> /\ b.ses = <<>>
      BY <1>1, <1>2, <1>3, <1>10, <2>1, <2>3 DEF Base
    <2>4. CASE a.ses = <<>> /\ b.ses # <<>>
      <3>1. Plain(a.key) /\ a.key = Joined(b.ses, Separator, b.key)
        BY <1>1, <1>2, <1>3, <2>1, <2>4 DEF Base
      <3>2. QED BY <1>4, <2>2, <2>4, <3>1
    <2>5. CASE a.ses # <<>> /\ b.ses = <<>>
      <3>1. Plain(b.key) /\ b.key = Joined(a.ses, Separator, a.key)
        BY <1>1, <1>2, <1>3, <2>1, <2>5 DEF Base
      <3>2. QED BY <1>4, <2>2, <2>5, <3>1
    <2>6. CASE a.ses # <<>> /\ b.ses # <<>>
      <3>1. Joined(a.ses, Separator, a.key) = Joined(b.ses, Separator, b.key)
        BY <2>1, <2>6 DEF Base
      <3>2. Free(a.ses, Separator) /\ Free(b.ses, Separator)
        BY <1>1, <1>2 DEF Plain
      <3>3. a.ses = b.ses /\ a.key = b.key
        BY <1>4, <3>1, <3>2, OneSplit
      <3>4. QED BY <1>1, <1>2, <1>3, <1>10, <3>3
    <2>7. QED BY <2>3, <2>4, <2>5, <2>6
  <1>11. QED BY <1>7, <1>8, <1>9, <1>10

-----------------------------------------------------------------------------
(* What was put is where it was put.                                       *)

\* What a handle has for the session it was set to.
Sid(s) == IF s = <<>> THEN <<>> ELSE Append(s, Separator)

\* The store holds what was put, each entry under the key of its address, and nothing
\* else; and the handle has the session it was set to. That no entry takes the place of
\* another is what keeps this: different addresses have different keys.
Placed ==
  /\ \A a \in DOMAIN wrote : IsAddress(a) /\ wrote[a] \in Value
  /\ DOMAIN kv = {KeyAt(a) : a \in DOMAIN wrote}
  /\ \A a \in DOMAIN wrote : kv[KeyAt(a)] = wrote[a]
  /\ h.sid = Sid(who)

\* Types that have sessions, and those that have translations.
LEMMA TypeKinds ==
  ASSUME NEW t \in Type \ {DATATYPE_UNKNOWN}
  PROVE  /\ t \in Sessioned <=> t > DATATYPE_STATICLOAD
         /\ t \in Sessioned <=> t \notin SafeLock
         /\ t \in Sessioned => ~Translates(t) /\ t # DATATYPE_BIN
         /\ t = DATATYPE_BIN => ~Translates(t)
         /\ ~Translates(t) /\ t \notin Sessioned => t = DATATYPE_BIN
  BY DEF Type, SafeLock, Sessioned, Translates, DATATYPE_UNKNOWN, DATATYPE_BIN, DATATYPE_MENU,
         DATATYPE_TEMPLATE, DATATYPE_STATICLOAD, DATATYPE_STATE, DATATYPE_USERDATA

\* What a caller means is an address.
LEMMA AddressIsAddress ==
  ASSUME KeysApart, NEW t \in Type \ {DATATYPE_UNKNOWN}, NEW key \in KeyOf(t),
         NEW s \in Session \cup {<<>>}, NEW l \in Spoke
  PROVE  IsAddress(Address(t, s, key, l))
  <1>1. key \in Text
    BY KeyShape
  <1>2. NoLang \in Spoke
    BY DEF Spoke
  <1>3. QED BY <1>1, <1>2 DEF Address, IsAddress

\* The key that the handle makes is that of the address that its caller means.
LEMMA KeyMadeIsMeant ==
  ASSUME NEW g, g.pfx \in Type \ {DATATYPE_UNKNOWN}, NEW s, g.sid = Sid(s), NEW key \in Text
  PROVE  \A l : ToDbKey(g.pfx, ToSessionKey(g, key), l) = KeyAt(Address(g.pfx, s, key, l))
  <1> TAKE l
  <1> DEFINE t  == g.pfx
             ad == Address(t, s, key, l)
             b  == ToSessionKey(g, key)
  <1>1. /\ ad.typ = t /\ ad.key = key /\ ad.ses = IF t \in Sessioned THEN s ELSE <<>>
        /\ ad.lang = IF Translates(t) THEN l ELSE NoLang
    BY DEF Address
  <1>2. b = IF t \in Sessioned THEN Sid(s) \o key ELSE key
    BY TypeKinds DEF ToSessionKey
  <1>3. <<>> \o key = key
    BY EmptySeq, ConcatEmptySeq DEF Text
  <1>4. b = IF ad.ses = <<>> THEN ad.key ELSE Append(ad.ses, Separator) \o ad.key
    BY <1>1, <1>2, <1>3 DEF Sid
  <1> HIDE DEF ad, b
  <1>5. KeyAt(ad) = ToDbKey(t, b, ad.lang)
    BY <1>1, <1>4 DEF KeyAt
  <1>6. ToDbKey(t, b, ad.lang) = ToDbKey(t, b, l)
    BY <1>1 DEF ToDbKey
  <1>7. QED BY <1>5, <1>6 DEF ad, b

\* A key has what was put at its address.
LEMMA AtAddress ==
  ASSUME KeysApart, Placed, NEW a, IsAddress(a)
  PROVE  At(KeyAt(a)) = IF a \in DOMAIN wrote THEN wrote[a] ELSE NoEntry
  <1>1. CASE a \in DOMAIN wrote
    BY <1>1 DEF Placed, At
  <1>2. CASE a \notin DOMAIN wrote
    <2>1. ASSUME NEW b \in DOMAIN wrote, KeyAt(b) = KeyAt(a) PROVE FALSE
      BY <1>2, <2>1, KeysDiffer DEF Placed
    <2>2. KeyAt(a) \notin DOMAIN kv
      BY <2>1 DEF Placed
    <2>3. QED BY <1>2, <2>2 DEF At
  <1>3. QED BY <1>1, <1>2

\* What earlier processes put is placed.
LEMMA InitPlaced == KeysApart /\ Init => Placed
  <1> SUFFICES ASSUME KeysApart, Init PROVE Placed
    OBVIOUS
  <1>1. \A a \in DOMAIN wrote : IsAddress(a) /\ wrote[a] \in Value
    <2>1. CASE wrote = <<>>
      <3>1. DOMAIN wrote = {}
        BY <2>1
      <3>2. QED BY <3>1
    <2>2. CASE wrote \in Seeds
      BY <2>2, StoreAssumption DEF KeysApart
    <2>3. QED BY <2>1, <2>2 DEF Init
  <1>2. kv = Stored(wrote)
    BY DEF Init
  <1>3. DOMAIN kv = {KeyAt(a) : a \in DOMAIN wrote}
    BY <1>2 DEF Stored
  <1>4. ASSUME NEW a \in DOMAIN wrote PROVE kv[KeyAt(a)] = wrote[a]
    <2> DEFINE b == CHOOSE x \in DOMAIN wrote : KeyAt(x) = KeyAt(a)
    <2>1. b \in DOMAIN wrote /\ KeyAt(b) = KeyAt(a)
      OBVIOUS
    <2>2. kv[KeyAt(a)] = wrote[b]
      BY <1>2, <1>3 DEF Stored
    <2> HIDE DEF b
    <2>3. b = a
      BY <1>1, <2>1, KeysDiffer
    <2>4. QED BY <2>2, <2>3
  <1>5. h.sid = Sid(who)
    BY DEF Init, NewHandle, Sid
  <1>6. QED BY <1>1, <1>3, <1>4, <1>5 DEF Placed

\* A put places what is put, and leaves the rest in its place.
LEMMA PutPlaced ==
  ASSUME KeysApart, SIInv, Placed, NEW g \in HandleType, g.sid = h.sid,
         NEW key \in KeyOf(g.pfx), NEW v \in Value, NEW ctx \in Spoke,
         PutWith(g, key, v, ctx)
  PROVE  Placed'
  <1>1. h'.sid = Sid(who)' /\ who' = who
    BY DEF PutWith, Placed, Sid
  <1>2. CASE Puts(g)
    <2> DEFINE t == g.pfx
               a == Address(t, who, key, Spoken(g, ctx))
               k == Translation(g, key, ctx)
    <2>1. kv' = Extended(kv, k, v) /\ wrote' = Extended(wrote, a, v)
      BY <1>2 DEF PutWith
    <2>2. t \in Type \ {DATATYPE_UNKNOWN} /\ who \in Session \cup {<<>>} /\ g.sid = Sid(who)
      BY <1>2 DEF Puts, HandleType, SIInv, StoreTypeOK, Placed
    <2>3. Spoken(g, ctx) \in Spoke
      BY DEF Spoken, HandleType, Spoke
    <2>4. IsAddress(a)
      BY <2>2, <2>3, AddressIsAddress
    <2>5. k = KeyAt(a)
      <3>1. key \in Text
        BY <2>2, KeyShape
      <3>2. ToDbKey(t, ToSessionKey(g, key), Spoken(g, ctx)) = KeyAt(a)
        BY <2>2, <3>1, KeyMadeIsMeant
      <3>3. QED BY <3>2 DEF Translation
    <2> HIDE DEF a, k, t
    <2>6. /\ DOMAIN wrote' = DOMAIN wrote \cup {a} /\ DOMAIN kv' = DOMAIN kv \cup {k}
          /\ \A b \in DOMAIN wrote : wrote'[b] = IF b = a THEN v ELSE wrote[b]
          /\ \A x \in DOMAIN kv : kv'[x] = IF x = k THEN v ELSE kv[x]
          /\ wrote'[a] = v /\ kv'[k] = v
      BY <2>1 DEF Extended
    <2>7. \A b \in DOMAIN wrote' : IsAddress(b) /\ wrote'[b] \in Value
      BY <2>4, <2>6 DEF Placed
    <2>8. DOMAIN kv' = {KeyAt(b) : b \in DOMAIN wrote'}
      BY <2>5, <2>6 DEF Placed
    <2>9. ASSUME NEW b \in DOMAIN wrote' PROVE kv'[KeyAt(b)] = wrote'[b]
      <3>1. CASE b = a
        BY <2>5, <2>6, <3>1
      <3>2. CASE b # a
        <4>1. b \in DOMAIN wrote /\ KeyAt(b) # k
          BY <2>4, <2>5, <2>6, <2>7, <3>2, KeysDiffer
        <4>2. QED BY <2>6, <3>2, <4>1 DEF Placed
      <3>3. QED BY <3>1, <3>2
    <2>10. QED BY <1>1, <2>7, <2>8, <2>9 DEF Placed, IsAddress, KeyAt
  <1>3. CASE ~Puts(g)
    BY <1>1, <1>3 DEF PutWith, Placed, Sid
  <1>4. QED BY <1>2, <1>3

\* A getter keeps the session, or leaves a new handle.
LEMMA GetterKeepsSession ==
  ASSUME NEW g, NEW sym, NEW ctx, NEW r \in Getters(g, sym, ctx)
  PROVE  r.h = NewHandle(g.kind) \/ r.h.sid = g.sid
  <1> DEFINE Ok(a) == a.h = NewHandle(g.kind) \/ a.h.sid = g.sid
  <1>1. ASSUME NEW x PROVE Ok(Answer(g, x))
    BY DEF Answer
  <1>2. ASSUME NEW t, NEW key PROVE Ok(Lookup(g, t, key, ctx))
    BY DEF Lookup, Answer, Asking, WithPrefix
  <1> HIDE DEF Ok
  <1>3. Ok(DbGetTemplate(g, sym, ctx)) /\ Ok(DbGetCode(g, sym, ctx))
    BY <1>2 DEF DbGetTemplate, DbGetCode
  <1>4. Ok(DbGetMenu(g, sym, ctx))
    <2> DEFINE m == Lookup(g, DATATYPE_MENU, Append(sym, MenuTail), ctx)
    <2>1. Ok(m)
      BY <1>2
    <2>2. DbGetMenu(g, sym, ctx) = m \/ DbGetMenu(g, sym, ctx) = Answer(m.h, sym)
      BY DEF DbGetMenu
    <2>3. QED BY <2>1, <2>2 DEF Answer, Ok
  <1>5. Ok(DbFuncFor(g, sym, ctx))
    BY <1>1, <1>2 DEF DbFuncFor
  <1>6. QED BY <1>3, <1>4, <1>5 DEF Getters, Ok

\* A call that puts nothing keeps everything in its place.
LEMMA HandlePlaced ==
  ASSUME Placed, UNCHANGED <<kv, wrote>>, h'.sid = Sid(who')
  PROVE  Placed'
  BY DEF Placed, Sid

\* Every call keeps everything in its place.
LEMMA StepPlaced ==
  ASSUME KeysApart, SIInv, Placed, [Next]_vars
  PROVE  Placed'
  <1> USE DEF Handle
  <1>0. h \in HandleType /\ h.sid = Sid(who) /\ Sid(<<>>) = <<>> /\ NewHandle(h.kind).sid = <<>>
    BY DEF SIInv, StoreTypeOK, Placed, Sid, NewHandle
  <1>1. ASSUME NEW t \in Type, SetPrefix(t) PROVE Placed'
    BY <1>0, <1>1, HandlePlaced DEF SetPrefix, WithPrefix, HandleType
  <1>2. ASSUME NEW l \in Spoke, SetLanguage(l) PROVE Placed'
    BY <1>0, <1>2, HandlePlaced DEF SetLanguage, WithLanguage, HandleType
  <1>3. ASSUME NEW typs \in Mask \cup {{}}, NEW on \in BOOLEAN, SetLock(typs, on) PROVE Placed'
    <2>1. h'.sid = h.sid
      BY <1>0, <1>3 DEF SetLock, Locked, HandleType
    <2>2. QED BY <1>0, <1>3, <2>1, HandlePlaced DEF SetLock
  <1>4. ASSUME NEW s \in Session, SetSession(s) PROVE Placed'
    BY <1>0, <1>4, HandlePlaced DEF SetSession, WithSession, HandleType, Sid
  <1>5. ASSUME NEW key \in KeyOf(h.pfx), NEW v \in Value, NEW ctx \in Spoke, Put(key, v, ctx)
        PROVE  Placed'
    BY <1>0, <1>5, PutPlaced DEF Put
  <1>6. ASSUME NEW sym \in Name, NEW ctx \in Spoke, Retrieve(sym, ctx) PROVE Placed'
    <2>1. PICK r \in Getters(h, sym, ctx) :
            /\ h' = r.h
            /\ who' = IF r.h = NewHandle(h.kind) THEN <<>> ELSE who
            /\ UNCHANGED <<kv, wrote>>
      BY <1>6 DEF Retrieve
    <2>2. r.h = NewHandle(h.kind) \/ r.h.sid = h.sid
      BY GetterKeepsSession
    <2>3. QED BY <1>0, <2>1, <2>2, HandlePlaced
  <1>7. ASSUME NEW key \in Name, NEW v \in Value, Save(key, v) PROVE Placed'
    <2> DEFINE g == WithPrefix(h, DATATYPE_STATE)
    <2>1. DATATYPE_STATE \in Type /\ NoLang \in Spoke
      BY DEF Type, Spoke
    <2>2. g \in HandleType /\ g.pfx = DATATYPE_STATE /\ g.sid = h.sid
      BY <1>0, <2>1 DEF WithPrefix, HandleType
    <2>3. KeyOf(g.pfx) = Name
      BY <2>2 DEF KeyOf, DATATYPE_STATE, DATATYPE_MENU, DATATYPE_STATICLOAD
    <2>4. PutWith(g, key, v, NoLang)
      BY <1>7 DEF Save
    <2> HIDE DEF g
    <2>5. QED BY <2>1, <2>2, <2>3, <2>4, PutPlaced
  <1>8. CASE Load
    BY <1>0, <1>8, HandlePlaced DEF Load, WithPrefix, HandleType
  <1>9. CASE Open
    BY <1>0, <1>9, HandlePlaced DEF Open
  <1>10. CASE UNCHANGED vars
    BY <1>0, <1>10, HandlePlaced DEF vars
  <1>11. QED BY <1>1, <1>2, <1>3, <1>4, <1>5, <1>6, <1>7, <1>8, <1>9, <1>10 DEF Next

\* The first of two that is there.
LEMMA FirstOfTwo ==
  ASSUME NEW x, NEW y
  PROVE  FirstOf(<<x, y>>) = IF x # NoEntry THEN x ELSE y
  <1> DEFINE s == <<x, y>>
             I == {i \in 1 .. Len(s) : s[i] # NoEntry}
  <1>1. Len(s) = 2 /\ s[1] = x /\ s[2] = y
    OBVIOUS
  <1>2. FirstOf(s) = IF I = {} THEN NoEntry ELSE s[CHOOSE i \in I : \A j \in I : i <= j]
    BY <1>1 DEF FirstOf, SelectInSeq, Min
  <1> HIDE DEF s
  <1>3. I = {i \in {1, 2} : s[i] # NoEntry}
    BY <1>1
  <1> DEFINE i0 == CHOOSE i \in I : \A j \in I : i <= j
  <1>4. CASE x # NoEntry
    <2>1. 1 \in I /\ \A j \in I : 1 <= j
      BY <1>1, <1>3, <1>4
    <2>2. i0 \in I /\ \A j \in I : i0 <= j
      BY <2>1
    <2>3. i0 = 1
      BY <1>3, <2>1, <2>2
    <2>4. QED BY <1>1, <1>2, <1>4, <2>1, <2>3 DEF s
  <1>5. CASE x = NoEntry /\ y # NoEntry
    <2>1. I = {2}
      BY <1>1, <1>3, <1>5
    <2>2. i0 = 2
      BY <2>1
    <2>3. QED BY <1>1, <1>2, <1>5, <2>1, <2>2 DEF s
  <1>6. CASE x = NoEntry /\ y = NoEntry
    <2>1. I = {}
      BY <1>1, <1>3, <1>6
    <2>2. QED BY <1>1, <1>2, <1>6, <2>1 DEF s
  <1>7. QED BY <1>4, <1>5, <1>6

\* The first of four that is there.
LEMMA FirstOfFour ==
  ASSUME NEW x, NEW y, NEW z, NEW w
  PROVE  FirstOf(<<x, y, z, w>>) = IF x # NoEntry THEN x ELSE IF y # NoEntry THEN y
                                   ELSE IF z # NoEntry THEN z ELSE w
  <1> DEFINE s == <<x, y, z, w>>
             I == {i \in 1 .. Len(s) : s[i] # NoEntry}
  <1>1. Len(s) = 4 /\ s[1] = x /\ s[2] = y /\ s[3] = z /\ s[4] = w
    OBVIOUS
  <1>2. FirstOf(s) = IF I = {} THEN NoEntry ELSE s[CHOOSE i \in I : \A j \in I : i <= j]
    BY <1>1 DEF FirstOf, SelectInSeq, Min
  <1> HIDE DEF s
  <1>3. I = {i \in {1, 2, 3, 4} : s[i] # NoEntry}
    BY <1>1
  <1> DEFINE i0 == CHOOSE i \in I : \A j \in I : i <= j
  <1>4. ASSUME NEW n \in {1, 2, 3, 4}, s[n] # NoEntry,
               \A j \in {1, 2, 3, 4} : j < n => s[j] = NoEntry
        PROVE  FirstOf(s) = s[n]
    <2>1. n \in I /\ \A j \in I : n <= j
      BY <1>3, <1>4
    <2>2. i0 \in I /\ \A j \in I : i0 <= j
      BY <2>1
    <2>3. i0 = n
      BY <1>3, <2>1, <2>2
    <2>4. QED BY <1>2, <2>1, <2>3
  <1> HIDE DEF I
  <1>5. CASE x # NoEntry
    BY <1>1, <1>4, <1>5 DEF s
  <1>6. CASE x = NoEntry /\ y # NoEntry
    BY <1>1, <1>4, <1>6 DEF s
  <1>7. CASE x = NoEntry /\ y = NoEntry /\ z # NoEntry
    BY <1>1, <1>4, <1>7 DEF s
  <1>8. CASE x = NoEntry /\ y = NoEntry /\ z = NoEntry /\ w # NoEntry
    BY <1>1, <1>4, <1>8 DEF s
  <1>9. CASE x = NoEntry /\ y = NoEntry /\ z = NoEntry /\ w = NoEntry
    <2>1. I = {}
      BY <1>1, <1>3, <1>9
    <2>2. QED BY <1>1, <1>2, <1>9, <2>1 DEF s
  <1>10. QED BY <1>5, <1>6, <1>7, <1>8, <1>9

-----------------------------------------------------------------------------
(* Answers.                                                                *)

\* A file laid out by hand is for no session, and a name ending in a tail is for the
\* type that the tail is of.
LEMMA MadeForTypes ==
  /\ \A name : MadeFor(name) \in SafeLock
  /\ \A key \in Text : /\ MadeFor(Append(key, CodeTail)) = DATATYPE_BIN
                       /\ MadeFor(Append(key, MenuTail)) = DATATYPE_MENU
                       /\ MadeFor(Append(key, TextTail)) = DATATYPE_STATICLOAD
  <1>1. \A name : MadeFor(name) \in SafeLock
    BY DEF MadeFor, SafeLock
  <1>2. CodeTail # MenuTail /\ CodeTail # TextTail /\ MenuTail # TextTail
    BY DEF CodeTail, MenuTail, TextTail
  <1>3. ASSUME NEW key \in Text, NEW x \in STRING PROVE Last(Append(key, x)) = x
    BY <1>3, TextEnd DEF Text
  <1>4. \A key \in Text : /\ Last(Append(key, CodeTail)) = CodeTail
                          /\ Last(Append(key, MenuTail)) = MenuTail
                          /\ Last(Append(key, TextTail)) = TextTail
    BY <1>3, Texts
  <1>5. QED BY <1>1, <1>2, <1>4 DEF MadeFor

\* Where a file is looked for, for a key that files of other types do not hide, is where
\* the documentation has it.
LEMMA FileIsLaid ==
  ASSUME KeysApart, SIInv, h.kind = "fs",
         NEW t \in Type \ {DATATYPE_UNKNOWN}, NEW key \in KeyOf(t),
         NEW s \in Session \cup {<<>>},
         NEW l \in Spoke, Own(t, key, l), NEW m \in {l, NoLang}
  PROVE  LaidAt(KeyAt(Address(t, s, key, m))) = File(t, key, m)
  <1> DEFINE a == Address(t, s, key, m)
  <1>1. /\ a.typ = t /\ a.key = key /\ a.ses = IF t \in Sessioned THEN s ELSE <<>>
        /\ a.lang = IF Translates(t) THEN m ELSE NoLang
    BY DEF Address
  <1>2. m \in Spoke
    BY DEF Spoke
  <1>3. IsAddress(a)
    BY <1>2, AddressIsAddress
  <1> HIDE DEF a
  <1>4. /\ a.ses \in Text /\ key \in Text
        /\ KeyAt(a) = [typ |-> t, text |-> IF a.lang # NoLang THEN Append(Base(a), a.lang)
                                                             ELSE Base(a)]
    BY <1>1, <1>3, AddressParts
  <1>5. Files = DOMAIN Laid
    BY DEF Files
  <1>6. DATATYPE_BIN \notin Sessioned /\ (a.ses = <<>> => Base(a) = key)
    BY <1>1, TypeKinds DEF Base, Type, SafeLock, DATATYPE_BIN, DATATYPE_UNKNOWN
  <1>7. CASE t = DATATYPE_BIN
    <2>1. KeyAt(a) = [typ |-> t, text |-> key]
      BY <1>1, <1>4, <1>6, <1>7, TypeKinds
    <2>2. altPathFor(KeyAt(a)) = Append(key, CodeTail)
      BY <1>7, <2>1 DEF altPathFor
    <2>3. File(t, key, m) = IF Append(key, CodeTail) \in DOMAIN Laid
                            THEN Laid[Append(key, CodeTail)] ELSE NoEntry
      BY <1>4, <1>5, <1>7, MadeForTypes DEF File
    <2>4. QED BY <2>2, <2>3 DEF LaidAt, a
  <1>8. CASE t \in Sessioned
    <2>1. t \notin SafeLock /\ ~Translates(t) /\ t # DATATYPE_BIN
      BY <1>8, TypeKinds
    <2>2. File(t, key, m) = NoEntry
      BY <2>1, MadeForTypes DEF File
    <2>3. KeyAt(a) = [typ |-> t, text |-> Base(a)]
      BY <1>1, <1>4, <2>1
    <2>4. altPathFor(KeyAt(a)) = Base(a)
      BY <2>1, <2>3 DEF altPathFor
    <2>5. Base(a) \notin DOMAIN Laid
      <3>1. CASE a.ses = <<>>
        <4>1. key \in Files => MadeFor(key) = t
          BY <2>1 DEF Own
        <4>2. QED BY <1>5, <1>6, <2>1, <3>1, <4>1, MadeForTypes
      <3>2. CASE a.ses # <<>>
        <4> DEFINE j == Joined(a.ses, Separator, key)
        <4>1. Base(a) = j
          BY <1>1, <3>2 DEF Base
        <4>2. /\ j \in Text /\ Len(j) = Len(a.ses) + 1 + Len(key) /\ j[Len(a.ses) + 1] = Separator
              /\ Len(a.ses) \in Nat /\ Len(key) \in Nat
          BY <1>4, TextJoined DEF MadeOf
        <4> HIDE DEF j
        <4>3. Len(a.ses) + 1 \in DOMAIN j
          BY <4>2, LenProperties DEF Text
        <4>4. j \notin DOMAIN Laid
          BY <4>2, <4>3 DEF KeysApart
        <4>5. QED BY <4>1, <4>4
      <3>3. QED BY <3>1, <3>2
    <2>6. QED BY <2>2, <2>4, <2>5 DEF LaidAt, a
  <1>9. CASE t # DATATYPE_BIN /\ t \notin Sessioned
    <2> DEFINE name == IF m # NoLang THEN Append(key, m) ELSE key
    <2>1. Translates(t)
      BY <1>9, TypeKinds
    <2>2. KeyAt(a) = [typ |-> t, text |-> name]
      BY <1>1, <1>4, <1>6, <1>9, <2>1
    <2>3. altPathFor(KeyAt(a)) = name
      BY <1>9, <2>2 DEF altPathFor
    <2>4. name \in Files => MadeFor(name) = t
      BY <1>9 DEF Own
    <2>5. File(t, key, m) = IF name \in DOMAIN Laid THEN Laid[name] ELSE NoEntry
      BY <1>5, <1>9, <2>4 DEF File
    <2> HIDE DEF name
    <2>6. QED BY <2>3, <2>5 DEF LaidAt, a
  <1>10. QED BY <1>7, <1>8, <1>9

\* A Get by a handle of a type and a session answers as is meant.
LEMMA GetAnswersFor ==
  ASSUME KeysApart, SIInv, Placed,
         NEW t \in Type \ {DATATYPE_UNKNOWN}, NEW key \in KeyOf(t), NEW ctx \in Spoke,
         Own(t, key, Given(ctx)), NEW s \in Session \cup {<<>>},
         NEW g, g.pfx = t, g.kind = h.kind, g.sid = Sid(s), g.lang = h.lang
  PROVE  Get(g, key, ctx) = Meant(t, s, key, Given(ctx))
  <1> DEFINE l  == Given(ctx)
             a  == Address(t, s, key, l)
             a0 == Address(t, s, key, NoLang)
  <1>1. h \in HandleType
    BY DEF SIInv, StoreTypeOK
  <1>2. l \in Spoke /\ NoLang \in Spoke /\ key \in Text
    BY <1>1, KeyShape DEF Given, Spoke, HandleType
  <1>3. IsAddress(a) /\ IsAddress(a0)
    BY <1>1, <1>2, AddressIsAddress
  <1>4. Spoken(g, ctx) = IF Translates(t) THEN l ELSE NoLang
    BY <1>1 DEF Spoken, Given
  <1>5. Address(t, s, key, Spoken(g, ctx)) = a
    BY <1>4 DEF Address
  <1>6. h.kind = "fs" => /\ LaidAt(KeyAt(a)) = File(t, key, l)
                       /\ LaidAt(KeyAt(a0)) = File(t, key, NoLang)
    BY <1>2, FileIsLaid
  <1>7. h.kind # "fs" => File(t, key, l) = NoEntry /\ File(t, key, NoLang) = NoEntry
    BY DEF File, Files
  <1>8. At(KeyAt(a)) = Wrote(t, s, key, l) /\ At(KeyAt(a0)) = Wrote(t, s, key, NoLang)
    BY <1>3, AtAddress DEF Wrote
  <1> HIDE DEF l
  <1>9. Translation(g, key, ctx) = KeyAt(a) /\ Default(g, key) = KeyAt(a0)
    <2>1. \A x : ToDbKey(g.pfx, ToSessionKey(g, key), x) = KeyAt(Address(g.pfx, s, key, x))
      BY <1>1, <1>2, KeyMadeIsMeant
    <2>2. QED BY <1>1, <1>5, <2>1 DEF Translation, Default
  <1> HIDE DEF a, a0
  <1>10. CASE h.kind = "pg"
    <2>1. Get(g, key, ctx) = At(KeyAt(a))
      BY <1>1, <1>9, <1>10 DEF Get, pgGet
    <2>2. Meant(t, s, key, l) = Wrote(t, s, key, l)
      BY <1>10 DEF Meant
    <2>3. QED BY <1>8, <2>1, <2>2 DEF l
  <1>11. CASE h.kind = "mem"
    <2>1. Get(g, key, ctx) = FirstOf(<<At(KeyAt(a)), At(KeyAt(a0))>>)
      BY <1>1, <1>9, <1>11 DEF Get, memGet
    <2>2. Meant(t, s, key, l) = FirstOf(<<At(KeyAt(a)), NoEntry, At(KeyAt(a0)), NoEntry>>)
      BY <1>7, <1>8, <1>11 DEF Meant
    <2>3. FirstOf(<<At(KeyAt(a)), NoEntry, At(KeyAt(a0)), NoEntry>>)
            = FirstOf(<<At(KeyAt(a)), At(KeyAt(a0))>>)
      BY FirstOfTwo, FirstOfFour
    <2>4. QED BY <2>1, <2>2, <2>3 DEF l
  <1>12. CASE h.kind = "fs"
    <2>1. Get(g, key, ctx) = FirstOf(<<At(KeyAt(a)), LaidAt(KeyAt(a)), At(KeyAt(a0)), LaidAt(KeyAt(a0))>>)
      BY <1>1, <1>9, <1>12 DEF Get, fsGet
    <2>2. Meant(t, s, key, l)
            = FirstOf(<<At(KeyAt(a)), LaidAt(KeyAt(a)), At(KeyAt(a0)), LaidAt(KeyAt(a0))>>)
      BY <1>6, <1>8, <1>12 DEF Meant
    <2>3. QED BY <2>1, <2>2 DEF l
  <1>13. QED BY <1>1, <1>10, <1>11, <1>12 DEF HandleType, Kind

\* So does one by the handle itself, set to the type.
LEMMA GetAnswers ==
  ASSUME KeysApart, SIInv, Placed,
         NEW t \in Type \ {DATATYPE_UNKNOWN}, NEW key \in KeyOf(t), NEW ctx \in Spoke,
         Own(t, key, Given(ctx))
  PROVE  Get(WithPrefix(h, t), key, ctx) = Meant(t, who, key, Given(ctx))
  <1> DEFINE g == WithPrefix(h, t)
  <1>1. /\ who \in Session \cup {<<>>}
        /\ g.pfx = t /\ g.kind = h.kind /\ g.sid = Sid(who) /\ g.lang = h.lang
    BY DEF SIInv, StoreTypeOK, Placed, WithPrefix, HandleType
  <1> HIDE DEF g
  <1>2. Get(g, key, ctx) = Meant(t, who, key, Given(ctx))
    BY <1>1, GetAnswersFor
  <1>3. QED BY <1>2 DEF g

\* The invariant gives what is meant.
LEMMA PlacedIsPartitioned ==
  ASSUME KeysApart, SIInv, Placed
  PROVE  Partitioned
  <1> SUFFICES ASSUME h.pfx # DATATYPE_UNKNOWN, NEW key \in KeyOf(h.pfx), NEW l \in Spoke,
                      Own(h.pfx, key, Given(l))
               PROVE  Get(h, key, l) = Meant(h.pfx, who, key, Given(l))
    BY DEF Partitioned
  <1>1. h.pfx \in Type \ {DATATYPE_UNKNOWN} /\ WithPrefix(h, h.pfx) = h
    BY DEF SIInv, StoreTypeOK, HandleType, WithPrefix
  <1>2. Get(WithPrefix(h, h.pfx), key, l) = Meant(h.pfx, who, key, Given(l))
    BY <1>1, GetAnswers
  <1>3. QED BY <1>1, <1>2

\* A read-only lookup answers as is meant for no session.
LEMMA LookupAnswers ==
  ASSUME KeysApart, SIInv, Placed, Safe(h),
         NEW t \in Handled, NEW key \in KeyOf(t), NEW ctx \in Spoke,
         Own(t, key, Given(ctx))
  PROVE  Lookup(h, t, key, ctx).val = Meant(t, <<>>, key, Given(ctx))
  <1>1. t \in SafeLock /\ SafeLock \subseteq Type
    BY StoreAssumption DEF Type
  <1>2. t # DATATYPE_UNKNOWN
    BY <1>1 DEF SafeLock, DATATYPE_UNKNOWN, DATATYPE_BIN, DATATYPE_MENU, DATATYPE_TEMPLATE,
                DATATYPE_STATICLOAD
  <1>3. t \in Type \ {DATATYPE_UNKNOWN}
    BY <1>1, <1>2
  <1>4. Get(WithPrefix(h, t), key, ctx) = Meant(t, who, key, Given(ctx))
    BY <1>3, GetAnswers
  <1>5. \A k, l : Address(t, who, k, l) = Address(t, <<>>, k, l)
    BY <1>1, <1>3, TypeKinds DEF Address
  <1>6. Meant(t, who, key, Given(ctx)) = Meant(t, <<>>, key, Given(ctx))
    BY <1>5 DEF Meant, Wrote
  <1>7. QED BY <1>4, <1>6 DEF Lookup, Answer, Asking

\* No file hides what the resource looks up, but for a symbol as static data, which may
\* have a template's file.
LEMMA SymbolsOwn ==
  ASSUME KeysApart, NEW sym \in Name, NEW l \in Spoke
  PROVE  /\ Own(DATATYPE_TEMPLATE, sym, l) /\ Own(DATATYPE_BIN, sym, l)
         /\ Own(DATATYPE_MENU, Append(sym, MenuTail), l)
         /\ Own(DATATYPE_STATICLOAD, Append(sym, TextTail), l)
  <1> DEFINE tails == {MenuTail, TextTail, CodeTail}
  <1>1. sym \in Text /\ Files \subseteq DOMAIN Laid
    BY Texts DEF Files
  <1>2. Last(sym) \notin tails /\ l \notin tails
    BY DEF KeysApart
  <1>3. Last(Append(sym, l)) = l
    <2> DEFINE S == STRING \cup {l}
    <2>1. sym \in Seq(S)
      <3>1. sym \in Seq(STRING) /\ Seq(STRING) \subseteq Seq(S)
        BY <1>1, SeqMonotonic DEF Text
      <3>2. QED BY <3>1
    <2>2. l \in S
      OBVIOUS
    <2> HIDE DEF S
    <2>3. QED BY <2>1, <2>2, TextEnd
  <1>4. MadeFor(sym) = DATATYPE_TEMPLATE /\ MadeFor(Append(sym, l)) = DATATYPE_TEMPLATE
    BY <1>2, <1>3 DEF MadeFor
  <1>5. Append(Append(sym, MenuTail), l) \notin Files /\ Append(Append(sym, TextTail), l) \notin Files
    BY <1>1 DEF KeysApart
  <1>6. QED BY <1>1, <1>4, <1>5, MadeForTypes DEF Own

\* The invariant gives the resource its answers.
LEMMA PlacedAnswers ==
  ASSUME KeysApart, SIInv, Placed
  PROVE  ResourceAnswers
  <1> SUFFICES ASSUME NEW sym \in Name, NEW ctx \in Spoke, Safe(h)
               PROVE
          LET has(t, key, v) ==
                LET m == Meant(t, <<>>, key, Given(ctx)) IN IF m = NoEntry THEN v ELSE m
          IN  /\ DATATYPE_TEMPLATE \in Handled =>
                   DbGetTemplate(h, sym, ctx).val = has(DATATYPE_TEMPLATE, sym, NoEntry)
              /\ DATATYPE_BIN \in Handled =>
                   DbGetCode(h, sym, ctx).val = has(DATATYPE_BIN, sym, NoEntry)
              /\ DATATYPE_MENU \in Handled =>
                   DbGetMenu(h, sym, ctx).val = has(DATATYPE_MENU, Append(sym, MenuTail), sym)
              /\ /\ DATATYPE_STATICLOAD \in Handled
                 /\ sym \notin Local
                 /\ Own(DATATYPE_STATICLOAD, sym, Given(ctx))
                 => DbFuncFor(h, sym, ctx).val =
                      has(DATATYPE_STATICLOAD, sym,
                          has(DATATYPE_STATICLOAD, Append(sym, TextTail), NoEntry))
    BY DEF ResourceAnswers
  <1> DEFINE M(t, key) == Meant(t, <<>>, key, Given(ctx))
  <1>1. Given(ctx) \in Spoke
    BY DEF Given, SIInv, StoreTypeOK, HandleType
  <1>2. ASSUME NEW t \in Handled, NEW key \in KeyOf(t), Own(t, key, Given(ctx))
        PROVE  Lookup(h, t, key, ctx).val = M(t, key)
    BY <1>2, LookupAnswers
  <1>3. /\ sym \in KeyOf(DATATYPE_TEMPLATE) /\ sym \in KeyOf(DATATYPE_BIN)
        /\ Append(sym, MenuTail) \in KeyOf(DATATYPE_MENU)
        /\ sym \in KeyOf(DATATYPE_STATICLOAD) /\ Append(sym, TextTail) \in KeyOf(DATATYPE_STATICLOAD)
    BY DEF KeyOf, DATATYPE_TEMPLATE, DATATYPE_BIN, DATATYPE_MENU, DATATYPE_STATICLOAD
  <1>4. /\ Own(DATATYPE_TEMPLATE, sym, Given(ctx)) /\ Own(DATATYPE_BIN, sym, Given(ctx))
        /\ Own(DATATYPE_MENU, Append(sym, MenuTail), Given(ctx))
        /\ Own(DATATYPE_STATICLOAD, Append(sym, TextTail), Given(ctx))
    BY <1>1, SymbolsOwn
  <1> HIDE DEF M
  <1>5. DATATYPE_TEMPLATE \in Handled =>
          DbGetTemplate(h, sym, ctx).val = M(DATATYPE_TEMPLATE, sym)
    BY <1>2, <1>3, <1>4 DEF DbGetTemplate
  <1>6. DATATYPE_BIN \in Handled => DbGetCode(h, sym, ctx).val = M(DATATYPE_BIN, sym)
    BY <1>2, <1>3, <1>4 DEF DbGetCode
  <1>7. DATATYPE_MENU \in Handled =>
          DbGetMenu(h, sym, ctx).val =
            IF M(DATATYPE_MENU, Append(sym, MenuTail)) = NoEntry THEN sym
            ELSE M(DATATYPE_MENU, Append(sym, MenuTail))
    <2> DEFINE r == Lookup(h, DATATYPE_MENU, Append(sym, MenuTail), ctx)
    <2>1. DATATYPE_MENU \in Handled => r.val = M(DATATYPE_MENU, Append(sym, MenuTail))
      BY <1>2, <1>3, <1>4
    <2>2. DbGetMenu(h, sym, ctx) =
            IF DATATYPE_MENU \in Handled /\ r.val = NoEntry THEN Answer(r.h, sym) ELSE r
      BY DEF DbGetMenu
    <2> HIDE DEF r
    <2>3. QED BY <2>1, <2>2 DEF Answer
  <1>8. ASSUME DATATYPE_STATICLOAD \in Handled, sym \notin Local,
               Own(DATATYPE_STATICLOAD, sym, Given(ctx))
        PROVE  DbFuncFor(h, sym, ctx).val =
                 IF M(DATATYPE_STATICLOAD, sym) = NoEntry
                 THEN M(DATATYPE_STATICLOAD, Append(sym, TextTail)) ELSE M(DATATYPE_STATICLOAD, sym)
    <2> DEFINE r == Lookup(h, DATATYPE_STATICLOAD, sym, ctx)
               q == Lookup(h, DATATYPE_STATICLOAD, Append(sym, TextTail), ctx)
    <2>1. r.val = M(DATATYPE_STATICLOAD, sym) /\ q.val = M(DATATYPE_STATICLOAD, Append(sym, TextTail))
      BY <1>2, <1>3, <1>4, <1>8
    <2>2. DbFuncFor(h, sym, ctx) = IF r.val # NoEntry THEN r ELSE q
      BY <1>8 DEF DbFuncFor
    <2> HIDE DEF r, q
    <2>3. QED BY <2>1, <2>2
  <1>9. QED BY <1>5, <1>6, <1>7, <1>8 DEF M

\* What LogTells says of one entry of the log and one reader.
Told(a, s) ==
  LET own == WithSession(WithPrefix(h, a.typ), a.ses)
      e   == toLogDbEntry(own, a.key, wrote[a], NoLang)
      put == [typ |-> a.typ, ses |-> a.ses, key |-> a.key, val |-> wrote[a]]
  IN  ToLogDbEntry(WithSession(own, s), e) =
        IF s = a.ses THEN Logged("ok", put)
        ELSE IF s = <<>> THEN Logged("panic", NoEntry) ELSE Logged("error", NoEntry)

\* The invariant gives the log its entries: what begins with a session and the separator
\* is of that session.
LEMMA PlacedTells ==
  ASSUME KeysApart, SIInv, Placed, NEW a \in DOMAIN wrote, a.typ \in Sessioned, a.ses # <<>>,
         NEW s \in Session
  PROVE  Told(a, s)
  <1> DEFINE S   == STRING
             ses == a.ses
             key == a.key
             j   == Joined(ses, Separator, key)
             own == WithSession(WithPrefix(h, a.typ), ses)
             g   == WithSession(own, s)
             lk  == [typ |-> a.typ, text |-> j]
             e   == [lk |-> lk, val |-> wrote[a]]
             put == [typ |-> a.typ, ses |-> ses, key |-> key, val |-> wrote[a]]
  <1>1. IsAddress(a)
    BY DEF Placed
  <1>2. /\ a.typ \in Type \ {DATATYPE_UNKNOWN} /\ key \in Seq(S) /\ ses \in Seq(S) /\ s \in Seq(S)
        /\ Free(ses, Separator) /\ Free(s, Separator) /\ Separator \in S
    BY <1>1, AddressParts, Texts DEF Text, Plain, KeysApart, Free
  <1>3. NoEntry \notin Seq(S)
    BY DEF KeysApart, Text
  <1>4. /\ own.pfx = a.typ /\ own.sid = Append(ses, Separator) /\ g.sid = Sid(s) /\ g.pfx = a.typ
    BY DEF SIInv, StoreTypeOK, HandleType, WithPrefix, WithSession, Sid
  <1>5. toLogDbEntry(own, key, wrote[a], NoLang) = e
    <2>1. ToSessionKey(own, key) = j
      BY <1>2, <1>4, TypeKinds DEF ToSessionKey, Joined
    <2>2. Translation(own, key, NoLang) = lk
      <3>1. Spoken(own, NoLang) = NoLang
        BY <1>2, <1>4, TypeKinds DEF Spoken
      <3>2. QED BY <1>4, <2>1, <3>1 DEF Translation, ToDbKey
    <2>3. QED BY <2>2 DEF toLogDbEntry
  <1>6. /\ Len(j) = Len(ses) + 1 + Len(key) /\ SubSeq(j, 1, Len(ses)) = ses
        /\ SubSeq(j, Len(ses) + 2, Len(j)) = key /\ Begins(ses, j) /\ j[Len(ses) + 1] = Separator
        /\ j \in Text /\ Len(ses) \in Nat /\ Len(key) \in Nat
    <2>1. MadeOf(j, ses, Separator, key) /\ j \in Seq(S)
      BY <1>2, TextJoined DEF Text
    <2> HIDE DEF j
    <2>2. Len(ses) \in Nat /\ Len(key) \in Nat
      BY <1>2, LenProperties
    <2>3. QED BY <2>1, <2>2 DEF MadeOf, Text
  <1>7. j \in Seq(S) /\ Len(s) \in Nat /\ Len(j) \in Nat
    BY <1>2, <1>6, LenProperties DEF Text
  <1>8. DecodeKey(g, lk) = IF IsPrefix(Sid(s), j) THEN SubSeq(j, Len(Sid(s)) + 1, Len(j)) ELSE NoEntry
    <2>1. FromDbKey(lk) = j
      BY <1>2, TypeKinds DEF FromDbKey
    <2>2. QED BY <1>4, <2>1 DEF DecodeKey, FromSessionKey
  <1> DEFINE d   == DecodeKey(g, lk)
             n   == Len(j) - Len(d) - 1
             got == ToLogDbEntry(g, e)
             right == IF s = ses THEN Logged("ok", put)
                      ELSE IF s = <<>> THEN Logged("panic", NoEntry) ELSE Logged("error", NoEntry)
  <1>9. got = IF d = NoEntry THEN Logged("error", NoEntry)
              ELSE IF n < 0 THEN Logged("panic", NoEntry)
              ELSE Logged("ok", [typ |-> a.typ, ses |-> SubSeq(j, 1, n), key |-> d,
                                 val |-> wrote[a]])
    BY DEF ToLogDbEntry
  <1> SUFFICES got = right
    <2>1. Told(a, s) <=> ToLogDbEntry(g, toLogDbEntry(own, key, wrote[a], NoLang)) = right
      BY DEF Told
    <2>2. QED BY <1>5, <2>1
  <1> HIDE DEF S, ses, key, j, own, g, lk, d, n, e, put, got
  <1>10. CASE s = <<>>
    <2> DEFINE k == Len(Sid(s)) + 1
    <2>1. k = 1 /\ SubSeq(j, 1, Len(j)) = j
      BY <1>7, <1>10, SubSeqFull DEF Sid
    <2>2. IsPrefix(Sid(s), j)
      <3>1. Sid(s) = <<>> /\ SubSeq(j, 1, 0) = <<>> /\ Len(<<>>) = 0
        BY <1>7, <1>10, SubSeqProperties DEF Sid
      <3>2. QED BY <1>7, <3>1 DEF IsPrefix
    <2>3. d = j
      <3>1. d = SubSeq(j, k, Len(j))
        BY <1>8, <2>2 DEF d
      <3> HIDE DEF k
      <3>2. QED BY <2>1, <3>1
    <2>4. d # NoEntry
      BY <1>3, <1>7, <2>3
    <2>5. n < 0
      BY <1>7, <2>3 DEF n
    <2>6. s # ses
      BY <1>10 DEF ses
    <2> HIDE DEF k
    <2>7. QED BY <1>9, <1>10, <2>4, <2>5, <2>6 DEF right
  <1>11. CASE s # <<>>
    <2> DEFINE sid == Append(s, Separator)
    <2>1. /\ sid \in Seq(S) /\ Sid(s) = sid /\ Len(sid) = Len(s) + 1 /\ SubSeq(sid, 1, Len(sid)) = sid
          /\ sid[Len(s) + 1] = Separator /\ \A i \in 1 .. Len(s) : sid[i] = s[i]
      BY <1>2, <1>11, AppendProperties, SubSeqFull DEF Sid
    <2> HIDE DEF sid
    <2>2. IsPrefix(sid, j) <=> Len(s) + 1 <= Len(j) /\ sid = SubSeq(j, 1, Len(s) + 1)
      BY <2>1 DEF IsPrefix
    <2>3. ASSUME Len(s) + 1 <= Len(j)
          PROVE  /\ Len(SubSeq(j, 1, Len(s) + 1)) = Len(s) + 1
                 /\ SubSeq(j, 1, Len(s) + 1) \in Seq(S)
                 /\ \A i \in 1 .. Len(s) + 1 : SubSeq(j, 1, Len(s) + 1)[i] = j[i]
      <3> DEFINE k == Len(s) + 1
                 q == SubSeq(j, 1, k)
      <3>1. k \in Int /\ 1 \in Int /\ 1 <= k /\ k <= Len(j)
        BY <1>7, <2>3
      <3> HIDE DEF k
      <3>2. \A i \in 1 .. k : j[i] \in S
        BY <1>7, <3>1, ElementOfSeq
      <3>3. /\ q \in Seq(S) /\ Len(q) = IF 1 <= k THEN k - 1 + 1 ELSE 0
            /\ \A i \in 1 .. k - 1 + 1 : q[i] = j[1 + i - 1]
        BY <3>1, <3>2, SubSeqProperties
      <3> HIDE DEF q
      <3>4. Len(q) = k /\ \A i \in 1 .. k : q[i] = j[i]
        BY <3>1, <3>3
      <3>5. QED BY <3>3, <3>4 DEF q, k
    <2>4. ASSUME IsPrefix(sid, j) PROVE s = ses
      <3>1. /\ Len(s) + 1 <= Len(j) /\ j[Len(s) + 1] = Separator
            /\ \A i \in 1 .. Len(s) : j[i] = s[i]
        BY <1>7, <2>1, <2>2, <2>3, <2>4
      <3>2. QED BY <1>2, <3>1, OneOwner DEF j, Begins
    <2>5. ASSUME s = ses PROVE IsPrefix(sid, j)
      <3>1. Len(s) + 1 <= Len(j) /\ j[Len(s) + 1] = Separator /\ \A i \in 1 .. Len(s) : j[i] = s[i]
        <4>1. /\ Len(j) = Len(s) + 1 + Len(key) /\ j[Len(s) + 1] = Separator /\ Begins(s, j)
              /\ Len(key) \in Nat
          BY <1>6, <2>5
        <4>2. QED BY <1>7, <4>1 DEF Begins
      <3>2. \A i \in 1 .. Len(s) + 1 : sid[i] = SubSeq(j, 1, Len(s) + 1)[i]
        BY <1>7, <2>1, <2>3, <3>1
      <3>3. sid = SubSeq(j, 1, Len(s) + 1)
        BY <2>1, <2>3, <3>1, <3>2, SeqEqual
      <3>4. QED BY <2>2, <3>1, <3>3
    <2>6. CASE ~IsPrefix(sid, j)
      <3>1. d = NoEntry /\ s # ses
        BY <1>8, <2>1, <2>5, <2>6 DEF d
      <3>2. QED BY <1>9, <1>11, <3>1 DEF right
    <2>7. CASE IsPrefix(sid, j)
      <3>1. s = ses
        BY <2>4, <2>7
      <3>2. d = SubSeq(j, Len(s) + 1 + 1, Len(j))
        BY <1>8, <2>1, <2>7 DEF d
      <3>3. d = key
        <4>1. Len(s) + 1 + 1 = Len(s) + 2
          BY <1>7
        <4>2. SubSeq(j, Len(s) + 2, Len(j)) = key
          BY <1>6, <3>1
        <4>3. QED BY <3>2, <4>1, <4>2
      <3>4. d # NoEntry /\ n = Len(ses)
        BY <1>2, <1>3, <1>6, <3>3 DEF n
      <3>5. ~(n < 0) /\ SubSeq(j, 1, n) = ses
        BY <1>6, <3>4
      <3>6. got = Logged("ok", put)
        BY <1>9, <3>3, <3>4, <3>5 DEF put
      <3>7. QED BY <3>1, <3>6 DEF right
    <2>8. QED BY <2>6, <2>7
  <1>12. QED BY <1>10, <1>11

\* All that the invariant gives.
LEMMA StoreInvariant == ASSUME KeysApart PROVE Spec => [](SIInv /\ Placed)
  <1>1. Init => SIInv /\ Placed
    BY InitSIInv, InitPlaced
  <1>2. SIInv /\ Placed /\ [Next]_vars => (SIInv /\ Placed)'
    BY StepSIInv, StepPlaced
  <1>3. QED BY <1>1, <1>2, PTL DEF Spec

\* Partitioned: among callers whose texts keep apart, a Get answers with what was put
\* there last, whatever others put.
THEOREM KeysArePartitioned == ASSUME KeysApart PROVE Spec => []Partitioned
  <1>1. SIInv /\ Placed => Partitioned
    BY PlacedIsPartitioned
  <1>2. QED BY <1>1, StoreInvariant, PTL

\* ResourceAnswers: what a resource answers depends on the symbol, the language and the
\* read-only data alone.
THEOREM ResourceAnswersAlike == ASSUME KeysApart PROVE Spec => []ResourceAnswers
  <1>1. SIInv /\ Placed => ResourceAnswers
    BY PlacedAnswers
  <1>2. QED BY <1>1, StoreInvariant, PTL

\* LogTells: an entry of the log tells the put to its session, is refused to any other
\* and panics for a handle without one (src/db/log/log.go:133).
THEOREM LogIsTrue == ASSUME KeysApart PROVE Spec => []LogTells
  <1>1. SIInv /\ Placed => LogTells
    <2> SUFFICES ASSUME SIInv, Placed, NEW a \in DOMAIN wrote, NEW s \in Session,
                        a.typ \in Sessioned, a.ses # <<>>
                 PROVE  Told(a, s)
      BY DEF LogTells, Told
    <2>1. QED BY PlacedTells
  <1>2. QED BY <1>1, StoreInvariant, PTL

-----------------------------------------------------------------------------
(* The order of files.                                                     *)

\* Text of tokens that have a width and a place.
Tokens == DOMAIN Width

\* The order of text is strict.
LEMMA TextNotBefore ==
  ASSUME NEW s \in Seq(Tokens)
  PROVE  ~TextBefore(s, s)
  <1> SUFFICES ASSUME TextBefore(s, s) PROVE FALSE
    OBVIOUS
  <1>1. PICK i \in 1 .. Len(s) : i <= Len(s) => Rank[s[i]] < Rank[s[i]]
    BY DEF TextBefore
  <1>2. Len(s) \in Nat
    BY LenProperties
  <1>3. s[i] \in Tokens /\ i <= Len(s)
    BY <1>2, ElementOfSeq
  <1>4. Rank[s[i]] \in Nat
    BY <1>3, DumpAssumption DEF Tokens
  <1>5. QED BY <1>1, <1>3, <1>4

\* It is transitive.
LEMMA TextTransitive ==
  ASSUME NEW s \in Seq(Tokens), NEW t \in Seq(Tokens), NEW u \in Seq(Tokens),
         TextBefore(s, t), TextBefore(t, u)
  PROVE  TextBefore(s, u)
  <1>1. PICK i \in 1 .. Len(t) : /\ i <= Len(s) + 1 /\ \A n \in 1 .. i - 1 : s[n] = t[n]
                                 /\ i <= Len(s) => Rank[s[i]] < Rank[t[i]]
    BY DEF TextBefore
  <1>2. PICK j \in 1 .. Len(u) : /\ j <= Len(t) + 1 /\ \A n \in 1 .. j - 1 : t[n] = u[n]
                                 /\ j <= Len(t) => Rank[t[j]] < Rank[u[j]]
    BY DEF TextBefore
  <1>3. Len(s) \in Nat /\ Len(t) \in Nat /\ Len(u) \in Nat /\ i \in Nat /\ j \in Nat
    BY LenProperties
  <1>4. /\ \A n \in 1 .. Len(s) : Rank[s[n]] \in Nat
        /\ \A n \in 1 .. Len(t) : Rank[t[n]] \in Nat
        /\ \A n \in 1 .. Len(u) : Rank[u[n]] \in Nat
    BY ElementOfSeq, DumpAssumption DEF Tokens
  <1>5. CASE i < j
    <2>1. i \in 1 .. Len(u) /\ i \in 1 .. j - 1
      BY <1>1, <1>2, <1>3, <1>5
    <2>2. t[i] = u[i] /\ \A n \in 1 .. i - 1 : n \in 1 .. j - 1
      BY <1>2, <1>3, <1>5, <2>1
    <2>3. \A n \in 1 .. i - 1 : s[n] = u[n]
      BY <1>1, <1>2, <2>2
    <2>4. QED BY <1>1, <2>1, <2>2, <2>3 DEF TextBefore
  <1>6. CASE i = j
    <2>1. i <= Len(t) /\ i \in 1 .. Len(u)
      BY <1>1, <1>2, <1>3, <1>6
    <2>2. \A n \in 1 .. i - 1 : s[n] = u[n]
      BY <1>1, <1>2, <1>6
    <2>3. i <= Len(s) => i \in 1 .. Len(s)
      BY <1>1, <1>3
    <2>4. i <= Len(s) => Rank[s[i]] < Rank[u[i]]
      <3>1. Rank[t[i]] < Rank[u[i]]
        BY <1>2, <1>6, <2>1
      <3>2. Rank[t[i]] \in Nat /\ Rank[u[i]] \in Nat
        BY <1>1, <1>4, <2>1
      <3>3. i <= Len(s) => Rank[s[i]] \in Nat /\ Rank[s[i]] < Rank[t[i]]
        BY <1>1, <1>4, <2>3
      <3>4. QED BY <3>1, <3>2, <3>3
    <2>5. QED BY <1>1, <2>1, <2>2, <2>4 DEF TextBefore
  <1>7. CASE j < i
    <2>1. j \in 1 .. i - 1 /\ j <= Len(t) /\ j <= Len(s) + 1
      BY <1>1, <1>2, <1>3, <1>7
    <2>2. s[j] = t[j] /\ \A n \in 1 .. j - 1 : n \in 1 .. i - 1
      BY <1>1, <1>3, <1>7, <2>1
    <2>3. \A n \in 1 .. j - 1 : s[n] = u[n]
      BY <1>1, <1>2, <2>2
    <2>4. Rank[s[j]] < Rank[u[j]]
      BY <1>2, <2>1, <2>2
    <2>5. QED BY <1>2, <2>1, <2>3, <2>4 DEF TextBefore
  <1>8. QED BY <1>3, <1>5, <1>6, <1>7

\* It is total.
LEMMA TextTotal ==
  ASSUME NEW s \in Seq(Tokens), NEW t \in Seq(Tokens), s # t
  PROVE  TextBefore(s, t) \/ TextBefore(t, s)
  <1> DEFINE ls == Len(s)
             lt == Len(t)
             T == {i \in Nat \ {0} : i <= ls + 1 /\ i <= lt + 1
                                       /\ (i = ls + 1 \/ i = lt + 1 \/ s[i] # t[i])}
  <1>1. ls \in Nat /\ lt \in Nat
    BY LenProperties
  <1>2. T # {}
    <2>1. ls <= lt => ls + 1 \in T
      BY <1>1
    <2>2. lt <= ls => lt + 1 \in T
      BY <1>1
    <2>3. QED BY <1>1, <2>1, <2>2
  <1>3. PICK i \in T : \A j \in T : i <= j
    <2>1. T \subseteq Nat
      OBVIOUS
    <2> HIDE DEF T
    <2>2. QED BY <1>2, <2>1, SmallestNumber
  <1>4. i \in Nat \ {0} /\ i <= ls + 1 /\ i <= lt + 1 /\ (i = ls + 1 \/ i = lt + 1 \/ s[i] # t[i])
    BY <1>3
  <1>5. ASSUME NEW n \in 1 .. i - 1 PROVE s[n] = t[n]
    <2>1. n \in Nat \ {0} /\ n < i /\ n <= ls + 1 /\ n <= lt + 1
      BY <1>1, <1>4, <1>5
    <2>2. n \notin T
      BY <1>3, <1>4, <2>1
    <2>3. QED BY <2>1, <2>2
  <1> HIDE DEF T, ls, lt
  <1>6. CASE i = ls + 1 /\ i = lt + 1
    <2>1. ls = lt /\ i - 1 = ls
      BY <1>1, <1>6
    <2>2. s = t
      BY <1>5, <2>1, SeqEqual DEF ls, lt
    <2>3. QED BY <2>2
  <1>7. CASE i = ls + 1 /\ i # lt + 1
    <2>1. i \in 1 .. lt /\ ~(i <= ls) /\ i <= ls + 1
      BY <1>1, <1>4, <1>7
    <2>2. QED BY <1>5, <2>1 DEF TextBefore, ls, lt
  <1>8. CASE i # ls + 1 /\ i = lt + 1
    <2>1. i \in 1 .. ls /\ ~(i <= lt) /\ i <= lt + 1
      BY <1>1, <1>4, <1>8
    <2>2. QED BY <1>5, <2>1 DEF TextBefore, ls, lt
  <1>9. CASE i # ls + 1 /\ i # lt + 1
    <2>1. i \in 1 .. ls /\ i \in 1 .. lt /\ s[i] # t[i]
      BY <1>1, <1>4, <1>9
    <2>2. s[i] \in Tokens /\ t[i] \in Tokens
      BY <2>1, ElementOfSeq DEF ls, lt
    <2>3. Rank[s[i]] \in Nat /\ Rank[t[i]] \in Nat /\ Rank[s[i]] # Rank[t[i]]
      BY <2>1, <2>2, DumpAssumption DEF Tokens
    <2>4. CASE Rank[s[i]] < Rank[t[i]]
      BY <1>4, <1>5, <2>1, <2>4 DEF TextBefore, ls, lt
    <2>5. CASE Rank[t[i]] < Rank[s[i]]
      BY <1>4, <1>5, <2>1, <2>5 DEF TextBefore, ls, lt
    <2>6. QED BY <2>3, <2>4, <2>5
  <1>10. QED BY <1>6, <1>7, <1>8, <1>9

\* A key of the store, of tokens that are known.
IsKey(k) == /\ k = [typ |-> k.typ, text |-> k.text]
            /\ k.typ \in Type /\ k.text \in Seq(Tokens)

\* So files are in a strict order that leaves none out.
LEMMA KeysOrdered ==
  ASSUME NEW k, IsKey(k), NEW m, IsKey(m), NEW n, IsKey(n)
  PROVE  /\ ~Before(k, k)
         /\ Before(k, m) /\ Before(m, n) => Before(k, n)
         /\ k # m => Before(k, m) \/ Before(m, k)
  <1>1. k.typ \in Nat /\ m.typ \in Nat /\ n.typ \in Nat
    BY DEF IsKey, Type, SafeLock, DATATYPE_UNKNOWN, DATATYPE_BIN, DATATYPE_MENU,
           DATATYPE_TEMPLATE, DATATYPE_STATICLOAD, DATATYPE_STATE, DATATYPE_USERDATA
  <1>2. k.text \in Seq(Tokens) /\ m.text \in Seq(Tokens) /\ n.text \in Seq(Tokens)
    BY DEF IsKey
  <1>3. ~Before(k, k)
    BY <1>1, <1>2, TextNotBefore DEF Before
  <1>4. ASSUME Before(k, m), Before(m, n) PROVE Before(k, n)
    <2>1. CASE k.typ = m.typ /\ m.typ = n.typ
      <3>1. TextBefore(k.text, m.text) /\ TextBefore(m.text, n.text)
        BY <1>1, <1>4, <2>1 DEF Before
      <3>2. TextBefore(k.text, n.text)
        BY <1>2, <3>1, TextTransitive
      <3>3. QED BY <2>1, <3>2 DEF Before
    <2>2. CASE ~(k.typ = m.typ /\ m.typ = n.typ)
      BY <1>1, <1>4, <2>2 DEF Before
    <2>3. QED BY <2>1, <2>2
  <1>5. ASSUME k # m PROVE Before(k, m) \/ Before(m, k)
    <2>1. CASE k.typ = m.typ
      <3>1. k.text # m.text
        BY <1>5, <2>1 DEF IsKey
      <3>2. TextBefore(k.text, m.text) \/ TextBefore(m.text, k.text)
        BY <1>2, <3>1, TextTotal
      <3>3. QED BY <2>1, <3>2 DEF Before
    <2>2. CASE k.typ # m.typ
      BY <1>1, <2>2 DEF Before
    <2>3. QED BY <2>1, <2>2
  <1>6. QED BY <1>3, <1>4, <1>5

\* A directory is read in order, every file once.
InOrder ==
  LET n == Cardinality(DOMAIN kv)
  IN  /\ n \in Nat /\ ReadDir \in [1 .. n -> DOMAIN kv]
      /\ \A k \in DOMAIN kv : \E i \in 1 .. n : ReadDir[i] = k
      /\ \A i, j \in 1 .. n : i < j => Before(ReadDir[i], ReadDir[j])

\* What is before a file is what is before a later one, and less.
LEMMA FewerBefore ==
  ASSUME IsFiniteSet(DOMAIN kv), \A k \in DOMAIN kv : IsKey(k)
  PROVE  /\ \A k \in DOMAIN kv : Cardinality(Earlier(k)) \in 0 .. Cardinality(DOMAIN kv) - 1
         /\ \A m, k \in DOMAIN kv :
              Before(m, k) => Cardinality(Earlier(m)) < Cardinality(Earlier(k))
  <1> DEFINE K == DOMAIN kv
             n == Cardinality(K)
  <1>1. n \in Nat
    BY FS_CardinalityType
  <1>2. ASSUME NEW k \in K
        PROVE  /\ IsFiniteSet(Earlier(k)) /\ Cardinality(Earlier(k)) \in Nat
               /\ Cardinality(Earlier(k)) <= n - 1
    <2>1. Earlier(k) \in SUBSET (K \ {k})
      BY KeysOrdered DEF Earlier
    <2>2. IsFiniteSet(K \ {k}) /\ Cardinality(K \ {k}) = n - 1
      BY FS_RemoveElement
    <2>3. IsFiniteSet(Earlier(k)) /\ Cardinality(Earlier(k)) <= Cardinality(K \ {k})
      BY <2>1, <2>2, FS_Subset
    <2>4. QED BY <2>2, <2>3, FS_CardinalityType
  <1>3. ASSUME NEW m \in K, NEW k \in K, Before(m, k)
        PROVE  Cardinality(Earlier(m)) < Cardinality(Earlier(k))
    <2>1. Earlier(m) \in SUBSET Earlier(k)
      <3>1. ASSUME NEW x \in K, Before(x, m) PROVE Before(x, k)
        BY <1>3, <3>1, KeysOrdered
      <3>2. QED BY <3>1 DEF Earlier
    <2>2. m \in Earlier(k) /\ m \notin Earlier(m)
      BY <1>3, KeysOrdered DEF Earlier
    <2>3. /\ Cardinality(Earlier(m)) <= Cardinality(Earlier(k))
          /\ Cardinality(Earlier(k)) # Cardinality(Earlier(m))
      BY <1>2, <2>1, <2>2, FS_Subset
    <2>4. QED BY <1>2, <2>3
  <1>4. QED BY <1>1, <1>2, <1>3

\* So each file has a place, and each place a file.
LEMMA DirIsInOrder ==
  ASSUME IsFiniteSet(DOMAIN kv), \A k \in DOMAIN kv : IsKey(k)
  PROVE  InOrder
  <1> DEFINE K == DOMAIN kv
             n == Cardinality(K)
             pos(k) == Cardinality(Earlier(k))
             f == [k \in K |-> pos(k) + 1]
  <1>1. n \in Nat
    BY FS_CardinalityType
  <1>2. \A k \in K : pos(k) \in 0 .. n - 1
    BY FewerBefore
  <1>3. \A m, k \in K : Before(m, k) => pos(m) < pos(k)
    BY FewerBefore
  <1>4. ASSUME NEW m \in K, NEW k \in K, pos(m) = pos(k) PROVE m = k
    <2>1. ~Before(m, k) /\ ~Before(k, m)
      BY <1>2, <1>3, <1>4
    <2>2. QED BY <2>1, KeysOrdered
  <1> HIDE DEF pos
  <1>5. \A k \in K : f[k] \in 1 .. n /\ f[k] = pos(k) + 1
    BY <1>1, <1>2
  <1>6. f \in Injection(K, 1 .. n)
    <2>1. f \in [K -> 1 .. n]
      BY <1>5
    <2>2. \A m, k \in K : f[m] = f[k] => m = k
      <3>1. \A k \in K : pos(k) \in Nat
        BY <1>1, <1>2
      <3>2. QED BY <1>4, <1>5, <3>1
    <2> HIDE DEF f
    <2>3. QED BY <2>1, <2>2, Fun_IsInj
  <1>7. f \in Surjection(K, 1 .. n)
    <2>1. IsFiniteSet(1 .. n) /\ Cardinality(1 .. n) = n
      BY <1>1, FS_Interval
    <2> HIDE DEF f
    <2>2. QED BY <1>6, <2>1, FS_Injection
  <1>8. \A i \in 1 .. n : \E k \in K : pos(k) = i - 1
    <2>1. \A i \in 1 .. n : \E k \in K : f[k] = i
      <3> HIDE DEF f, n, K
      <3>1. QED BY <1>7, Fun_SurjectionProperties
    <2>2. QED BY <1>2, <1>5, <2>1
  <1>9. ReadDir = [i \in 1 .. n |-> CHOOSE k \in K : pos(k) = i - 1]
    BY DEF ReadDir, pos
  <1> DEFINE R == ReadDir
  <1>10. \A i \in 1 .. n : R[i] \in K /\ pos(R[i]) = i - 1
    <2>1. \A i \in 1 .. n : R[i] = CHOOSE k \in K : pos(k) = i - 1
      BY <1>9
    <2> HIDE DEF R
    <2>2. QED BY <1>8, <2>1
  <1>11. R \in [1 .. n -> K]
    <2>1. R = [i \in 1 .. n |-> R[i]]
      BY <1>9
    <2> HIDE DEF R
    <2>2. QED BY <1>10, <2>1
  <1> HIDE DEF R, K, n, f
  <1>12. ASSUME NEW k \in K PROVE \E i \in 1 .. n : R[i] = k
    <2>1. pos(k) + 1 \in 1 .. n
      BY <1>1, <1>2
    <2>2. pos(R[pos(k) + 1]) = pos(k)
      BY <1>2, <1>10, <2>1
    <2>3. R[pos(k) + 1] = k
      BY <1>4, <1>10, <2>1, <2>2
    <2>4. QED BY <2>1, <2>3
  <1>13. ASSUME NEW i \in 1 .. n, NEW j \in 1 .. n, i < j PROVE Before(R[i], R[j])
    <2>1. R[i] \in K /\ R[j] \in K /\ pos(R[i]) < pos(R[j])
      BY <1>10, <1>13
    <2>2. R[i] # R[j] /\ ~Before(R[j], R[i])
      BY <1>3, <2>1, <1>10, <1>13
    <2>3. QED BY <2>1, <2>2, KeysOrdered DEF K
  <1>14. QED BY <1>1, <1>11, <1>12, <1>13 DEF InOrder, R, K, n

-----------------------------------------------------------------------------
(* A dump is a run of files.                                               *)

\* Min is the smallest.
LEMMA MinIsSmallest ==
  ASSUME NEW T, T \subseteq Nat, T # {}
  PROVE  Min(T) \in T /\ \A n \in T : Min(T) <= n
  <1>1. \E n \in T : \A m \in T : n <= m
    BY SmallestNumber
  <1>2. QED BY <1>1 DEF Min

\* A function on the numbers up to n is a sequence of that length.
LEMMA LengthOf ==
  ASSUME NEW K, NEW n \in Nat, NEW f \in [1 .. n -> K]
  PROVE  f \in Seq(K) /\ Len(f) = n
  <1>1. f \in Seq(K)
    OBVIOUS
  <1>2. DOMAIN f = 1 .. Len(f) /\ Len(f) \in Nat /\ DOMAIN f = 1 .. n
    BY <1>1, LenProperties
  <1> DEFINE l == Len(f)
  <1>3. 1 .. l = 1 .. n /\ l \in Nat
    BY <1>2
  <1> HIDE DEF l
  <1>4. l = n
    <2>1. l <= n
      <3>1. l > 0 => l \in 1 .. l
        BY <1>3
      <3>2. l > 0 => l \in 1 .. n
        BY <1>3, <3>1
      <3>3. QED BY <1>3, <3>2
    <2>2. n <= l
      <3>1. n > 0 => n \in 1 .. n
        OBVIOUS
      <3>2. n > 0 => n \in 1 .. l
        BY <1>3, <3>1
      <3>3. QED BY <1>3, <3>2
    <2>3. QED BY <1>3, <2>1, <2>2
  <1>5. QED BY <1>1, <1>4 DEF l

\* What matches lies together, in the order of files.
Together(g, prefix) ==
  \A k, m, n \in DOMAIN kv :
    Before(k, m) /\ Before(m, n) /\ Matches(g, prefix, k) /\ Matches(g, prefix, n)
      => Matches(g, prefix, m)

\* A dump has what Next has for the files that match, in their order.
DumpsMatches(g, prefix, ctx) ==
  \E o, c \in Nat :
    /\ o + c <= Cardinality(DOMAIN kv)
    /\ Dump(g, prefix, ctx) = [i \in 1 .. c |-> Element(g, ctx, ReadDir[o + i])]
    /\ \A j \in 1 .. Cardinality(DOMAIN kv) :
         Matches(g, prefix, ReadDir[j]) <=> j \in o + 1 .. o + c

\* Run stops before the first file that cannot be read.
LEMMA RunStops ==
  ASSUME InOrder, NEW g, NEW prefix, NEW ctx,
         NEW first \in 1 .. Cardinality(DOMAIN kv)
  PROVE  \E c \in Nat :
           /\ first - 1 + c <= Cardinality(DOMAIN kv)
           /\ Run(first, g, prefix, ctx)
                = [i \in 1 .. c |-> Element(g, ctx, ReadDir[first - 1 + i])]
           /\ \A i \in 1 .. c : Readable(g, prefix, ctx, ReadDir[first - 1 + i])
           /\ first - 1 + c < Cardinality(DOMAIN kv)
                => ~Readable(g, prefix, ctx, ReadDir[first + c])
  <1> DEFINE K == DOMAIN kv
             n == Cardinality(K)
             R == ReadDir
             P(k) == Readable(g, prefix, ctx, k)
             F(k) == Element(g, ctx, k)
             files == SubSeq(R, first, Len(R))
             l == n - first + 1
             T == {i \in 1 .. Len(files) : ~P(files[i])}
             e == SelectInSeq(files, LAMBDA k : ~P(k))
             c == IF e = 0 THEN Len(files) ELSE e - 1
  <1>1. n \in Nat /\ R \in [1 .. n -> K]
    BY DEF InOrder
  <1>2. Run(first, g, prefix, ctx) = [i \in 1 .. c |-> F(files[i])]
    BY DEF Run
  <1>3. e = IF T # {} THEN Min(T) ELSE 0
    BY DEF SelectInSeq
  <1>4. first \in 1 .. n
    OBVIOUS
  <1> HIDE DEF K, n, R, P, F, e
  <1>5. R \in Seq(K) /\ Len(R) = n
    BY <1>1, LengthOf
  <1>6. /\ Len(files) = l /\ l \in Nat
        /\ \A i \in 1 .. l : files[i] = R[first - 1 + i] /\ first - 1 + i \in 1 .. n
    <2> DEFINE q == SubSeq(R, first, n)
    <2>1. \A i \in first .. n : R[i] \in K
      BY <1>1, <1>4
    <2>2. first \in Int /\ n \in Int
      BY <1>1, <1>4
    <2>3. /\ Len(q) = IF first <= n THEN n - first + 1 ELSE 0
          /\ \A i \in 1 .. n - first + 1 : q[i] = R[first + i - 1]
      BY <2>1, <2>2, SubSeqProperties
    <2>4. files = q
      BY <1>5
    <2> HIDE DEF q, files
    <2>5. \A i \in 1 .. l : first + i - 1 = first - 1 + i /\ first - 1 + i \in 1 .. n
      BY <1>1, <1>4
    <2>6. QED BY <1>1, <1>4, <2>3, <2>4, <2>5
  <1> HIDE DEF files, l
  <1>7. T \subseteq 1 .. l /\ (T # {} => e \in T /\ \A i \in T : e <= i) /\ (T = {} => e = 0)
    <2>1. T \subseteq 1 .. l /\ T \subseteq Nat
      BY <1>6
    <2> HIDE DEF T
    <2>2. QED BY <1>3, <2>1, MinIsSmallest
  <1>8. c \in 0 .. l /\ (\A i \in 1 .. c : P(files[i])) /\ (c < l => ~P(files[c + 1]))
    <2>1. CASE T = {}
      <3>1. c = l /\ \A i \in 1 .. l : i \notin T
        BY <1>6, <1>7, <2>1
      <3>2. QED BY <1>6, <3>1
    <2>2. CASE T # {}
      <3>1. e \in 1 .. l /\ e # 0 /\ e \in T /\ \A i \in 1 .. e - 1 : i \notin T
        <4>1. e \in 1 .. l /\ e \in T /\ \A i \in T : e <= i
          BY <1>7, <2>2
        <4> HIDE DEF T
        <4>2. QED BY <1>6, <4>1
      <3>2. c = e - 1 /\ c + 1 = e /\ \A i \in 1 .. e - 1 : i \in 1 .. l
        BY <1>6, <3>1
      <3>3. QED BY <1>6, <3>1, <3>2
    <2>3. QED BY <2>1, <2>2
  <1> HIDE DEF T, c
  <1>9. \A i \in 1 .. c : files[i] = R[first - 1 + i]
    BY <1>6, <1>8
  <1>10. [i \in 1 .. c |-> F(files[i])] = [i \in 1 .. c |-> F(R[first - 1 + i])]
    BY <1>9
  <1>11. first - 1 + c <= n /\ c \in Nat /\ (first - 1 + c < n => c < l /\ c + 1 \in 1 .. l)
    BY <1>1, <1>4, <1>6, <1>8 DEF l
  <1>12. first - 1 + (c + 1) = first + c
    BY <1>4, <1>11
  <1>13. /\ \A i \in 1 .. c : P(R[first - 1 + i])
         /\ first - 1 + c < n => ~P(R[first + c])
    BY <1>6, <1>8, <1>9, <1>11, <1>12
  <1>14. QED BY <1>2, <1>10, <1>11, <1>13 DEF R, P, F, n, K

\* So a dump has all that matches, if that lies together and can be read.
LEMMA DumpIsRun ==
  ASSUME InOrder, NEW g, NEW prefix, NEW ctx, Together(g, prefix),
         \A k \in DOMAIN kv : Matches(g, prefix, k) => Readable(g, prefix, ctx, k)
  PROVE  DumpsMatches(g, prefix, ctx)
  <1> DEFINE K == DOMAIN kv
             n == Cardinality(K)
             R == ReadDir
             M(k) == Matches(g, prefix, k)
             F(k) == Element(g, ctx, k)
             T == {i \in 1 .. Len(R) : M(R[i])}
             first == SelectInSeq(R, LAMBDA k : M(k))
  <1>1. /\ n \in Nat /\ R \in [1 .. n -> K]
        /\ \A i, j \in 1 .. n : i < j => Before(R[i], R[j])
    BY DEF InOrder
  <1>2. Dump(g, prefix, ctx) = IF first = 0 THEN <<>> ELSE Run(first, g, prefix, ctx)
    BY DEF Dump
  <1>3. first = IF T # {} THEN Min(T) ELSE 0
    BY DEF SelectInSeq
  <1>4. \A k \in K : M(k) <=> Readable(g, prefix, ctx, k)
    BY DEF Readable
  <1>5. \A k, m, x \in K : Before(k, m) /\ Before(m, x) /\ M(k) /\ M(x) => M(m)
    BY DEF Together
  <1>6. DumpsMatches(g, prefix, ctx)
          <=> \E o, c \in Nat : /\ o + c <= n
                                /\ Dump(g, prefix, ctx) = [i \in 1 .. c |-> F(R[o + i])]
                                /\ \A j \in 1 .. n : M(R[j]) <=> j \in o + 1 .. o + c
    BY DEF DumpsMatches
  <1> HIDE DEF K, n, R, M, F, first
  <1>7. Len(R) = n
    BY <1>1, LengthOf
  <1>8. T \subseteq 1 .. n /\ (T # {} => first \in T /\ \A i \in T : first <= i)
    <2>1. T \subseteq 1 .. n /\ T \subseteq Nat
      BY <1>1, <1>7
    <2> HIDE DEF T
    <2>2. QED BY <1>3, <2>1, MinIsSmallest
  <1>9. CASE T = {}
    <2>1. Dump(g, prefix, ctx) = <<>> /\ \A j \in 1 .. n : ~M(R[j])
      BY <1>2, <1>3, <1>7, <1>9
    <2>2. \A j : j \notin 1 .. 0 /\ j \notin 0 + 1 .. 0 + 0
      OBVIOUS
    <2>3. <<>> = [i \in 1 .. 0 |-> F(R[0 + i])]
      OBVIOUS
    <2>4. 0 + 0 <= n /\ 0 \in Nat
      BY <1>1
    <2>5. QED BY <1>6, <2>1, <2>2, <2>3, <2>4
  <1>10. CASE T # {}
    <2>1. first \in 1 .. n /\ M(R[first]) /\ \A i \in 1 .. n : M(R[i]) => first <= i
      BY <1>7, <1>8, <1>10
    <2>2. first # 0
      BY <2>1
    <2>3. PICK c \in Nat :
            /\ first - 1 + c <= n
            /\ Run(first, g, prefix, ctx) = [i \in 1 .. c |-> F(R[first - 1 + i])]
            /\ \A i \in 1 .. c : Readable(g, prefix, ctx, R[first - 1 + i])
            /\ first - 1 + c < n => ~Readable(g, prefix, ctx, R[first + c])
      BY <2>1, RunStops DEF n, K, R, F
    <2> DEFINE o == first - 1
    <2>4. o \in Nat /\ first = o + 1 /\ o + c <= n
      BY <2>1, <2>3
    <2>5. ASSUME NEW j \in 1 .. n, j \in o + 1 .. o + c PROVE M(R[j])
      <3>1. j - o \in 1 .. c /\ first - 1 + (j - o) = j
        BY <2>3, <2>4, <2>5
      <3>2. Readable(g, prefix, ctx, R[j]) /\ R[j] \in K
        BY <1>1, <2>3, <3>1
      <3>3. QED BY <1>4, <3>2
    <2>6. ASSUME NEW j \in 1 .. n, M(R[j]) PROVE j \in o + 1 .. o + c
      <3>1. first <= j
        BY <2>1, <2>6
      <3>2. ASSUME o + c < j PROVE FALSE
        <4>1. o + c < n /\ first + c \in 1 .. n /\ first - 1 + c < n
          BY <1>1, <2>1, <2>3, <2>4, <3>2
        <4>2. ~M(R[first + c])
          BY <1>1, <1>4, <2>3, <4>1
        <4>3. c # 0
          BY <2>1, <2>3, <4>2
        <4>4. first < first + c /\ first + c <= j
          BY <2>1, <2>3, <2>4, <3>2, <4>3
        <4>5. first + c # j
          BY <2>6, <4>2
        <4>6. first + c < j
          BY <2>1, <2>3, <4>4, <4>5
        <4>7. Before(R[first], R[first + c]) /\ Before(R[first + c], R[j])
          BY <1>1, <2>1, <4>1, <4>4, <4>6
        <4>8. R[first] \in K /\ R[first + c] \in K /\ R[j] \in K
          BY <1>1, <2>1, <4>1
        <4>9. QED BY <1>5, <2>1, <2>6, <4>2, <4>7, <4>8
      <3>3. QED BY <2>3, <2>4, <3>1, <3>2
    <2>7. Dump(g, prefix, ctx) = [i \in 1 .. c |-> F(R[o + i])]
      BY <1>2, <2>2, <2>3
    <2> HIDE DEF o
    <2>8. QED BY <1>6, <2>3, <2>4, <2>5, <2>6, <2>7
  <1>11. QED BY <1>9, <1>10

-----------------------------------------------------------------------------
(* What decoding makes of a key.                                           *)

\* What a text begins with, by its tokens.
StartsWith(p, t) == Len(p) <= Len(t) /\ Begins(p, t)

\* The start of a text.
LEMMA StartOf ==
  ASSUME NEW S, NEW t \in Seq(S), NEW n \in 0 .. Len(t)
  PROVE  /\ SubSeq(t, 1, n) \in Seq(S) /\ Len(SubSeq(t, 1, n)) = n
         /\ \A i \in 1 .. n : SubSeq(t, 1, n)[i] = t[i]
  <1> DEFINE q == SubSeq(t, 1, n)
  <1>1. Len(t) \in Nat /\ n \in Nat /\ n \in Int /\ 1 \in Int
    BY LenProperties
  <1>2. \A i \in 1 .. n : t[i] \in S
    BY <1>1, ElementOfSeq
  <1>3. /\ q \in Seq(S) /\ Len(q) = IF 1 <= n THEN n - 1 + 1 ELSE 0
        /\ \A i \in 1 .. n - 1 + 1 : q[i] = t[1 + i - 1]
    BY <1>1, <1>2, SubSeqProperties
  <1> HIDE DEF q
  <1>4. Len(q) = n /\ \A i \in 1 .. n : q[i] = t[i]
    BY <1>1, <1>3
  <1>5. QED BY <1>3, <1>4 DEF q

\* IsPrefix by tokens.
LEMMA PrefixMeans ==
  ASSUME NEW S, NEW p \in Seq(S), NEW t \in Seq(S)
  PROVE  IsPrefix(p, t) <=> StartsWith(p, t)
  <1> DEFINE l == Len(p)
  <1>1. l \in Nat /\ Len(t) \in Nat /\ SubSeq(p, 1, Len(p)) = p
    BY LenProperties, SubSeqFull
  <1>2. IsPrefix(p, t) <=> l <= Len(t) /\ p = SubSeq(t, 1, l)
    BY <1>1 DEF IsPrefix
  <1>3. ASSUME l <= Len(t) PROVE p = SubSeq(t, 1, l) <=> Begins(p, t)
    <2> DEFINE q == SubSeq(t, 1, l)
    <2>1. l \in 0 .. Len(t)
      BY <1>1, <1>3
    <2>2. q \in Seq(S) /\ Len(q) = l /\ \A i \in 1 .. l : q[i] = t[i]
      BY <2>1, StartOf
    <2> HIDE DEF q
    <2>3. p = q => Begins(p, t)
      BY <2>2 DEF Begins
    <2>4. Begins(p, t) => p = q
      BY <2>2, SeqEqual DEF Begins
    <2>5. QED BY <2>3, <2>4 DEF q
  <1>4. QED BY <1>2, <1>3 DEF StartsWith

\* A session, the separator and a key in one text, by their tokens.
Spells(t, r, z, m) ==
  /\ Len(r) \in Nat /\ Len(m) \in Nat /\ Len(t) = Len(r) + 1 + Len(m)
  /\ \A i \in 1 .. Len(r) : t[i] = r[i]
  /\ t[Len(r) + 1] = z
  /\ \A i \in 1 .. Len(m) : t[Len(r) + 1 + i] = m[i]

\* What follows a session and the separator.
LEMMA KeyInJoined ==
  ASSUME NEW S, NEW z \in S, NEW r \in Seq(S), NEW m \in Seq(S)
  PROVE  Joined(r, z, m) \in Seq(S) /\ Spells(Joined(r, z, m), r, z, m)
  <1> DEFINE j  == Joined(r, z, m)
             lr == Len(r)
             lm == Len(m)
             lj == Len(j)
             q  == SubSeq(j, lr + 2, lj)
  <1>1. /\ j \in Seq(S) /\ lj = lr + 1 + lm /\ j[lr + 1] = z /\ (\A i \in 1 .. lr : j[i] = r[i])
        /\ q = m
    <2>1. j \in Seq(S) /\ MadeOf(j, r, z, m)
      BY TakenApart
    <2> HIDE DEF j
    <2>2. QED BY <2>1 DEF MadeOf, Begins
  <1>2. lr \in Nat /\ lm \in Nat
    BY LenProperties
  <1>3. \A i \in 1 .. lj : j[i] \in S
    <2> HIDE DEF j
    <2>1. QED BY <1>1, ElementOfSeq
  <1> HIDE DEF j, lr, lj
  <1>4. \A i \in lr + 2 .. lj : j[i] \in S
    BY <1>1, <1>2, <1>3
  <1>5. lr + 2 \in Int /\ lj \in Int
    BY <1>1, <1>2
  <1>6. \A i \in 1 .. lj - (lr + 2) + 1 : q[i] = j[(lr + 2) + i - 1]
    BY <1>4, <1>5, SubSeqProperties
  <1> HIDE DEF q, lm
  <1>7. \A i \in 1 .. lm : i \in 1 .. lj - (lr + 2) + 1 /\ (lr + 2) + i - 1 = lr + 1 + i
    BY <1>1, <1>2
  <1>8. \A i \in 1 .. lm : j[lr + 1 + i] = m[i]
    BY <1>1, <1>6, <1>7
  <1>9. Spells(j, r, z, m)
    BY <1>1, <1>2, <1>8 DEF Spells, lr, lm, lj
  <1>10. QED BY <1>1, <1>9 DEF j

\* Text of known tokens.
LEMMA KnownTokens ==
  ASSUME NEW n \in Text, ToSet(n) \subseteq Tokens
  PROVE  n \in Seq(Tokens)
  <1>1. Len(n) \in Nat /\ n = [i \in 1 .. Len(n) |-> n[i]] /\ DOMAIN n = 1 .. Len(n)
    BY LenProperties DEF Text
  <1>2. \A i \in 1 .. Len(n) : n[i] \in Tokens
    BY <1>1 DEF ToSet
  <1>3. n \in [1 .. Len(n) -> Tokens]
    BY <1>1, <1>2
  <1>4. QED BY <1>1, <1>3

\* All that addresses are made of is known, and keys are not empty.
LEMMA AddressTokens ==
  ASSUME KeysApart, NEW a, IsAddress(a)
  PROVE  /\ a.key \in Seq(Tokens) /\ a.ses \in Seq(Tokens) /\ a.key # <<>>
         /\ Separator \in Tokens /\ Base(a) \in Seq(Tokens)
         /\ a.lang # NoLang => a.lang \in Tokens /\ a.lang \in Suffix /\ Width[a.lang] = 4
         /\ IsKey(KeyAt(a)) /\ KeyAt(a).typ = a.typ
         /\ KeyAt(a).text = IF a.lang # NoLang THEN Append(Base(a), a.lang) ELSE Base(a)
  <1>1. /\ {Separator, MenuTail, TextTail} \cup Lang \subseteq Tokens
        /\ \A n \in Session \cup Name : ToSet(n) \subseteq Tokens
        /\ Lang \subseteq Suffix /\ \A x \in Suffix \cap Tokens : Width[x] = 4
    BY DumpAssumption DEF Tokens
  <1>2. a.key \in KeyOf(a.typ) /\ a.ses \in Session \cup {<<>>} /\ a.lang \in Spoke
    BY DEF IsAddress
  <1>3. /\ a.typ \in Type /\ KeyAt(a) = [typ |-> a.typ,
                     text |-> IF a.lang # NoLang THEN Append(Base(a), a.lang) ELSE Base(a)]
    BY AddressParts
  <1>4. \A n \in Name : n \in Seq(Tokens) /\ n # <<>>
    BY <1>1, Texts, KnownTokens DEF KeysApart
  <1>5. a.ses \in Seq(Tokens)
    <2>1. CASE a.ses \in Session
      BY <1>1, <2>1, Texts, KnownTokens
    <2>2. CASE a.ses = <<>>
      BY <2>2, EmptySeq
    <2>3. QED BY <1>2, <2>1, <2>2
  <1>6. a.key \in Seq(Tokens) /\ a.key # <<>>
    <2>1. \A n \in Name, x \in Tokens : Append(n, x) \in Seq(Tokens) /\ Append(n, x) # <<>>
      BY <1>4, TextEnd
    <2>2. a.key \in Name \/ \E n \in Name : a.key = Append(n, MenuTail) \/ a.key = Append(n, TextTail)
      BY <1>2 DEF KeyOf
    <2>3. QED BY <1>1, <1>4, <2>1, <2>2
  <1>7. Base(a) \in Seq(Tokens)
    <2>1. Joined(a.ses, Separator, a.key) \in Seq(Tokens)
      BY <1>1, <1>5, <1>6, TakenApart
    <2>2. QED BY <1>6, <2>1 DEF Base
  <1>8. a.lang # NoLang => a.lang \in Lang
    BY <1>2 DEF Spoke
  <1>9. a.lang # NoLang => Append(Base(a), a.lang) \in Seq(Tokens)
    BY <1>1, <1>7, <1>8, TextEnd
  <1>10. IsKey(KeyAt(a))
    BY <1>3, <1>7, <1>9 DEF IsKey
  <1>11. QED BY <1>1, <1>3, <1>5, <1>6, <1>7, <1>8, <1>10

\* A token more is as many characters more as it has.
LEMMA CharactersOfMore ==
  ASSUME NEW s \in Seq(Tokens), NEW x \in Tokens
  PROVE  Characters(s) \in Nat /\ Characters(Append(s, x)) = Characters(s) + Width[x]
  <1> DEFINE n == Len(s)
             a == Append(s, x)
             f == [i \in 1 .. n |-> Width[s[i]]]
             g == [i \in 1 .. n + 1 |-> Width[a[i]]]
  <1>1. n \in Nat /\ DOMAIN s = 1 .. n
    BY LenProperties
  <1>2. /\ a \in Seq(Tokens) /\ Len(a) = n + 1 /\ a[n + 1] = x
        /\ \A i \in 1 .. n : a[i] = s[i]
    BY AppendProperties
  <1>3. DOMAIN a = 1 .. n + 1
    <2> HIDE DEF a
    <2>1. QED BY <1>2, LenProperties
  <1>4. Characters(s) = SumFunctionOnSet(f, 1 .. n)
    BY <1>1 DEF Characters, SumFunction
  <1>5. Characters(a) = SumFunctionOnSet(g, 1 .. n + 1)
    BY <1>3 DEF Characters, SumFunction
  <1> HIDE DEF a, n
  <1>6. \A i \in 1 .. n : s[i] \in Tokens
    BY <1>1, ElementOfSeq DEF n
  <1>7. \A y \in Tokens : Width[y] \in Nat
    BY DumpAssumption DEF Tokens
  <1>8. (\A i \in 1 .. n : f[i] \in Nat) /\ IsFiniteSet(1 .. n) /\ IsFiniteSet(1 .. n + 1)
    <2>1. \A i \in 1 .. n : f[i] = Width[s[i]]
      OBVIOUS
    <2>2. IsFiniteSet(1 .. n) /\ IsFiniteSet(1 .. n + 1)
      BY <1>1, FS_Interval
    <2> HIDE DEF f
    <2>3. QED BY <1>6, <1>7, <2>1, <2>2
  <1>9. /\ \A i \in 1 .. n : g[i] = f[i]
        /\ g[n + 1] = Width[x]
    <2>1. \A i \in 1 .. n : i \in 1 .. n + 1
      BY <1>1
    <2>2. n + 1 \in 1 .. n + 1
      BY <1>1
    <2>3. QED BY <1>2, <2>1, <2>2
  <1> HIDE DEF f, g
  <1>10. \A i \in 1 .. n + 1 : g[i] \in Nat
    <2>1. \A i \in 1 .. n + 1 : i \in 1 .. n \/ i = n + 1
      BY <1>1
    <2>2. QED BY <1>7, <1>8, <1>9, <2>1
  <1>11. (1 .. n + 1) \ {n + 1} = 1 .. n /\ n + 1 \in 1 .. n + 1
    BY <1>1
  <1>12. SumFunctionOnSet(g, 1 .. n + 1) = Width[x] + SumFunctionOnSet(g, 1 .. n)
    <2> DEFINE I == 1 .. n + 1
               J == 1 .. n
               z == n + 1
    <2>1. IsFiniteSet(I) /\ (\A i \in I : g[i] \in Nat) /\ z \in I /\ I \ {z} = J /\ g[z] = Width[x]
      BY <1>8, <1>9, <1>10, <1>11
    <2> HIDE DEF I, J, z
    <2>2. SumFunctionOnSet(g, I) = g[z] + SumFunctionOnSet(g, I \ {z})
      BY <2>1, SumOfRest
    <2>3. QED BY <2>1, <2>2 DEF I, J
  <1>13. SumFunctionOnSet(g, 1 .. n) = SumFunctionOnSet(f, 1 .. n)
    BY <1>8, <1>9, SumOfEqual
  <1>14. SumFunctionOnSet(f, 1 .. n) \in Nat
    BY <1>8, SumType
  <1>15. Width[x] \in Nat
    BY <1>7
  <1>16. QED BY <1>4, <1>5, <1>12, <1>13, <1>14, <1>15 DEF a

\* Taking a language off gives the key back where Decodes has it.
LEMMA KeyIsDecoded ==
  ASSUME KeysApart, NEW a, IsAddress(a), Decodes(a)
  PROVE  FromDbKey(KeyAt(a)) = Base(a)
  <1> DEFINE k == KeyAt(a)
  <1>1. /\ a.key \in Seq(Tokens) /\ Base(a) \in Seq(Tokens) /\ k.typ = a.typ
        /\ a.lang # NoLang => a.lang \in Tokens /\ a.lang \in Suffix /\ Width[a.lang] = 4
        /\ k.text = IF a.lang # NoLang THEN Append(Base(a), a.lang) ELSE Base(a)
    BY AddressTokens
  <1>2. /\ a.typ \in Type \ {DATATYPE_UNKNOWN} /\ (a.typ \notin Sessioned => a.ses = <<>>)
        /\ a.lang # NoLang => Translates(a.typ)
    BY AddressParts
  <1> HIDE DEF k
  <1>3. CASE ~Translates(a.typ)
    BY <1>1, <1>2, <1>3 DEF FromDbKey, k
  <1>4. CASE Translates(a.typ)
    <2>1. Base(a) = a.key
      BY <1>2, <1>4, TypeKinds DEF Base
    <2>2. CASE a.lang = NoLang
      <3>1. k.text = a.key /\ Last(a.key) \notin Suffix
        BY <1>1, <1>4, <2>1, <2>2 DEF Decodes
      <3>2. QED BY <2>1, <3>1 DEF FromDbKey, k
    <2>3. CASE a.lang # NoLang
      <3> DEFINE t == Append(a.key, a.lang)
      <3>1. k.text = t /\ a.lang \in Tokens /\ a.lang \in Suffix /\ Width[a.lang] = 4
        BY <1>1, <2>1, <2>3
      <3>2. Last(t) = a.lang
        BY <1>1, <3>1, TextEnd
      <3>3. Characters(t) > 6
        <4>1. Characters(t) = Characters(a.key) + 4
          BY <1>1, <3>1, CharactersOfMore
        <4>2. Characters(a.key) + 4 > 6
          BY <1>4, <2>3 DEF Decodes
        <4>3. QED BY <4>1, <4>2
      <3>4. Front(t) = a.key
        <4>1. /\ t \in Seq(Tokens) /\ Len(t) = Len(a.key) + 1 /\ Len(a.key) \in Nat
              /\ \A i \in 1 .. Len(a.key) : t[i] = a.key[i]
          BY <1>1, <3>1, TextEnd, LenProperties
        <4> DEFINE n == Len(a.key)
                   q == SubSeq(t, 1, n)
        <4> HIDE DEF t
        <4>2. n \in 0 .. Len(t) /\ Len(t) - 1 = n
          BY <4>1
        <4>3. q \in Seq(Tokens) /\ Len(q) = n /\ \A i \in 1 .. n : q[i] = t[i]
          <5> HIDE DEF n
          <5>1. QED BY <4>1, <4>2, StartOf
        <4> HIDE DEF q
        <4>4. q = a.key
          BY <1>1, <4>1, <4>3, SeqEqual
        <4>5. Front(t) = q
          BY <4>2 DEF Front, q
        <4>6. QED BY <4>4, <4>5
      <3> HIDE DEF t
      <3>5. QED BY <1>1, <1>4, <2>1, <3>1, <3>2, <3>3, <3>4 DEF FromDbKey, k
    <2>4. QED BY <2>2, <2>3
  <1>5. QED BY <1>3, <1>4

-----------------------------------------------------------------------------
(* Which files match.                                                      *)

\* A handle set to a type, and to a session exactly where the type has sessions.
SetTo(g, t, s) ==
  /\ t \in Type \ {DATATYPE_UNKNOWN} /\ s \in Session \cup {<<>>}
  /\ s # <<>> <=> t \in Sessioned
  /\ g.pfx = t /\ g.sid = Sid(s)

\* What is asked of it.
Asked(a, t, s, p) == a.typ = t /\ a.ses = s /\ IsPrefix(p, a.key)

\* The session and what a key is to begin with, as text.
Start(s, p) == IF s = <<>> THEN p ELSE Joined(s, Separator, p)

\* A session is free of the separator, and of known tokens.
LEMMA SessionTokens ==
  ASSUME KeysApart, NEW s \in Session \cup {<<>>}
  PROVE  s \in Seq(Tokens) /\ Plain(s) /\ Separator \in Tokens
  <1>1. CASE s \in Session
    <2>1. ToSet(s) \subseteq Tokens /\ s \in Text
      BY <1>1, Texts, DumpAssumption DEF Tokens
    <2>2. s \in Seq(Tokens)
      BY <2>1, KnownTokens
    <2>3. Plain(s)
      BY <1>1 DEF KeysApart, Plain, Free
    <2>4. QED BY <2>2, <2>3, DumpAssumption DEF Tokens
  <1>2. CASE s = <<>>
    <2>1. Plain(s)
      BY <1>2 DEF Plain, Free
    <2>2. QED BY <1>2, <2>1, EmptySeq, DumpAssumption DEF Tokens
  <1>3. QED BY <1>1, <1>2

\* Of the entries of a type with sessions, those that begin with a session and the
\* separator are of that session.
LEMMA BeginsWithSession ==
  ASSUME KeysApart, NEW a, IsAddress(a), a.typ \in Sessioned,
         NEW s \in Session, s # <<>>,
         Len(s) + 1 <= Len(Base(a)), Base(a)[Len(s) + 1] = Separator, Begins(s, Base(a))
  PROVE  a.ses = s
  <1>1. /\ a.key \in Seq(Tokens) /\ a.ses \in Seq(Tokens) /\ Separator \in Tokens
    BY AddressTokens
  <1>2. Plain(a.ses) /\ Plain(a.key)
    BY AddressParts
  <1>3. s \in Seq(Tokens) /\ Plain(s)
    BY SessionTokens
  <1>4. a.ses # <<>>
    <2>1. ASSUME a.ses = <<>> PROVE FALSE
      <3>1. Base(a) = a.key
        BY <2>1 DEF Base
      <3>2. Len(s) \in Nat /\ Len(a.key) \in Nat /\ DOMAIN a.key = 1 .. Len(a.key)
        BY <1>1, <1>3, LenProperties
      <3>3. Len(s) + 1 \in DOMAIN a.key /\ a.key[Len(s) + 1] = Separator
        BY <3>1, <3>2
      <3>4. QED BY <1>2, <3>3 DEF Plain, Free
    <2>2. QED BY <2>1
  <1>5. Base(a) = Joined(a.ses, Separator, a.key)
    BY <1>4 DEF Base
  <1>6. QED BY <1>1, <1>2, <1>3, <1>5, OneOwner DEF Plain

\* An entry that is asked for decodes to its key.
LEMMA SessionTakenOff ==
  ASSUME KeysApart, NEW g, NEW t, NEW s, SetTo(g, t, s),
         NEW a, IsAddress(a), a.typ = t
  PROVE  /\ a.ses = s => FromSessionKey(g, Base(a)) = a.key
         /\ s = <<>> => a.ses = <<>> /\ \A x \in Seq(Tokens) : FromSessionKey(g, x) = x
         /\ s # <<>> /\ FromSessionKey(g, Base(a)) # NoEntry => a.ses = s
  <1>1. /\ a.key \in Seq(Tokens) /\ Separator \in Tokens /\ Base(a) \in Seq(Tokens)
    BY AddressTokens
  <1>2. s \in Seq(Tokens) /\ s \in Session \cup {<<>>} /\ g.sid = Sid(s)
        /\ (s # <<>> <=> t \in Sessioned)
    BY SessionTokens DEF SetTo
  <1>3. CASE s = <<>>
    <2>1. a.ses = <<>> /\ Base(a) = a.key
      BY <1>2, <1>3, AddressParts DEF Base
    <2>2. ASSUME NEW x \in Seq(Tokens) PROVE FromSessionKey(g, x) = x
      <3>1. g.sid = <<>> /\ Len(<<>>) = 0
        BY <1>2, <1>3 DEF Sid
      <3>2. IsPrefix(g.sid, x)
        <4>1. StartsWith(<<>>, x)
          BY LenProperties DEF StartsWith, Begins
        <4>2. QED BY <3>1, <4>1, EmptySeq, PrefixMeans
      <3>3. Len(g.sid) + 1 = 1 /\ SubSeq(x, 1, Len(x)) = x
        BY <3>1, SubSeqFull
      <3>4. QED BY <3>2, <3>3 DEF FromSessionKey
    <2>3. QED BY <1>1, <1>3, <2>1, <2>2
  <1>4. CASE s # <<>>
    <2> DEFINE sid == Append(s, Separator)
               j == Base(a)
    <2>1. /\ g.sid = sid /\ sid \in Seq(Tokens) /\ Len(sid) = Len(s) + 1 /\ Len(s) \in Nat
          /\ sid[Len(s) + 1] = Separator /\ \A i \in 1 .. Len(s) : sid[i] = s[i]
      BY <1>1, <1>2, <1>4, AppendProperties, LenProperties DEF Sid
    <2> HIDE DEF sid
    <2>2. j \in Seq(Tokens)
      BY <1>1
    <2>3. IsPrefix(sid, j) <=> StartsWith(sid, j)
      BY <2>1, <2>2, PrefixMeans
    <2>4. StartsWith(sid, j) <=> /\ Len(s) + 1 <= Len(j) /\ j[Len(s) + 1] = Separator
                                 /\ Begins(s, j)
      <3> HIDE DEF j
      <3>1. \A i : i \in 1 .. Len(s) + 1 <=> i \in 1 .. Len(s) \/ i = Len(s) + 1
        BY <2>1
      <3>2. QED BY <2>1, <3>1 DEF StartsWith, Begins
    <2>5. ASSUME a.ses = s PROVE FromSessionKey(g, j) = a.key
      <3>1. j = Joined(s, Separator, a.key)
        BY <1>4, <2>5 DEF Base
      <3>2. MadeOf(j, s, Separator, a.key)
        BY <1>1, <1>2, <3>1, TakenApart
      <3>3. Len(a.key) \in Nat
        BY <1>1, LenProperties
      <3> HIDE DEF j
      <3> DEFINE n  == Len(s)
                 lj == Len(j)
                 lk == Len(a.key)
      <3>4. lj = n + 1 + lk /\ j[n + 1] = Separator /\ Begins(s, j)
        BY ONLY <3>2 DEF MadeOf
      <3>5. SubSeq(j, n + 2, Len(j)) = a.key
        BY ONLY <3>2 DEF MadeOf
      <3>6. n \in Nat /\ lk \in Nat
        BY <2>1, <3>3
      <3>7. n + 1 <= lj /\ n + 1 + 1 = n + 2
        <4> HIDE DEF n, lj, lk
        <4>1. QED BY <3>4, <3>6
      <3>8. IsPrefix(sid, j)
        BY <2>3, <2>4, <3>4, <3>7
      <3>9. SubSeq(j, n + 2, Len(j)) = a.key /\ n + 1 + 1 = n + 2
        BY <3>5, <3>7
      <3>10. FromSessionKey(g, j) = SubSeq(j, Len(s) + 1 + 1, Len(j))
        BY <2>1, <3>8 DEF FromSessionKey
      <3>11. QED BY <3>9, <3>10
    <2>6. ASSUME FromSessionKey(g, j) # NoEntry PROVE a.ses = s
      <3>1. IsPrefix(sid, j)
        BY <2>1, <2>6 DEF FromSessionKey
      <3>2. Len(s) + 1 <= Len(j) /\ j[Len(s) + 1] = Separator /\ Begins(s, j)
        BY <2>3, <2>4, <3>1
      <3>3. QED BY <1>2, <1>4, <3>2, BeginsWithSession
    <2>7. QED BY <1>4, <2>5, <2>6
  <1>5. QED BY <1>3, <1>4

\* What is asked for is found under its key.
LEMMA AskedIsDecoded ==
  ASSUME KeysApart, NEW g, NEW t, NEW s, SetTo(g, t, s), NEW p,
         NEW a, IsAddress(a), Decodes(a), Asked(a, t, s, p)
  PROVE  DecodeKey(g, KeyAt(a)) = a.key /\ Matches(g, p, KeyAt(a))
  <1>1. a.typ = t /\ a.ses = s /\ IsPrefix(p, a.key)
    BY DEF Asked
  <1>2. DecodeKey(g, KeyAt(a)) = a.key
    BY <1>1, KeyIsDecoded, SessionTakenOff DEF DecodeKey
  <1>3. a.key # NoEntry
    BY AddressParts DEF KeysApart
  <1>4. KeyAt(a).typ = t /\ g.pfx = t
    BY <1>1, AddressTokens DEF SetTo
  <1>5. QED BY <1>1, <1>2, <1>3, <1>4 DEF Matches

\* What decoding leaves of a key begins alike.
LEMMA DecodedBeginsAlike ==
  ASSUME NEW k, IsKey(k), NEW p \in Seq(Tokens), Len(p) <= 1,
         StartsWith(p, FromDbKey(k))
  PROVE  FromDbKey(k) \in Seq(Tokens) /\ StartsWith(p, k.text)
  <1> DEFINE t == k.text
             n == Len(t)
  <1>1. t \in Seq(Tokens) /\ n \in Nat /\ Len(p) \in Nat
    BY LenProperties DEF IsKey
  <1>2. CASE FromDbKey(k) = t
    BY <1>1, <1>2
  <1>3. CASE FromDbKey(k) # t
    <2>1. FromDbKey(k) = SubSeq(t, 1, n - 1) /\ Characters(t) > 6
      BY <1>3 DEF FromDbKey, Front
    <2> HIDE DEF t
    <2>2. CASE n = 0
      <3>1. t = <<>>
        BY <1>1, <2>2, EmptySeq
      <3>2. SubSeq(t, 1, n - 1) = <<>>
        BY <2>2, <3>1
      <3>3. QED BY <1>1, <1>3, <2>1, <3>1, <3>2
    <2>3. CASE n # 0
      <3> DEFINE m == n - 1
                 q == SubSeq(t, 1, m)
      <3>1. m \in 0 .. n
        BY <1>1, <2>3
      <3>2. q \in Seq(Tokens) /\ Len(q) = m /\ \A i \in 1 .. m : q[i] = t[i]
        <4> HIDE DEF m
        <4>1. QED BY <1>1, <3>1, StartOf
      <3>3. FromDbKey(k) = q
        BY <2>1
      <3> HIDE DEF q, m, n
      <3>4. Len(p) <= m /\ \A i \in 1 .. Len(p) : i \in 1 .. m /\ q[i] = p[i]
        BY <1>1, <3>1, <3>2, <3>3 DEF StartsWith, Begins
      <3>5. Len(p) <= n /\ \A i \in 1 .. Len(p) : t[i] = p[i]
        BY <1>1, <3>1, <3>2, <3>4
      <3>6. QED BY <3>2, <3>3, <3>5 DEF StartsWith, Begins, n, t
    <2>4. QED BY <2>2, <2>3
  <1>4. QED BY <1>2, <1>3

\* A key that is not empty begins, with a language or without, as it is asked for.
LEMMA LanguageAtEnd ==
  ASSUME NEW m \in Seq(Tokens), m # <<>>, NEW x \in Tokens, NEW p \in Seq(Tokens), Len(p) <= 1
  PROVE  StartsWith(p, Append(m, x)) <=> StartsWith(p, m)
  <1> DEFINE a == Append(m, x)
             n == Len(m)
             l == Len(p)
  <1>1. n \in Nat /\ n # 0 /\ l \in Nat /\ l <= 1
    BY LenProperties, EmptySeq
  <1>2. Len(a) = n + 1 /\ \A i \in 1 .. n : a[i] = m[i]
    BY AppendProperties
  <1> HIDE DEF a, n, l
  <1>3. l <= n /\ l <= n + 1 /\ \A i \in 1 .. l : i \in 1 .. n
    BY <1>1
  <1>4. QED BY <1>2, <1>3 DEF StartsWith, Begins, a, n, l

\* Nothing else matches.
LEMMA MatchIsAsked ==
  ASSUME KeysApart, NEW g, NEW t, NEW s, SetTo(g, t, s),
         NEW p \in Seq(Tokens), Len(p) <= 1,
         NEW a, IsAddress(a), Matches(g, p, KeyAt(a))
  PROVE  Asked(a, t, s, p)
  <1> DEFINE k == KeyAt(a)
  <1>1. /\ a.key \in Seq(Tokens) /\ a.key # <<>> /\ Base(a) \in Seq(Tokens)
        /\ a.lang # NoLang => a.lang \in Tokens
        /\ IsKey(k) /\ k.typ = a.typ
        /\ k.text = IF a.lang # NoLang THEN Append(Base(a), a.lang) ELSE Base(a)
    BY AddressTokens
  <1>2. /\ a.typ \in Type \ {DATATYPE_UNKNOWN} /\ (a.lang # NoLang => Translates(a.typ))
    BY AddressParts
  <1>3. a.typ = t /\ DecodeKey(g, k) # NoEntry /\ IsPrefix(p, DecodeKey(g, k))
    BY <1>1 DEF Matches, SetTo
  <1>4. (s # <<>> <=> t \in Sessioned)
    BY DEF SetTo
  <1> HIDE DEF k
  <1>5. CASE s # <<>>
    <2>1. ~Translates(a.typ)
      BY <1>2, <1>3, <1>4, <1>5, TypeKinds
    <2>2. FromDbKey(k) = Base(a)
      BY <1>1, <1>2, <2>1 DEF FromDbKey
    <2>3. a.ses = s
      BY <1>3, <1>5, <2>2, SessionTakenOff DEF DecodeKey
    <2>4. DecodeKey(g, k) = a.key
      BY <1>3, <2>2, <2>3, SessionTakenOff DEF DecodeKey
    <2>5. QED BY <1>3, <2>3, <2>4 DEF Asked
  <1>6. CASE s = <<>>
    <2>1. a.ses = <<>> /\ \A x \in Seq(Tokens) : FromSessionKey(g, x) = x
      BY <1>3, <1>6, SessionTakenOff
    <2>2. Base(a) = a.key
      BY <2>1 DEF Base
    <2> DEFINE f == FromDbKey(k)
    <2>3. f \in Seq(Tokens)
      <3>1. f = k.text \/ f = SubSeq(k.text, 1, Len(k.text) - 1)
        BY DEF FromDbKey, Front
      <3>2. k.text \in Seq(Tokens) /\ Len(k.text) \in Nat
        BY <1>1, LenProperties DEF IsKey
      <3>3. k.text # <<>>
        BY <1>1, <2>2, TextEnd
      <3> DEFINE n == Len(k.text) - 1
      <3>4. n \in 0 .. Len(k.text)
        BY <3>2, <3>3, EmptySeq
      <3> HIDE DEF n, f
      <3>5. SubSeq(k.text, 1, n) \in Seq(Tokens)
        BY <3>2, <3>4, StartOf
      <3>6. QED BY <3>1, <3>2, <3>5 DEF n
    <2>4. DecodeKey(g, k) = f
      BY <2>1, <2>3 DEF DecodeKey
    <2>5. StartsWith(p, f)
      BY <1>3, <2>3, <2>4, PrefixMeans
    <2>6. StartsWith(p, k.text)
      BY <1>1, <2>5, DecodedBeginsAlike
    <2>7. StartsWith(p, a.key)
      BY <1>1, <2>2, <2>6, LanguageAtEnd
    <2>8. IsPrefix(p, a.key)
      BY <1>1, <2>7, PrefixMeans
    <2>9. QED BY <1>3, <1>6, <2>1, <2>8 DEF Asked
  <1>7. QED BY <1>5, <1>6

-----------------------------------------------------------------------------
(* What is asked for lies together.                                        *)

\* Text between two that begin alike begins like them.
LEMMA BetweenBeginsAlike ==
  ASSUME NEW p \in Seq(Tokens), NEW x \in Seq(Tokens), NEW y \in Seq(Tokens), NEW z \in Seq(Tokens),
         StartsWith(p, x), StartsWith(p, z), TextBefore(x, y), TextBefore(y, z)
  PROVE  StartsWith(p, y)
  <1> DEFINE lp == Len(p)
             lx == Len(x)
             ly == Len(y)
             lz == Len(z)
  <1>1. lp \in Nat /\ lx \in Nat /\ ly \in Nat /\ lz \in Nat
    BY LenProperties
  <1>2. /\ lp <= lx /\ \A i \in 1 .. lp : x[i] = p[i]
        /\ lp <= lz /\ \A i \in 1 .. lp : z[i] = p[i]
    BY DEF StartsWith, Begins
  <1>3. PICK i \in 1 .. ly : /\ i <= lx + 1 /\ \A n \in 1 .. i - 1 : x[n] = y[n]
                             /\ i <= lx => Rank[x[i]] < Rank[y[i]]
    BY DEF TextBefore
  <1>4. PICK j \in 1 .. lz : /\ j <= ly + 1 /\ \A n \in 1 .. j - 1 : y[n] = z[n]
                             /\ j <= ly => Rank[y[j]] < Rank[z[j]]
    BY DEF TextBefore
  <1>5. \A n \in 1 .. lx : Rank[x[n]] \in Nat
    BY ElementOfSeq, DumpAssumption DEF Tokens
  <1>6. \A n \in 1 .. ly : Rank[y[n]] \in Nat
    BY ElementOfSeq, DumpAssumption DEF Tokens
  <1>7. StartsWith(p, y) <=> lp <= ly /\ \A n \in 1 .. lp : y[n] = p[n]
    BY DEF StartsWith, Begins
  <1> HIDE DEF lp, lx, ly, lz
  <1>8. CASE lp < i
    <2>1. lp <= ly /\ \A n \in 1 .. lp : n \in 1 .. i - 1
      BY <1>1, <1>3, <1>8
    <2>2. QED BY <1>2, <1>3, <1>7, <2>1
  <1>9. CASE lp < j
    <2>1. lp <= ly /\ \A n \in 1 .. lp : n \in 1 .. j - 1
      BY <1>1, <1>4, <1>9
    <2>2. QED BY <1>2, <1>4, <1>7, <2>1
  <1>10. CASE i <= lp /\ j <= lp
    <2>1. /\ i \in 1 .. lp /\ j \in 1 .. lp /\ i \in 1 .. lx /\ j \in 1 .. lx /\ i \in 1 .. ly
      BY <1>1, <1>2, <1>3, <1>4, <1>10
    <2>2. x[i] = z[i] /\ x[j] = z[j] /\ Rank[x[i]] < Rank[y[i]]
      BY <1>2, <1>3, <2>1
    <2>3. CASE i < j
      <3>1. y[i] = z[i]
        <4>1. i \in 1 .. j - 1
          BY <1>3, <1>4, <2>3
        <4>2. QED BY <1>4, <4>1
      <3>2. QED BY <1>5, <2>1, <2>2, <3>1
    <2>4. CASE i = j
      <3>1. Rank[y[i]] < Rank[x[i]]
        BY <1>4, <2>1, <2>2, <2>4
      <3>2. Rank[x[i]] \in Nat /\ Rank[y[i]] \in Nat
        BY <1>5, <1>6, <2>1
      <3>3. QED BY <2>2, <3>1, <3>2
    <2>5. CASE j < i
      <3>1. x[j] = y[j] /\ j \in 1 .. ly
        <4>1. j \in 1 .. i - 1 /\ j \in 1 .. ly
          BY <1>1, <2>1, <2>5
        <4>2. QED BY <1>3, <4>1
      <3>2. Rank[y[j]] < Rank[z[j]]
        BY <1>4, <3>1
      <3>3. QED BY <1>5, <2>1, <2>2, <3>1, <3>2
    <2>6. QED BY <2>1, <2>3, <2>4, <2>5
  <1>11. QED BY <1>1, <1>3, <1>4, <1>8, <1>9, <1>10

\* What is asked for is what begins with the session and the prefix.
LEMMA AskedStarts ==
  ASSUME KeysApart, NEW g, NEW t, NEW s, SetTo(g, t, s),
         NEW p \in Seq(Tokens), Len(p) <= 1, NEW a, IsAddress(a), a.typ = t
  PROVE  /\ Start(s, p) \in Seq(Tokens)
         /\ Asked(a, t, s, p) <=> StartsWith(Start(s, p), KeyAt(a).text)
  <1>1. /\ a.key \in Seq(Tokens) /\ a.ses \in Seq(Tokens) /\ a.key # <<>> /\ Separator \in Tokens
        /\ Base(a) \in Seq(Tokens)
        /\ a.lang # NoLang => a.lang \in Tokens
        /\ KeyAt(a).text = IF a.lang # NoLang THEN Append(Base(a), a.lang) ELSE Base(a)
    BY AddressTokens
  <1>2. /\ t \in Type \ {DATATYPE_UNKNOWN} /\ s \in Seq(Tokens) /\ s \in Session \cup {<<>>}
        /\ (s # <<>> <=> t \in Sessioned)
    BY SessionTokens DEF SetTo
  <1>3. (a.lang # NoLang => Translates(t)) /\ (t \notin Sessioned => a.ses = <<>>)
    BY AddressParts
  <1>4. Asked(a, t, s, p) <=> a.ses = s /\ StartsWith(p, a.key)
    BY <1>1, PrefixMeans DEF Asked
  <1>5. CASE s = <<>>
    <2>1. a.ses = <<>> /\ Base(a) = a.key
      BY <1>2, <1>3, <1>5 DEF Base
    <2>2. StartsWith(p, KeyAt(a).text) <=> StartsWith(p, a.key)
      <3>1. a.lang # NoLang => (StartsWith(p, Append(a.key, a.lang)) <=> StartsWith(p, a.key))
        BY <1>1, LanguageAtEnd
      <3>2. QED BY <1>1, <2>1, <3>1
    <2>3. QED BY <1>4, <1>5, <2>1, <2>2 DEF Start
  <1>6. CASE s # <<>>
    <2> DEFINE x == KeyAt(a).text
               y == Joined(s, Separator, p)
               ls == Len(s)
               lp == Len(p)
               lk == Len(a.key)
    <2>1. x = Base(a) /\ Start(s, p) = y
      BY <1>1, <1>2, <1>3, <1>6, TypeKinds DEF Start
    <2>2. /\ ls \in Nat /\ lp \in Nat /\ y \in Seq(Tokens) /\ Len(y) = ls + 1 + lp
          /\ \A i \in 1 .. ls : y[i] = s[i]
          /\ y[ls + 1] = Separator
          /\ \A i \in 1 .. lp : y[ls + 1 + i] = p[i]
      <3>1. y \in Seq(Tokens) /\ Spells(y, s, Separator, p)
        BY <1>1, <1>2, KeyInJoined
      <3> HIDE DEF y
      <3>2. QED BY <3>1 DEF Spells
    <2>3. ASSUME a.ses = s
          PROVE  /\ lk \in Nat /\ Len(x) = ls + 1 + lk
                 /\ \A i \in 1 .. ls : x[i] = s[i]
                 /\ x[ls + 1] = Separator
                 /\ \A i \in 1 .. lk : x[ls + 1 + i] = a.key[i]
      <3> DEFINE w == Joined(s, Separator, a.key)
      <3>1. x = w
        BY <1>6, <2>1, <2>3 DEF Base
      <3>2. /\ lk \in Nat /\ Len(w) = ls + 1 + lk
            /\ \A i \in 1 .. ls : w[i] = s[i]
            /\ w[ls + 1] = Separator
            /\ \A i \in 1 .. lk : w[ls + 1 + i] = a.key[i]
        <4>1. Spells(w, s, Separator, a.key)
          BY <1>1, <1>2, KeyInJoined
        <4> HIDE DEF w
        <4>2. QED BY <4>1 DEF Spells
      <3> HIDE DEF w, x
      <3>3. QED BY <3>1, <3>2
    <2> HIDE DEF x, y
    <2>4. ASSUME a.ses = s, StartsWith(p, a.key) PROVE StartsWith(y, x)
      <3>1. lp <= lk /\ \A i \in 1 .. lp : a.key[i] = p[i]
        BY <2>4 DEF StartsWith, Begins
      <3>2. /\ lk \in Nat /\ Len(x) = ls + 1 + lk
            /\ \A i \in 1 .. ls : x[i] = s[i]
            /\ x[ls + 1] = Separator
            /\ \A i \in 1 .. lk : x[ls + 1 + i] = a.key[i]
        BY <2>3, <2>4
      <3> HIDE DEF ls, lp, lk
      <3>3. ASSUME NEW i \in 1 .. ls + 1 + lp PROVE x[i] = y[i]
        <4>1. CASE i \in 1 .. ls
          BY <2>2, <3>2, <4>1
        <4>2. CASE i = ls + 1
          BY <2>2, <3>2, <4>2
        <4>3. CASE i \notin 1 .. ls /\ i # ls + 1
          <5> DEFINE n == i - (ls + 1)
          <5>1. n \in 1 .. lp /\ n \in 1 .. lk /\ ls + 1 + n = i
            BY <2>2, <3>1, <3>2, <3>3, <4>3
          <5> HIDE DEF n
          <5>2. QED BY <2>2, <3>1, <3>2, <5>1
        <4>4. QED BY <4>1, <4>2, <4>3
      <3>4. ls + 1 + lp <= ls + 1 + lk
        BY <2>2, <3>1, <3>2
      <3>5. QED BY <2>2, <3>2, <3>3, <3>4 DEF StartsWith, Begins
    <2>5. ASSUME StartsWith(y, x) PROVE a.ses = s /\ StartsWith(p, a.key)
      <3>1. ls + 1 + lp <= Len(x) /\ \A i \in 1 .. ls + 1 + lp : x[i] = y[i]
        BY <2>2, <2>5 DEF StartsWith, Begins
      <3>2. Len(x) \in Nat
        BY <1>1, <2>1, LenProperties
      <3>3. /\ ls + 1 <= Len(x) /\ x[ls + 1] = Separator /\ \A i \in 1 .. ls : x[i] = s[i]
        <4> DEFINE lx == Len(x)
        <4> HIDE DEF ls, lp, lx
        <4>1. ls + 1 \in 1 .. ls + 1 + lp /\ \A i \in 1 .. ls : i \in 1 .. ls + 1 + lp
          BY <2>2
        <4>2. ls + 1 <= lx
          BY <2>2, <3>1, <3>2 DEF lx
        <4>3. QED BY <2>2, <3>1, <4>1, <4>2 DEF lx
      <3>4. a.ses = s
        BY <1>2, <1>6, <2>1, <3>3, BeginsWithSession DEF Begins
      <3>5. lk \in Nat /\ Len(x) = ls + 1 + lk /\ \A i \in 1 .. lk : x[ls + 1 + i] = a.key[i]
        BY <2>3, <3>4
      <3>6. lp <= lk /\ \A i \in 1 .. lp : a.key[i] = p[i]
        <4> HIDE DEF ls, lp, lk
        <4>1. lp <= lk
          BY <2>2, <3>1, <3>5
        <4>2. \A i \in 1 .. lp : i \in 1 .. lk /\ ls + 1 + i \in 1 .. ls + 1 + lp
          BY <2>2, <3>5, <4>1
        <4>3. QED BY <2>2, <3>1, <3>5, <4>1, <4>2
      <3>7. QED BY <3>4, <3>6 DEF StartsWith, Begins
    <2>6. QED BY <1>4, <2>1, <2>2, <2>4, <2>5 DEF x
  <1>7. QED BY <1>5, <1>6 DEF Start

\* Of two keys of one session, the order is that of the keys without it.
LEMMA OrderOfKeys ==
  ASSUME NEW s \in Seq(Tokens), NEW z \in Tokens, NEW m \in Seq(Tokens), NEW k \in Seq(Tokens),
         TextBefore(Joined(s, z, m), Joined(s, z, k))
  PROVE  TextBefore(m, k)
  <1> DEFINE x == Joined(s, z, m)
             y == Joined(s, z, k)
             ls == Len(s)
             lm == Len(m)
             lk == Len(k)
  <1>0. x \in Seq(Tokens) /\ Spells(x, s, z, m) /\ Spells(y, s, z, k)
    BY KeyInJoined
  <1>3. TextBefore(x, y)
    OBVIOUS
  <1> HIDE DEF x, y
  <1>1. /\ ls \in Nat /\ lm \in Nat /\ Len(x) = ls + 1 + lm /\ x \in Seq(Tokens)
        /\ \A i \in 1 .. ls : x[i] = s[i]
        /\ x[ls + 1] = z
        /\ \A i \in 1 .. lm : x[ls + 1 + i] = m[i]
    BY <1>0 DEF Spells
  <1>2. /\ lk \in Nat /\ Len(y) = ls + 1 + lk
        /\ \A i \in 1 .. ls : y[i] = s[i]
        /\ y[ls + 1] = z
        /\ \A i \in 1 .. lk : y[ls + 1 + i] = k[i]
    BY <1>0 DEF Spells
  <1>4. PICK i \in 1 .. Len(y) : /\ i <= Len(x) + 1 /\ \A n \in 1 .. i - 1 : x[n] = y[n]
                                 /\ i <= Len(x) => Rank[x[i]] < Rank[y[i]]
    BY <1>3 DEF TextBefore
  <1>5. \A n \in 1 .. Len(x) : Rank[x[n]] \in Nat
    BY <1>1, ElementOfSeq, DumpAssumption DEF Tokens
  <1>6. TextBefore(m, k) <=> \E n \in 1 .. lk : /\ n <= lm + 1 /\ \A j \in 1 .. n - 1 : m[j] = k[j]
                                                /\ n <= lm => Rank[m[n]] < Rank[k[n]]
    BY DEF TextBefore
  <1> HIDE DEF ls, lm, lk
  <1>7. ~(i <= ls + 1)
    <2>1. ASSUME i <= ls + 1 PROVE FALSE
      <3>1. i <= Len(x) /\ i \in 1 .. Len(x) /\ (i \in 1 .. ls \/ i = ls + 1)
        BY <1>1, <1>2, <1>4, <2>1
      <3>2. x[i] = y[i]
        BY <1>1, <1>2, <3>1
      <3>3. QED BY <1>4, <1>5, <3>1, <3>2
    <2>2. QED BY <2>1
  <1> DEFINE n == i - (ls + 1)
  <1>8. n \in 1 .. lk /\ n <= lm + 1 /\ ls + 1 + n = i
    BY <1>1, <1>2, <1>4, <1>7
  <1> HIDE DEF n
  <1>9. ASSUME NEW j \in 1 .. n - 1 PROVE m[j] = k[j]
    <2>1. ls + 1 + j \in 1 .. i - 1 /\ j \in 1 .. lm /\ j \in 1 .. lk
      BY <1>1, <1>2, <1>8, <1>9
    <2>2. QED BY <1>1, <1>2, <1>4, <2>1
  <1>10. ASSUME n <= lm PROVE Rank[m[n]] < Rank[k[n]]
    <2>1. n \in 1 .. lm /\ i <= Len(x)
      BY <1>1, <1>8, <1>10
    <2>2. x[i] = m[n] /\ y[i] = k[n]
      BY <1>1, <1>2, <1>8, <2>1
    <2>3. QED BY <1>4, <2>1, <2>2
  <1>11. QED BY <1>6, <1>8, <1>9, <1>10

\* All files have keys of known tokens.
LEMMA FilesAreKeys == ASSUME KeysApart, Placed PROVE \A k \in DOMAIN kv : IsKey(k)
  BY AddressTokens DEF Placed

\* What matches lies together where all that is asked for decodes.
LEMMA MatchesTogether ==
  ASSUME KeysApart, Placed, NEW g, NEW t, NEW s, SetTo(g, t, s),
         NEW p \in Seq(Tokens), Len(p) <= 1,
         \A a \in DOMAIN wrote : Asked(a, t, s, p) => Decodes(a)
  PROVE  Together(g, p)
  <1> SUFFICES ASSUME NEW k \in DOMAIN kv, NEW m \in DOMAIN kv, NEW n \in DOMAIN kv,
                      Before(k, m), Before(m, n), Matches(g, p, k), Matches(g, p, n)
               PROVE  Matches(g, p, m)
    BY DEF Together
  <1>1. PICK a \in DOMAIN wrote : k = KeyAt(a)
    BY DEF Placed
  <1>2. PICK b \in DOMAIN wrote : m = KeyAt(b)
    BY DEF Placed
  <1>3. PICK c \in DOMAIN wrote : n = KeyAt(c)
    BY DEF Placed
  <1>4. IsAddress(a) /\ IsAddress(b) /\ IsAddress(c)
    BY DEF Placed
  <1>5. Asked(a, t, s, p) /\ Asked(c, t, s, p)
    BY <1>1, <1>3, <1>4, MatchIsAsked
  <1>6. IsKey(k) /\ IsKey(m) /\ IsKey(n) /\ k.typ = t /\ n.typ = t /\ m.typ = b.typ
    BY <1>1, <1>2, <1>3, <1>4, <1>5, AddressTokens DEF Asked
  <1>7. m.typ = t /\ TextBefore(k.text, m.text) /\ TextBefore(m.text, n.text)
    <2>1. k.typ \in Nat /\ m.typ \in Nat
      BY <1>6 DEF IsKey, Type, SafeLock, DATATYPE_UNKNOWN, DATATYPE_BIN, DATATYPE_MENU,
                  DATATYPE_TEMPLATE, DATATYPE_STATICLOAD, DATATYPE_STATE, DATATYPE_USERDATA
    <2>2. QED BY <1>6, <2>1 DEF Before
  <1>8. /\ Start(s, p) \in Seq(Tokens)
        /\ StartsWith(Start(s, p), k.text) /\ StartsWith(Start(s, p), n.text)
    BY <1>1, <1>3, <1>4, <1>5, AskedStarts DEF Asked
  <1>9. StartsWith(Start(s, p), m.text)
    BY <1>6, <1>7, <1>8, BetweenBeginsAlike DEF IsKey
  <1>10. Asked(b, t, s, p)
    BY <1>2, <1>4, <1>6, <1>7, <1>9, AskedStarts
  <1>11. QED BY <1>2, <1>4, <1>10, AskedIsDecoded

-----------------------------------------------------------------------------
(* Dumps.                                                                  *)

\* Prefixes asked for are of known tokens, and short.
LEMMA PrefixAskedFor ==
  ASSUME KeysApart, NEW n \in Name, NEW i \in 0 .. 1
  PROVE  SubSeq(n, 1, i) \in Seq(Tokens) /\ Len(SubSeq(n, 1, i)) <= 1
  <1>1. n \in Text /\ n # <<>> /\ ToSet(n) \subseteq Tokens
    BY Texts, DumpAssumption DEF KeysApart, Tokens
  <1>2. n \in Seq(Tokens) /\ Len(n) \in Nat /\ Len(n) # 0
    BY <1>1, KnownTokens, LenProperties, EmptySeq
  <1>3. i \in 0 .. Len(n)
    BY <1>2
  <1>4. QED BY <1>2, <1>3, StartOf

\* What Next has for an entry that is asked for: its key and its value.
LEMMA AskedIsRead ==
  ASSUME KeysApart, SIInv, Placed, h = NewHandle("fs"),
         NEW t, NEW s, NEW g, g = WithSession(WithPrefix(h, t), s), SetTo(g, t, s),
         NEW l \in Spoke, NEW p, NEW a \in DOMAIN wrote, Asked(a, t, s, p), Decodes(a),
         Meant(t, s, a.key, l) # NoEntry, Own(t, a.key, l)
  PROVE  /\ Matches(g, p, KeyAt(a)) /\ Readable(g, p, l, KeyAt(a))
         /\ Element(g, l, KeyAt(a)) = <<a.key, Meant(t, s, a.key, l)>>
  <1>1. IsAddress(a)
    BY DEF Placed
  <1>2. DecodeKey(g, KeyAt(a)) = a.key /\ Matches(g, p, KeyAt(a))
    BY <1>1, AskedIsDecoded
  <1>3. Given(l) = l
    BY DEF Given, NewHandle
  <1>4. /\ t \in Type \ {DATATYPE_UNKNOWN} /\ s \in Session \cup {<<>>}
        /\ g.pfx = t /\ g.sid = Sid(s)
    BY DEF SetTo
  <1>5. g.kind = h.kind /\ g.lang = h.lang
    BY DEF WithSession, WithPrefix, NewHandle
  <1>6. a.key \in KeyOf(t)
    BY <1>1 DEF IsAddress, Asked
  <1>7. Get(g, a.key, l) = Meant(t, s, a.key, l)
    BY <1>3, <1>4, <1>5, <1>6, GetAnswersFor
  <1>8. QED BY <1>2, <1>7 DEF Readable, Element

\* Of two entries of one session and type, without languages, the order of files is
\* that of keys.
LEMMA FilesInKeyOrder ==
  ASSUME KeysApart, NEW t, NEW s, NEW p,
         NEW a, IsAddress(a), Asked(a, t, s, p), a.lang = NoLang,
         NEW b, IsAddress(b), Asked(b, t, s, p), b.lang = NoLang,
         Before(KeyAt(a), KeyAt(b))
  PROVE  TextBefore(a.key, b.key)
  <1>1. /\ a.key \in Seq(Tokens) /\ a.ses \in Seq(Tokens) /\ Separator \in Tokens
        /\ KeyAt(a).typ = a.typ /\ KeyAt(a).text = Base(a) /\ IsKey(KeyAt(a))
    BY AddressTokens
  <1>2. /\ b.key \in Seq(Tokens)
        /\ KeyAt(b).typ = b.typ /\ KeyAt(b).text = Base(b)
    BY AddressTokens
  <1>3. a.typ = t /\ b.typ = t /\ a.ses = s /\ b.ses = s
    BY DEF Asked
  <1>4. t \in Nat
    BY <1>1, <1>3 DEF IsKey, Type, SafeLock, DATATYPE_UNKNOWN, DATATYPE_BIN, DATATYPE_MENU,
                      DATATYPE_TEMPLATE, DATATYPE_STATICLOAD, DATATYPE_STATE, DATATYPE_USERDATA
  <1>5. TextBefore(Base(a), Base(b))
    BY <1>1, <1>2, <1>3, <1>4 DEF Before
  <1>6. CASE s = <<>>
    BY <1>3, <1>5, <1>6 DEF Base
  <1>7. CASE s # <<>>
    <2>1. TextBefore(Joined(s, Separator, a.key), Joined(s, Separator, b.key))
      BY <1>3, <1>5, <1>7 DEF Base
    <2>2. QED BY <1>1, <1>2, <1>3, <2>1, OrderOfKeys
  <1>8. QED BY <1>6, <1>7

\* A dump by a handle just opened is complete.
LEMMA PlacedDumps ==
  ASSUME KeysApart, SIInv, Placed, IsFiniteSet(DOMAIN kv), h = NewHandle("fs"),
         NEW t \in Type \ {DATATYPE_UNKNOWN}, NEW s \in Session, NEW l \in Spoke,
         NEW p \in Seq(Tokens), Len(p) <= 1
  PROVE  DumpComplete(t, s, l, p)
  <1> DEFINE g == WithSession(WithPrefix(h, t), s)
             asked == {a \in DOMAIN wrote : a.typ = t /\ a.ses = s /\ IsPrefix(p, a.key)}
             d == Dump(g, p, l)
             M(a) == Meant(t, s, a.key, l)
             n == Cardinality(DOMAIN kv)
             R == ReadDir
  <1> SUFFICES ASSUME s # <<>> <=> t \in Sessioned,
                      \A a \in asked : Decodes(a) /\ M(a) # NoEntry /\ Own(t, a.key, l)
               PROVE  /\ Len(d) = Cardinality(asked)
                      /\ ToSet(d) = {<<a.key, M(a)>> : a \in asked}
                      /\ (\A a \in asked : a.lang = NoLang) =>
                           \A i, j \in DOMAIN d : i < j => TextBefore(d[i][1], d[j][1])
    BY DEF DumpComplete
  <1>1. SetTo(g, t, s)
    <2>1. g.pfx = t /\ g.sid = Sid(s)
      BY DEF NewHandle, WithPrefix, WithSession, Sid
    <2> HIDE DEF g
    <2>2. QED BY <2>1 DEF SetTo
  <1>2. /\ asked \subseteq DOMAIN wrote
        /\ \A a \in DOMAIN wrote : a \in asked <=> Asked(a, t, s, p)
        /\ \A a \in DOMAIN wrote : IsAddress(a) /\ KeyAt(a) \in DOMAIN kv
        /\ \A k \in DOMAIN kv : \E a \in DOMAIN wrote : k = KeyAt(a)
    BY DEF Asked, Placed
  <1>3. g = WithSession(WithPrefix(h, t), s)
    OBVIOUS
  <1>4. \A a \in asked : Decodes(a) /\ M(a) # NoEntry /\ Own(t, a.key, l)
    OBVIOUS
  <1> HIDE DEF g, asked
  <1>5. ASSUME NEW a \in asked
        PROVE  /\ Matches(g, p, KeyAt(a)) /\ Readable(g, p, l, KeyAt(a))
               /\ Element(g, l, KeyAt(a)) = <<a.key, M(a)>>
    BY <1>1, <1>2, <1>3, <1>4, <1>5, AskedIsRead
  <1>6. ASSUME NEW k \in DOMAIN kv, Matches(g, p, k)
        PROVE  \E a \in asked : k = KeyAt(a)
    BY <1>1, <1>2, <1>6, MatchIsAsked
  <1>7. InOrder
    BY FilesAreKeys, DirIsInOrder
  <1>8. Together(g, p)
    BY <1>1, <1>2, <1>4, MatchesTogether
  <1>9. PICK o \in Nat, c \in Nat :
          /\ o + c <= n
          /\ d = [i \in 1 .. c |-> Element(g, l, R[o + i])]
          /\ \A j \in 1 .. n : Matches(g, p, R[j]) <=> j \in o + 1 .. o + c
    <2>1. \A k \in DOMAIN kv : Matches(g, p, k) => Readable(g, p, l, k)
      BY <1>5, <1>6
    <2>2. DumpsMatches(g, p, l)
      BY <1>7, <1>8, <2>1, DumpIsRun
    <2>3. QED BY <2>2 DEF DumpsMatches
  <1>10. /\ n \in Nat /\ R \in [1 .. n -> DOMAIN kv]
         /\ \A k \in DOMAIN kv : \E i \in 1 .. n : R[i] = k
         /\ \A i, j \in 1 .. n : i < j => Before(R[i], R[j])
    BY <1>7 DEF InOrder
  <1> HIDE DEF n, R, M, d
  <1>11. \A i \in 1 .. c : o + i \in 1 .. n /\ o + i \in o + 1 .. o + c
    BY <1>9, <1>10
  <1> DEFINE f == [i \in 1 .. c |-> CHOOSE a \in asked : KeyAt(a) = R[o + i]]
  <1>12. \A i \in 1 .. c : f[i] \in asked /\ KeyAt(f[i]) = R[o + i]
    <2>1. \A i \in 1 .. c : \E a \in asked : KeyAt(a) = R[o + i]
      <3> TAKE i \in 1 .. c
      <3>1. R[o + i] \in DOMAIN kv /\ Matches(g, p, R[o + i])
        BY <1>9, <1>10, <1>11
      <3>2. QED BY <1>6, <3>1
    <2>2. QED BY <2>1
  <1>13. f \in [1 .. c -> asked]
    BY <1>12
  <1> HIDE DEF f
  <1>14. ASSUME NEW i \in 1 .. c, NEW j \in 1 .. c, i < j PROVE Before(KeyAt(f[i]), KeyAt(f[j]))
    BY <1>9, <1>10, <1>11, <1>12, <1>14
  <1>15. \A a \in asked : \E i \in 1 .. c : f[i] = a
    <2> TAKE a \in asked
    <2>1. PICK j \in 1 .. n : R[j] = KeyAt(a)
      BY <1>2, <1>10
    <2>2. j \in o + 1 .. o + c
      BY <1>5, <1>9, <2>1
    <2> DEFINE i == j - o
    <2>3. i \in 1 .. c /\ o + i = j
      BY <1>9, <2>2
    <2> HIDE DEF i
    <2>4. f[i] = a
      BY <1>2, <1>12, <2>1, <2>3, KeysDiffer
    <2>5. QED BY <2>3, <2>4
  <1>16. \A i, j \in 1 .. c : f[i] = f[j] => i = j
    <2> SUFFICES ASSUME NEW i \in 1 .. c, NEW j \in 1 .. c, f[i] = f[j], i # j PROVE FALSE
      OBVIOUS
    <2>1. Before(KeyAt(f[i]), KeyAt(f[j])) \/ Before(KeyAt(f[j]), KeyAt(f[i]))
      BY <1>9, <1>14
    <2>2. IsKey(KeyAt(f[i]))
      BY <1>2, <1>12, FilesAreKeys
    <2>3. QED BY <2>1, <2>2, KeysOrdered
  <1>17. Cardinality(asked) = c
    <2>1. f \in Bijection(1 .. c, asked)
      BY <1>13, <1>15, <1>16, Fun_IsBij
    <2>2. ExistsBijection(1 .. c, asked)
      BY <2>1 DEF ExistsBijection
    <2>3. QED BY <1>9, <2>2, FS_CountingElements
  <1>18. DOMAIN d = 1 .. c /\ \A i \in 1 .. c : d[i] = <<f[i].key, M(f[i])>>
    <2>1. DOMAIN d = 1 .. c /\ \A i \in 1 .. c : d[i] = Element(g, l, R[o + i])
      BY <1>9
    <2>2. QED BY <1>5, <1>12, <2>1
  <1>19. Len(d) = c
    <2> DEFINE K == {d[i] : i \in 1 .. c}
    <2>1. d \in [1 .. c -> K]
      <3>1. d = [i \in 1 .. c |-> d[i]]
        BY <1>9
      <3>2. QED BY <3>1
    <2> HIDE DEF K
    <2>2. QED BY <1>9, <2>1, LengthOf
  <1>20. ToSet(d) = {<<a.key, M(a)>> : a \in asked}
    <2>1. ToSet(d) = {d[i] : i \in 1 .. c}
      BY <1>18 DEF ToSet
    <2>2. \A i \in 1 .. c : \E a \in asked : d[i] = <<a.key, M(a)>>
      BY <1>12, <1>18
    <2>3. \A a \in asked : \E i \in 1 .. c : <<a.key, M(a)>> = d[i]
      BY <1>15, <1>18
    <2>4. QED BY <2>1, <2>2, <2>3
  <1>21. ASSUME \A a \in asked : a.lang = NoLang, NEW i \in DOMAIN d, NEW j \in DOMAIN d, i < j
         PROVE  TextBefore(d[i][1], d[j][1])
    <2>1. i \in 1 .. c /\ j \in 1 .. c /\ d[i][1] = f[i].key /\ d[j][1] = f[j].key
      BY <1>18, <1>21
    <2>2. Before(KeyAt(f[i]), KeyAt(f[j]))
      BY <1>14, <1>21, <2>1
    <2> DEFINE a == f[i]
               b == f[j]
    <2>3. /\ a \in DOMAIN wrote /\ Asked(a, t, s, p) /\ IsAddress(a) /\ a.lang = NoLang
          /\ b \in DOMAIN wrote /\ Asked(b, t, s, p) /\ IsAddress(b) /\ b.lang = NoLang
      BY <1>2, <1>12, <1>21, <2>1
    <2>4. Before(KeyAt(a), KeyAt(b))
      BY <2>2
    <2> HIDE DEF a, b
    <2>5. TextBefore(a.key, b.key)
      BY <2>3, <2>4, FilesInKeyOrder
    <2>6. QED BY <2>1, <2>5 DEF a, b
  <1>22. QED BY <1>17, <1>19, <1>20, <1>21

\* The store stays finite.
FiniteStore == IsFiniteSet(DOMAIN kv)

\* So it is found.
LEMMA InitFinite == Init => FiniteStore
  <1> SUFFICES ASSUME Init PROVE IsFiniteSet(DOMAIN kv)
    BY DEF FiniteStore
  <1>1. IsFiniteSet(DOMAIN wrote)
    <2>1. CASE wrote = <<>>
      <3>1. DOMAIN wrote = {}
        BY <2>1
      <3>2. QED BY <3>1, FS_EmptySet
    <2>2. CASE wrote \in Seeds
      BY <2>2, DumpAssumption
    <2>3. QED BY <2>1, <2>2 DEF Init
  <1>2. DOMAIN kv = {KeyAt(a) : a \in DOMAIN wrote}
    BY DEF Init, Stored
  <1> DEFINE f == [a \in DOMAIN wrote |-> KeyAt(a)]
  <1>3. f \in [DOMAIN wrote -> DOMAIN kv] /\ \A k \in DOMAIN kv : \E a \in DOMAIN wrote : f[a] = k
    BY <1>2
  <1> HIDE DEF f
  <1>4. f \in Surjection(DOMAIN wrote, DOMAIN kv)
    BY <1>3, Fun_IsSurj
  <1>5. QED BY <1>1, <1>4, FS_Surjection

\* A put adds one entry at most.
LEMMA PutFinite ==
  ASSUME FiniteStore, NEW g, NEW key, NEW v, NEW ctx, PutWith(g, key, v, ctx)
  PROVE  FiniteStore'
  <1> DEFINE k == Translation(g, key, ctx)
  <1>1. CASE Puts(g)
    <2>1. DOMAIN kv' = DOMAIN kv \cup {k}
      BY <1>1 DEF PutWith, Extended
    <2> HIDE DEF k
    <2>2. QED BY <2>1, FS_AddElement DEF FiniteStore
  <1>2. CASE ~Puts(g)
    BY <1>2 DEF PutWith, FiniteStore
  <1>3. QED BY <1>1, <1>2

\* Every call keeps the store finite.
LEMMA StepFinite == FiniteStore /\ [Next]_vars => FiniteStore'
  <1> SUFFICES ASSUME FiniteStore, [Next]_vars PROVE FiniteStore'
    OBVIOUS
  <1>1. kv' = kv => FiniteStore'
    BY DEF FiniteStore
  <1>2. ASSUME NEW key, NEW v, NEW ctx, Put(key, v, ctx) PROVE FiniteStore'
    BY <1>2, PutFinite DEF Put
  <1>3. ASSUME NEW key, NEW v, Save(key, v) PROVE FiniteStore'
    BY <1>3, PutFinite DEF Save
  <1>4. QED BY <1>1, <1>2, <1>3 DEF Next, vars, SetPrefix, SetLanguage, SetLock, SetSession,
                                    Retrieve, Load, Open, Handle

\* DumpsComplete: the dump of a handle just opened has all that is asked for, each with
\* its value, nothing else, and keys that are not translated in order.
THEOREM DumpsAreComplete == ASSUME KeysApart PROVE Spec => []DumpsComplete
  <1>1. SIInv /\ Placed /\ FiniteStore => DumpsComplete
    <2> SUFFICES ASSUME SIInv, Placed, FiniteStore, h = NewHandle("fs"),
                        NEW t \in Type \ {DATATYPE_UNKNOWN}, NEW s \in Session, NEW l \in Spoke,
                        NEW n \in Name, NEW i \in 0 .. 1
                 PROVE  DumpComplete(t, s, l, SubSeq(n, 1, i))
      BY DEF DumpsComplete
    <2> DEFINE p == SubSeq(n, 1, i)
    <2>1. p \in Seq(Tokens) /\ Len(p) <= 1
      BY PrefixAskedFor
    <2> HIDE DEF p
    <2>2. DumpComplete(t, s, l, p)
      BY <2>1, PlacedDumps DEF FiniteStore
    <2>3. QED BY <2>2 DEF p
  <1>2. QED BY <1>1, StoreInvariant, InitFinite, StepFinite, PTL DEF Spec

=============================================================================
