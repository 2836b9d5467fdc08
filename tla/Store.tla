-------------------------------- MODULE Store --------------------------------
(***************************************************************************)
(* A database handle, db.DbBase (src/db/db.go) over a store in memory      *)
(* (src/db/mem/mem.go), in files (src/db/fs/fs.go) or in Postgres          *)
(* (src/db/postgres/pg.go), and everyone who uses it: the application,     *)
(* which prepares read-only data and keeps its own; resource.DbResource    *)
(* (src/resource/db.go), which retrieves read-only data; and               *)
(* persist.Persister (src/persist/persist.go), which keeps sessions. They  *)
(* may share one handle (src/doc/texinfo/dev.texi:191), and with it the    *)
(* type, session and language that each of them sets.                      *)
(*                                                                         *)
(* Text is a sequence of tokens; what code appends to it (the separator of *)
(* a session, the suffix of a language, the extension of a file) is one.   *)
(***************************************************************************)
EXTENDS Integers, FiniteSets, Sequences, SequencesExt

CONSTANTS Session,  \* session ids, <<>> for none
          Name,     \* symbols and application keys
          Lang,     \* language codes
          NoLang,   \* no language
          Value,    \* values stored
          NoEntry,  \* nothing stored
          Handled,  \* types the resource retrieves: DbResource.typs
          Local,    \* symbols with a function registered at the resource
          Mask,     \* sets of types that SetLock is called with, besides 0
          Laid,     \* files laid out by hand: from file names to values
          Seeds,    \* what files and Postgres may have from earlier processes, by address
          MaxPuts   \* bound: entries ever stored

DATATYPE_UNKNOWN    == 0
DATATYPE_BIN        == 1
DATATYPE_MENU       == 2
DATATYPE_TEMPLATE   == 4
DATATYPE_STATICLOAD == 8
DATATYPE_STATE      == 16
DATATYPE_USERDATA   == 32

SafeLock == {DATATYPE_BIN, DATATYPE_MENU, DATATYPE_TEMPLATE, DATATYPE_STATICLOAD}
Type     == SafeLock \cup {DATATYPE_UNKNOWN, DATATYPE_STATE, DATATYPE_USERDATA}

Separator == "."
MenuTail  == "_menu"
TextTail  == ".txt"
CodeTail  == ".bin"

Kind == {"mem", "fs", "pg"}

Text == Seq(STRING)

ASSUME StoreAssumption ==
  /\ Session \subseteq Text /\ Name \subseteq Text
  /\ Lang \subseteq STRING /\ NoLang \notin Lang
  /\ NoEntry \notin Value
  /\ Handled \subseteq SafeLock /\ Local \subseteq Name
  /\ Mask \subseteq SUBSET (Type \ {DATATYPE_UNKNOWN}) /\ {} \notin Mask
  /\ MaxPuts \in Nat
  /\ DOMAIN Laid \subseteq Text /\ {Separator, MenuTail, TextTail, CodeTail} \subseteq STRING
  /\ \A w \in Seeds : \A a \in DOMAIN w :
       a.typ \in Type \ {DATATYPE_UNKNOWN} /\ w[a] \in Value

VARIABLES h,     \* the handle: [kind, pfx, sid, lang, lock, seal]
          kv,    \* the store, from keys of the store to values
          who,   \* history: the session set last
          wrote  \* history: what was put, by address

vars == <<h, kv, who, wrote>>

\* Keys of entries of type t.
KeyOf(t) == CASE t = DATATYPE_MENU       -> {Append(n, MenuTail) : n \in Name}
              [] t = DATATYPE_STATICLOAD -> Name \cup {Append(n, TextTail) : n \in Name}
              [] OTHER                   -> Name

-----------------------------------------------------------------------------
(* Keys.                                                                   *)

Translates(pfx) == pfx \in {DATATYPE_MENU, DATATYPE_TEMPLATE, DATATYPE_STATICLOAD}

\* Mutant: the last read-only type belongs to sessions too.
ToSessionKey_OneEarly(g, key) ==
  IF g.pfx >= DATATYPE_STATICLOAD \/ g.pfx = DATATYPE_UNKNOWN THEN g.sid \o key ELSE key

ToSessionKey(g, key) ==
  IF g.pfx > DATATYPE_STATICLOAD \/ g.pfx = DATATYPE_UNKNOWN THEN g.sid \o key ELSE key

ToDbKey(pfx, b, l) ==
  [typ |-> pfx, text |-> IF l # NoLang /\ Translates(pfx) THEN Append(b, l) ELSE b]

\* The language of the handle goes before that of the context.
Spoken(g, ctx) == IF ~Translates(g.pfx) THEN NoLang
                  ELSE IF g.lang # NoLang THEN g.lang ELSE ctx

\* ToKey. Default and translation are the same where no language applies.
Default(g, key) == ToDbKey(g.pfx, ToSessionKey(g, key), NoLang)
Translation(g, key, ctx) == ToDbKey(g.pfx, ToSessionKey(g, key), Spoken(g, ctx))

-----------------------------------------------------------------------------
(* The handle.                                                             *)

NewHandle(kind) == [kind |-> kind, pfx |-> DATATYPE_UNKNOWN, sid |-> <<>>, lang |-> NoLang,
                    lock |-> SafeLock, seal |-> FALSE]

Safe(g) == SafeLock \subseteq g.lock
CheckPut(g) == g.pfx \notin g.lock

WithPrefix(g, t) == [g EXCEPT !.pfx = t]
WithLanguage(g, l) == [g EXCEPT !.lang = l]

\* Mutant: no session is a session too.
WithSession_Always(g, s) == [g EXCEPT !.sid = Append(s, Separator)]

WithSession(g, s) == [g EXCEPT !.sid = IF s = <<>> THEN <<>> ELSE Append(s, Separator)]

\* Mutant: a sealed handle can be unlocked.
Locked_IgnoresSeal(g, typs, on) ==
  IF typs = {} THEN [g EXCEPT !.lock = @ \cup SafeLock, !.seal = TRUE]
  ELSE [g EXCEPT !.lock = IF on THEN @ \cup typs ELSE @ \ typs]

\* SetLock; typs is {} for 0. Fails without effect on a sealed handle.
Locked(g, typs, on) ==
  IF g.seal THEN g
  ELSE IF typs = {} THEN [g EXCEPT !.lock = @ \cup SafeLock, !.seal = TRUE]
  ELSE [g EXCEPT !.lock = IF on THEN @ \cup typs ELSE @ \ typs]

\* Get; NoEntry is any failure.
At(k) == IF k \in DOMAIN kv THEN kv[k] ELSE NoEntry

\* The name that a file laid out by hand has; it does not tell the type, but for code.
altPathFor(k) == IF k.typ = DATATYPE_BIN THEN Append(k.text, CodeTail) ELSE k.text

LaidAt(k) == IF altPathFor(k) \in DOMAIN Laid THEN Laid[altPathFor(k)] ELSE NoEntry

FirstOf(vals) == LET i == SelectInSeq(vals, LAMBDA v : v # NoEntry)
                 IN  IF i = 0 THEN NoEntry ELSE vals[i]

\* memDb.Get, fsDb.Get and pgDb.Get; t and d are the keys of the translation and of
\* the default. Postgres does not look for the default.
memGet(t, d) == FirstOf(<<At(t), At(d)>>)

\* Mutant: files laid out by hand are looked for once, for the default.
fsGet_Once(t, d) == FirstOf(<<At(t), At(d), LaidAt(d)>>)

fsGet(t, d) == FirstOf(<<At(t), LaidAt(t), At(d), LaidAt(d)>>)

pgGet(t) == At(t)

Get(g, key, ctx) ==
  LET t == Translation(g, key, ctx)
      d == Default(g, key)
  IN  IF g.pfx = DATATYPE_UNKNOWN THEN NoEntry
      ELSE CASE g.kind = "mem" -> memGet(t, d)
             [] g.kind = "fs"  -> fsGet(t, d)
             [] g.kind = "pg"  -> pgGet(t)

Puts(g) == CheckPut(g) /\ g.pfx # DATATYPE_UNKNOWN

-----------------------------------------------------------------------------
(* The resource: each getter sets the type it wants, and panics on a       *)
(* handle that does not protect read-only data, which ends the process.    *)
(* An answer is [h, val].                                                  *)

Answer(g, v) == [h |-> g, val |-> v]

\* Mutant: the type is set once.
Asking_Once(g, t) == IF g.pfx = DATATYPE_UNKNOWN THEN WithPrefix(g, t) ELSE g

Asking(g, t) == WithPrefix(g, t)

\* The getter of type t, which looks up key; not for a type left out.
Lookup(g, t, key, ctx) ==
  IF t \notin Handled THEN Answer(g, NoEntry)
  ELSE IF ~Safe(g) THEN Answer(NewHandle(g.kind), NoEntry)
  ELSE Answer(Asking(g, t), Get(Asking(g, t), key, ctx))

DbGetTemplate(g, sym, ctx) == Lookup(g, DATATYPE_TEMPLATE, sym, ctx)
DbGetCode(g, sym, ctx) == Lookup(g, DATATYPE_BIN, sym, ctx)

\* A label that is not stored is the symbol itself.
DbGetMenu(g, sym, ctx) ==
  LET r == Lookup(g, DATATYPE_MENU, Append(sym, MenuTail), ctx)
  IN  IF DATATYPE_MENU \in Handled /\ r.val = NoEntry THEN Answer(r.h, sym) ELSE r

\* A symbol with a function of its own is not looked up: its answer is the symbol.
DbFuncFor(g, sym, ctx) ==
  LET r == Lookup(g, DATATYPE_STATICLOAD, sym, ctx)
  IN  IF sym \in Local THEN Answer(g, sym)
      ELSE IF r.val # NoEntry THEN r
      ELSE Lookup(g, DATATYPE_STATICLOAD, Append(sym, TextTail), ctx)

Getters(g, sym, ctx) == {DbGetTemplate(g, sym, ctx), DbGetCode(g, sym, ctx),
                         DbGetMenu(g, sym, ctx), DbFuncFor(g, sym, ctx)}

-----------------------------------------------------------------------------
(* The calls.                                                              *)

Sessioned == {DATATYPE_STATE, DATATYPE_USERDATA}

\* What a caller means who puts a key: documented at db.go:59 and db.go:71.
Address(t, s, key, l) == [typ |-> t, key |-> key, ses |-> IF t \in Sessioned THEN s ELSE <<>>,
                          lang |-> IF Translates(t) THEN l ELSE NoLang]

Extended(f, x, v) == [y \in DOMAIN f \cup {x} |-> IF y = x THEN v ELSE f[y]]

\* The handle becomes g, and the value is stored if it may be.
PutWith(g, key, v, ctx) ==
  /\ h' = g
  /\ IF Puts(g)
     THEN /\ kv' = Extended(kv, Translation(g, key, ctx), v)
          /\ wrote' = Extended(wrote, Address(g.pfx, who, key, Spoken(g, ctx)), v)
     ELSE UNCHANGED <<kv, wrote>>
  /\ UNCHANGED who

Handle(g) == h' = g /\ UNCHANGED <<kv, who, wrote>>

SetPrefix(t) == Handle(WithPrefix(h, t))
SetLanguage(l) == Handle(WithLanguage(h, l))
SetLock(typs, on) == Handle(Locked(h, typs, on))

\* Persister.WithSession is the same call.
SetSession(s) == h' = WithSession(h, s) /\ who' = s /\ UNCHANGED <<kv, wrote>>

\* The bound on entries.
Room(k) == k \in DOMAIN kv \/ Cardinality(DOMAIN kv) < MaxPuts

Put(key, v, ctx) == /\ Room(Translation(h, key, ctx))
                    /\ PutWith(h, key, v, ctx)

\* A getter of the resource.
Retrieve(sym, ctx) ==
  \E r \in Getters(h, sym, ctx) :
    /\ h' = r.h
    /\ who' = IF r.h = NewHandle(h.kind) THEN <<>> ELSE who
    /\ UNCHANGED <<kv, wrote>>

\* Persister.Save and Load, for any key; the context of a persister has no language.
Save(key, v) == LET g == WithPrefix(h, DATATYPE_STATE)
                IN  Room(Translation(g, key, NoLang)) /\ PutWith(g, key, v, NoLang)
Load == Handle(WithPrefix(h, DATATYPE_STATE))

\* Another handle on the same store, in a later process where the store lasts.
Open == h' = NewHandle(h.kind) /\ who' = <<>> /\ UNCHANGED <<kv, wrote>>

\* The key that was made of an address.
KeyAt(a) == ToDbKey(a.typ, IF a.ses = <<>> THEN a.key ELSE Append(a.ses, Separator) \o a.key,
                    a.lang)

Stored(w) == [k \in {KeyAt(a) : a \in DOMAIN w} |-> w[CHOOSE a \in DOMAIN w : KeyAt(a) = k]]

Init == /\ \E kind \in Kind : h = NewHandle(kind)
        /\ who = <<>>
        /\ wrote \in IF h.kind = "mem" THEN {<<>>} ELSE Seeds
        /\ kv = Stored(wrote)

Spoke == Lang \cup {NoLang}

Next == \/ \E t \in Type : SetPrefix(t)
        \/ \E l \in Spoke : SetLanguage(l)
        \/ \E typs \in Mask \cup {{}}, on \in BOOLEAN : SetLock(typs, on)
        \/ \E s \in Session : SetSession(s)
        \/ \E key \in KeyOf(h.pfx), v \in Value, ctx \in Spoke : Put(key, v, ctx)
        \/ \E sym \in Name, ctx \in Spoke : Retrieve(sym, ctx)
        \/ \E key \in Name, v \in Value : Save(key, v)
        \/ Load
        \/ Open

Spec == Init /\ [][Next]_vars

-----------------------------------------------------------------------------
(* What must hold of it.                                                   *)

HandleType ==
  [kind : Kind,
   pfx  : Type,
   sid  : {<<>>} \cup {Append(s, Separator) : s \in Session \ {<<>>}},
   lang : Spoke,
   lock : SUBSET Type,
   seal : BOOLEAN]

\* Handle and store are well formed: a session of the handle is separated from the
\* keys, and nothing is stored under the type UNKNOWN.
StoreTypeOK ==
  /\ h \in HandleType
  /\ who \in Session \cup {<<>>}
  /\ \A k \in DOMAIN kv : k.typ \in Type \ {DATATYPE_UNKNOWN} /\ kv[k] \in Value

\* What was put, by the meaning of sessions and languages.
Wrote(t, s, key, l) ==
  IF Address(t, s, key, l) \in DOMAIN wrote THEN wrote[Address(t, s, key, l)] ELSE NoEntry

\* What was laid out by hand, by the names the documentation gives (dev.texi:132 to
\* 159). For labels and symbols in a language it gives other names than the code.
Files == IF h.kind = "fs" THEN DOMAIN Laid ELSE {}
MadeFor(name) == CASE Last(name) = CodeTail -> DATATYPE_BIN
                   [] Last(name) = MenuTail -> DATATYPE_MENU
                   [] Last(name) = TextTail -> DATATYPE_STATICLOAD
                   [] OTHER                 -> DATATYPE_TEMPLATE

File(t, key, l) ==
  LET name == IF t = DATATYPE_BIN THEN Append(key, CodeTail)
              ELSE IF l # NoLang THEN Append(key, l) ELSE key
  IN  IF name \in Files /\ MadeFor(name) = t THEN Laid[name] ELSE NoEntry

\* No file of another type has a name that the key is looked for under: but for code,
\* the name does not tell.
Own(t, key, l) ==
  t # DATATYPE_BIN => \A name \in {key, Append(key, l)} \cap Files : MadeFor(name) = t

\* What a Get should answer: the language asked for, else none; in Postgres, only the
\* language asked for.
Meant(t, s, key, l) ==
  IF h.kind = "pg" THEN Wrote(t, s, key, l)
  ELSE FirstOf(<<Wrote(t, s, key, l), File(t, key, l), Wrote(t, s, key, NoLang), File(t, key, NoLang)>>)

\* The language a caller who asks for l is given: that of the handle goes first.
Given(l) == IF h.lang # NoLang THEN h.lang ELSE l

\* dev.texi:170: keys are partitioned by session and by type. However the handle came
\* to be set as it is, a Get answers with what was put there last, through any number
\* of puts by others under keys and sessions that begin or end alike.
Partitioned ==
  h.pfx # DATATYPE_UNKNOWN =>
    \A key \in KeyOf(h.pfx), l \in Spoke :
      Own(h.pfx, key, Given(l)) => Get(h, key, l) = Meant(h.pfx, who, key, Given(l))

\* What a resource answers depends on the symbol, the language and the read-only
\* data, and on nothing that an application or a persister has done to the handle
\* before (resource/db.go:83 to 131).
ResourceAnswers ==
  \A sym \in Name, ctx \in Spoke :
    LET has(t, key, v) ==
          LET m == Meant(t, <<>>, key, Given(ctx)) IN IF m = NoEntry THEN v ELSE m
    IN  Safe(h) =>
          /\ DATATYPE_TEMPLATE \in Handled =>
               DbGetTemplate(h, sym, ctx).val = has(DATATYPE_TEMPLATE, sym, NoEntry)
          /\ DATATYPE_BIN \in Handled =>
               DbGetCode(h, sym, ctx).val = has(DATATYPE_BIN, sym, NoEntry)
          /\ DATATYPE_MENU \in Handled =>
               DbGetMenu(h, sym, ctx).val = has(DATATYPE_MENU, Append(sym, MenuTail), sym)
          /\ /\ DATATYPE_STATICLOAD \in Handled
             /\ sym \notin Local
             /\ Own(DATATYPE_STATICLOAD, sym, Given(ctx))
             => DbFuncFor(h, sym, ctx).val =
                  has(DATATYPE_STATICLOAD, sym,
                      has(DATATYPE_STATICLOAD, Append(sym, TextTail), NoEntry))

IsAddress(a) ==
  /\ a \in [typ : Type \ {DATATYPE_UNKNOWN}, key : Text, ses : Session \cup {<<>>}, lang : Spoke]
  /\ a.key \in KeyOf(a.typ)
  /\ a.typ \notin Sessioned => a.ses = <<>>
  /\ ~Translates(a.typ) => a.lang = NoLang

\* What callers owe, and no code checks: session ids and names without the separator,
\* names that do not end like a translation or a file, seeds that were put by callers
\* who knew this, and no file laid out by hand for the text of a label in a language.
KeysApart ==
  LET tails   == {MenuTail, TextTail, CodeTail}
      plain(n) == \A i \in DOMAIN n : n[i] # Separator
  IN  /\ \A s \in Session : plain(s)
      /\ \A n \in Name : plain(n) /\ n # <<>> /\ Last(n) \notin Spoke \cup tails
      /\ Spoke \cap tails = {}
      /\ \A w \in Seeds : \A a \in DOMAIN w : IsAddress(a)
      /\ \A f \in DOMAIN Laid : plain(f)
      /\ \A n \in Name, l \in Spoke : /\ Append(Append(n, MenuTail), l) \notin DOMAIN Laid
                                      /\ Append(Append(n, TextTail), l) \notin DOMAIN Laid
      /\ NoEntry \notin Text

ReadOnly(f) == {<<k, f[k]>> : k \in {x \in DOMAIN f : x.typ \in SafeLock}}

\* db.go:65: SetLock with 0 locks read-only data permanently, whatever calls
\* follow, those of SetLock included.
SealHolds == [][h.seal => ReadOnly(kv') = ReadOnly(kv)]_vars
==============================================================================
