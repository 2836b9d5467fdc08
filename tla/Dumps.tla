-------------------------------- MODULE Dumps --------------------------------
(***************************************************************************)
(* Reading keys of the store back: decoding (src/db/db.go), dumps of a     *)
(* directory (src/db/fs/dump.go, src/db/dump.go) and entries of the log of *)
(* puts (src/db/log/log.go). A dump is all that Dump and then Next of its  *)
(* Dumper answer when nobody else uses the handle meanwhile.               *)
(***************************************************************************)
EXTENDS Store

CONSTANTS Width,   \* characters of a token
          Rank,    \* place of a token in the order of bytes
          Suffix   \* tokens of a "_" and three characters, languages and others

ASSUME DumpAssumption ==
  /\ Width \in [DOMAIN Width -> Nat \ {0}] /\ Rank \in [DOMAIN Width -> Nat]
  /\ \A x, y \in DOMAIN Width : Rank[x] = Rank[y] => x = y
  /\ {Separator, MenuTail, TextTail} \cup Lang \subseteq DOMAIN Width
  /\ \A n \in Session \cup Name : ToSet(n) \subseteq DOMAIN Width
  /\ \A w \in Seeds : IsFiniteSet(DOMAIN w)
  /\ Lang \subseteq Suffix /\ \A x \in Suffix \cap DOMAIN Width : Width[x] = 4

-----------------------------------------------------------------------------
(* Decoding.                                                               *)

Characters(text) == SumFunction([i \in DOMAIN text |-> Width[text[i]]])

\* FromDbKey; whatever looks like a language is taken off.
FromDbKey(k) ==
  IF Translates(k.typ) /\ Characters(k.text) > 6 /\ Last(k.text) \in Suffix
  THEN Front(k.text) ELSE k.text

\* Mutant: what is not of the session is not refused.
FromSessionKey_Any(g, text) ==
  IF Len(text) < Len(g.sid) THEN text ELSE SubSeq(text, Len(g.sid) + 1, Len(text))

FromSessionKey(g, text) ==
  IF IsPrefix(g.sid, text) THEN SubSeq(text, Len(g.sid) + 1, Len(text)) ELSE NoEntry

DecodeKey(g, k) == FromSessionKey(g, FromDbKey(k))

-----------------------------------------------------------------------------
(* Dumps of a directory. Files laid out by hand decode to other types than *)
(* those of the store, and come after them.                                *)

TextBefore(s, t) ==
  \E i \in 1 .. Len(t) : /\ i <= Len(s) + 1
                         /\ \A n \in 1 .. i - 1 : s[n] = t[n]
                         /\ i <= Len(s) => Rank[s[i]] < Rank[t[i]]

Before(k, m) == k.typ < m.typ \/ (k.typ = m.typ /\ TextBefore(k.text, m.text))

\* The names of files, sorted as os.ReadDir does: the i-th has i - 1 before it.
Earlier(k) == {m \in DOMAIN kv : Before(m, k)}

ReadDir == [i \in 1 .. Cardinality(DOMAIN kv) |->
              CHOOSE k \in DOMAIN kv : Cardinality(Earlier(k)) = i - 1]

Matches(g, prefix, k) ==
  k.typ = g.pfx /\ DecodeKey(g, k) # NoEntry /\ IsPrefix(prefix, DecodeKey(g, k))

\* Next has nothing, which ends the dump, for what does not match or cannot be read.
Readable(g, prefix, ctx, k) ==
  Matches(g, prefix, k) /\ Get(g, DecodeKey(g, k), ctx) # NoEntry

Element(g, ctx, k) == <<DecodeKey(g, k), Get(g, DecodeKey(g, k), ctx)>>

\* What Next has from the n-th file on.
Run(n, g, prefix, ctx) ==
  LET files == SubSeq(ReadDir, n, Len(ReadDir))
      end   == SelectInSeq(files, LAMBDA k : ~Readable(g, prefix, ctx, k))
  IN  [i \in 1 .. IF end = 0 THEN Len(files) ELSE end - 1 |-> Element(g, ctx, files[i])]

\* Mutant: the dump begins with the first file, which may not match.
Dump_AtOnce(g, prefix, ctx) == Run(1, g, prefix, ctx)

\* Dump skips what does not match; the dump function does not.
Dump(g, prefix, ctx) ==
  LET first == SelectInSeq(ReadDir, LAMBDA k : Matches(g, prefix, k))
  IN  IF first = 0 THEN <<>> ELSE Run(first, g, prefix, ctx)

-----------------------------------------------------------------------------
(* The log of puts: an entry has the key of the store and the value.       *)

toLogDbEntry(g, key, v, ctx) == [lk |-> Translation(g, key, ctx), val |-> v]

Logged(st, x) == [st |-> st, entry |-> x]

\* ToLogDbEntry, for a type that has sessions. The session is what stands before the
\* key and the separator. Where the key is all there is, as for a handle without a
\* session, the slice ends before it begins, and that panics.
ToLogDbEntry(g, e) ==
  LET key == DecodeKey(g, e.lk)
      len == Len(e.lk.text) - Len(key) - 1
  IN  IF key = NoEntry THEN Logged("error", NoEntry)
      ELSE IF len < 0 THEN Logged("panic", NoEntry)
      ELSE Logged("ok", [typ |-> e.lk.typ, ses |-> SubSeq(e.lk.text, 1, len),
                         key |-> key, val |-> e.val])

-----------------------------------------------------------------------------
(* What must hold of it.                                                   *)

\* Where decoding takes a language off exactly when there is one.
Decodes(a) ==
  Translates(a.typ) =>
    /\ Last(a.key) \notin Suffix
    /\ a.lang # NoLang => Characters(a.key) + 4 > 6

\* The dump of a type and a session has all keys that begin with a prefix, each with
\* its value, and nothing else; keys that are not translated come in order.
DumpComplete(t, s, l, prefix) ==
  LET g     == WithSession(WithPrefix(h, t), s)
      asked == {a \in DOMAIN wrote : a.typ = t /\ a.ses = s /\ IsPrefix(prefix, a.key)}
      d     == Dump(g, prefix, l)
  IN  /\ s # <<>> <=> t \in Sessioned
      /\ \A a \in asked : Decodes(a) /\ Meant(t, s, a.key, l) # NoEntry /\ Own(t, a.key, l)
      => /\ Len(d) = Cardinality(asked)
         /\ ToSet(d) = {<<a.key, Meant(t, s, a.key, l)>> : a \in asked}
         /\ (\A a \in asked : a.lang = NoLang) =>
              \A i, j \in DOMAIN d : i < j => TextBefore(d[i][1], d[j][1])

\* db.go:78: the dump of a handle just opened is complete, whichever sessions, types
\* and translations lie between; a translation gives its key once more. (Any handle
\* may be opened anew, so this is said of every store.)
DumpsComplete ==
  h = NewHandle("fs") =>
    \A t \in Type \ {DATATYPE_UNKNOWN}, s \in Session, l \in Spoke, n \in Name, i \in 0 .. 1 :
      DumpComplete(t, s, l, SubSeq(n, 1, i))

\* An entry of the log tells the session, type, key and value of the put that wrote it to
\* the handle of the session that put it. The handle of any other session gets an error,
\* and one without a session panics (log.go:153): nobody is told of another's put, nor
\* anything that was not put. (Again by a handle just opened.)
LogTells ==
  h = NewHandle(h.kind) =>
  \A a \in DOMAIN wrote, s \in Session :
    a.typ \in Sessioned /\ a.ses # <<>> =>
      LET own == WithSession(WithPrefix(h, a.typ), a.ses)
          e   == toLogDbEntry(own, a.key, wrote[a], NoLang)
          put == [typ |-> a.typ, ses |-> a.ses, key |-> a.key, val |-> wrote[a]]
      IN  ToLogDbEntry(WithSession(own, s), e) =
            IF s = a.ses THEN Logged("ok", put)
            ELSE IF s = <<>> THEN Logged("panic", NoEntry) ELSE Logged("error", NoEntry)
=============================================================================
