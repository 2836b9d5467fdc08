--------------------------- MODULE BytecodeProofs ---------------------------
(***************************************************************************)
(* Bytecode for every source: what is written are bytes, the disassembler  *)
(* ends, and what is written of a symbol, a number or an instruction is    *)
(* read back as it was, with what follows it untouched. From that, what    *)
(* the assembler writes for a source is read as the instructions that its  *)
(* lines and its batch stand for, as far as it is there (PrefixIsRead), to *)
(* the last of them (WrittenIsRead), a NOOP passed over, and what is       *)
(* printed of a source without one is assembled to the same bytes          *)
(* (ReadReassembles).                                                      *)
(***************************************************************************)
EXTENDS Bytecode, SumLemmas, SequenceTheorems

\* Words.
LEMMA BaseIsNat == Base \in Nat /\ Base > 4
  BY BytecodeAssumption

\* A byte before bytes.
LEMMA ConsIsWord ==
  ASSUME NEW x \in Byte, NEW s \in Word
  PROVE  /\ <<x>> \o s \in Word
         /\ Len(<<x>> \o s) = Len(s) + 1
         /\ (<<x>> \o s)[1] = x
  BY DEF Word

\* Bytes after bytes.
LEMMA ConcatIsWord ==
  ASSUME NEW s \in Word, NEW t \in Word
  PROVE  s \o t \in Word
  BY DEF Word

\* What is left of bytes.
LEMMA RestIsWord ==
  ASSUME NEW s \in Word, NEW n \in Nat \ {0}, n <= Len(s) + 1
  PROVE  From(s, n) \in Word /\ Len(From(s, n)) = Len(s) - n + 1
  BY DEF Word, From

-----------------------------------------------------------------------------
(* Writing.                                                                *)

\* An opcode is two bytes, as asm.go writes it.
LEMMA OpcodeIsWord ==
  ASSUME NEW op \in DOMAIN OpcodeIndex
  PROVE  writeOpcode(op) \in Word
  <1>1. OpcodeIndex[op] \in 0 .. 12
    BY DEF OpcodeIndex
  <1>2. ASSUME NEW i \in 0 .. 12 PROVE (i \div Base) \in Byte /\ (i % Base) \in Byte
    BY BaseIsNat DEF Byte
  <1>3. QED BY <1>1, <1>2 DEF writeOpcode, Word

\* A length byte and the text it counts are bytes.
LEMMA TextIsWord ==
  ASSUME NEW s \in Word
  PROVE  Text(s) \in Word
  <1>1. Len(s) % Base \in Byte
    BY BaseIsNat DEF Byte, Word
  <1>2. QED BY <1>1, ConsIsWord DEF Text

\* writeSym writes bytes, or refuses what is too long.
LEMMA SymIsWord ==
  ASSUME NEW s \in Word
  PROVE  writeSym(s) \in Word \cup {Absent}
  <1>1. CASE Len(s) > Base - 1
    BY <1>1 DEF writeSym
  <1>2. CASE ~(Len(s) > Base - 1)
    <2>1. Len(s) \in Byte
      BY <1>2, BaseIsNat DEF Byte, Word
    <2>2. QED BY <1>2, <2>1, ConsIsWord DEF writeSym
  <1>3. QED BY <1>1, <1>2

\* Powers of the base are no divisor 0.
LEMMA PowerIsPositive == \A i \in 1 .. 4 : Power[i] \in Nat \ {0}
  <1>1. Base * Base \in Nat \ {0}
    BY BaseIsNat
  <1>2. Base * Base * Base \in Nat \ {0}
    BY <1>1, BaseIsNat
  <1>3. QED BY <1>1, <1>2, BaseIsNat DEF Power

\* writeSize writes a length byte and digits.
LEMMA SizeIsWord ==
  ASSUME NEW n \in Nat
  PROVE  writeSize(n) \in Word
  <1> DEFINE sz == numSize(n)
             d  == [i \in 1 .. sz |-> (n \div Power[sz - i + 1]) % Base]
  <1>1. sz \in 1 .. 4
    BY DEF numSize
  <1>2. ASSUME NEW i \in 1 .. sz PROVE (n \div Power[sz - i + 1]) % Base \in Byte
    <2>1. Power[sz - i + 1] \in Nat \ {0}
      BY <1>1, PowerIsPositive
    <2>2. n \div Power[sz - i + 1] \in Nat
      BY <2>1
    <2>3. QED BY <2>2, BaseIsNat DEF Byte
  <1>3. d \in Word
    BY <1>1, <1>2 DEF Word
  <1>4. sz \in Byte
    BY <1>1, BaseIsNat DEF Byte
  <1>5. QED BY <1>3, <1>4, ConsIsWord DEF writeSize

\* Writers one after the other write bytes, or one has refused.
LEMMA ThenIsWord ==
  ASSUME NEW p \in Word \cup {Absent}, NEW q \in Word \cup {Absent}
  PROVE  Then(p, q) \in Word \cup {Absent}
  BY ConcatIsWord, BytecodeAssumption DEF Then

\* What the assumption says of one line.
LEMMA LineIsTyped ==
  ASSUME NEW l \in Line
  PROVE  /\ l.sym \in Word \cup {Absent} /\ l.sel \in Word \cup {Absent}
         /\ l.desc \in Word \cup {Absent} /\ l.flag \in Byte \cup {Absent}
         /\ l.size # Absent => l.size \in Nat /\ Decimal[l.size] \in Word
         /\ Complete(l)
  <1>1. Number \subseteq Nat
    BY BytecodeAssumption
  <1>2. QED BY <1>1, LineAssumption, BytecodeAssumption

\* The arguments of a line, in each of their orders, are bytes.
LEMMA ArgsAreWords ==
  ASSUME NEW l \in Line, l.sym # Absent
  PROVE  /\ l.size # Absent \/ l.sel # Absent => parseTwoSym(l) \in Word \cup {Absent}
         /\ l.sel # Absent => parseTwoSymReverse(l) \in Word \cup {Absent}
         /\ l.size # Absent => parseSized(l) \in Word \cup {Absent}
         /\ l.size # Absent /\ l.flag # Absent => parseSig(l) \in Word \cup {Absent}
  <1>1. /\ l.sym \in Word /\ l.sel \in Word \cup {Absent}
        /\ l.size # Absent => l.size \in Nat /\ Decimal[l.size] \in Word
        /\ l.flag \in Byte \cup {Absent}
    BY LineIsTyped
  <1>2. writeSym(l.sym) \in Word \cup {Absent}
    BY <1>1, SymIsWord
  <1>3. l.sel # Absent => writeSym(l.sel) \in Word \cup {Absent}
    BY <1>1, SymIsWord
  <1>4. l.size # Absent => /\ writeSym(Decimal[l.size]) \in Word \cup {Absent}
                           /\ writeSize(l.size) \in Word \cup {Absent}
    BY <1>1, SymIsWord, SizeIsWord
  <1>5. l.flag # Absent => <<l.flag>> \in Word \cup {Absent}
    BY <1>1 DEF Word
  <1>6. l.size # Absent \/ l.sel # Absent => parseTwoSym(l) \in Word \cup {Absent}
    BY <1>2, <1>3, <1>4, ThenIsWord DEF parseTwoSym
  <1>7. l.sel # Absent => parseTwoSymReverse(l) \in Word \cup {Absent}
    BY <1>2, <1>3, ThenIsWord DEF parseTwoSymReverse
  <1>8. l.size # Absent => parseSized(l) \in Word \cup {Absent}
    BY <1>2, <1>4, ThenIsWord DEF parseSized
  <1>9. l.size # Absent /\ l.flag # Absent => parseSig(l) \in Word \cup {Absent}
    BY <1>2, <1>4, <1>5, ThenIsWord DEF parseSig
  <1>10. QED BY <1>6, <1>7, <1>8, <1>9

\* A line is bytes or an error.
LEMMA LineIsWord ==
  ASSUME NEW l \in Line, l.code \in DOMAIN OpcodeIndex
  PROVE  parseOne(l) \in Word \cup {Absent}
  <1>1. l.code \notin BatchCode
    BY DEF OpcodeIndex, BatchCode
  <1>2. /\ l.sel # Absent => l.sym # Absent
        /\ l.size # Absent /\ l.sym = Absent => l.flag # Absent
    BY <1>1, LineIsTyped DEF Complete
  <1>3. writeOpcode(l.code) \in Word \cup {Absent}
    BY OpcodeIsWord
  <1>4. ASSUME l.size # Absent, l.flag # Absent
        PROVE  parseFlagged(l) \in Word \cup {Absent}
    <2>1. l.size \in Nat /\ <<l.flag>> \in Word
      BY <1>4, LineIsTyped DEF Word
    <2>2. QED BY <2>1, SizeIsWord, ConcatIsWord DEF parseFlagged
  <1>5. l.sym # Absent => writeSym(l.sym) \in Word \cup {Absent}
    BY LineIsTyped, SymIsWord
  <1>6. <<>> \in Word
    BY DEF Word
  <1> DEFINE args == IF l.sel # Absent
              THEN IF l.code = "MOUT" THEN parseTwoSymReverse(l) ELSE parseTwoSym(l)
              ELSE IF l.size # Absent
              THEN IF l.sym = Absent THEN parseFlagged(l)
                   ELSE IF l.flag # Absent THEN parseSig(l)
                   ELSE IF l.code = "LOAD" THEN parseSized(l)
                   ELSE parseTwoSym(l)
              ELSE IF l.sym = Absent \/ writeSym(l.sym) = Absent THEN <<>>
              ELSE writeSym(l.sym)
  <1>7. args \in Word \cup {Absent}
    BY <1>2, <1>4, <1>5, <1>6, ArgsAreWords
  <1>8. parseOne(l) = Then(writeOpcode(l.code), args)
    BY DEF parseOne
  <1>9. QED BY <1>3, <1>7, <1>8, ThenIsWord

\* What a batch instruction adds before and after the HALT.
LEMMA MenuIsWord ==
  ASSUME NEW l \in Line, l.code \in BatchCode
  PROVE  /\ Label(l.code, MenuItem(l)) \in Word
         /\ Target(l.code, MenuItem(l)) \in Word
  <1> DEFINE i == MenuItem(l)
  <1>1. i.choice \in Word /\ i.display \in Word /\ i.target \in Word \cup {Absent}
    BY LineIsTyped DEF MenuItem, Complete
  <1>2. {writeOpcode("MNEXT"), writeOpcode("MPREV"), writeOpcode("MOUT"),
         writeOpcode("INCMP")} \subseteq Word
    BY OpcodeIsWord DEF OpcodeIndex
  <1>3. Text(i.choice) \in Word /\ Text(i.display) \in Word
    BY <1>1, TextIsWord
  <1>4. Text(i.display) \o Text(i.choice) \in Word
    BY <1>3, ConcatIsWord
  <1>5. Label(l.code, i) \in Word
    BY <1>2, <1>4, ConcatIsWord DEF Label, NewLine
  <1> DEFINE t == CASE l.code = "UP" -> NodeUp
                    [] l.code = "NEXT" -> NodeNext
                    [] l.code = "PREVIOUS" -> NodePrevious
                    [] OTHER -> IF i.target = Absent THEN <<>> ELSE i.target
  <1>6. t \in Word
    <2>1. <<>> \in Word /\ {NodeUp, NodeNext, NodePrevious} \subseteq Word
      BY BytecodeAssumption DEF Word
    <2>2. QED BY <2>1, <1>1
  <1>7. Target(l.code, i) = writeOpcode("INCMP") \o (Text(t) \o Text(i.choice))
    BY DEF Target, NewLine
  <1>8. QED BY <1>2, <1>3, <1>5, <1>6, <1>7, TextIsWord, ConcatIsWord

AsmType == [out : Word, inMenu : BOOLEAN, pre : Word, post : Word]

\* Leaving a batch keeps the assembler well formed.
LEMMA ExitIsTyped ==
  ASSUME NEW m \in AsmType
  PROVE  MenuExit(m) \in AsmType
  <1>1. writeOpcode("HALT") \in Word /\ <<>> \in Word
    BY OpcodeIsWord DEF OpcodeIndex, Word
  <1>2. m.out \in Word /\ m.pre \in Word /\ m.post \in Word
    BY DEF AsmType
  <1>3. ToLines(m) \in Word
    BY <1>1, <1>2, ConcatIsWord DEF ToLines, NewLine
  <1>4. m.out \o ToLines(m) \in Word
    BY <1>2, <1>3, ConcatIsWord
  <1>5. QED BY <1>4 DEF MenuExit, AsmType

-----------------------------------------------------------------------------
(* Reading.                                                                *)

\* A read leaves a word that is no longer than what it was given.
Reads(r, s) == /\ r.st \in {"ok", "error", "panic"}
               /\ r.rest \in Word /\ Len(r.rest) <= Len(s)

\* A parser that fails leaves nothing to read that was not there.
LEMMA FailReads ==
  ASSUME NEW s \in Word
  PROVE  Reads(Fails("error"), s) /\ Reads(Fails("panic"), s)
  BY DEF Reads, Fails, Read, Word

\* The parsers of one argument leave a part of what they were given.
LEMMA SplitsRead ==
  ASSUME NEW s \in Word
  PROVE  Reads(instructionSplit(s), s) /\ Reads(intSplit(s), s) /\ Reads(modeSplit(s), s)
  <1>1. ASSUME s # <<>>
        PROVE  s[1] \in Nat /\ Len(s) \in Nat \ {0}
    BY <1>1, BaseIsNat DEF Word, Byte
  <1>2. ASSUME NEW v, s # <<>>, Len(s) >= s[1] + 1
        PROVE  Reads(Read("ok", v, From(s, s[1] + 2)), s)
    <2>1. From(s, s[1] + 2) \in Word /\ Len(From(s, s[1] + 2)) = Len(s) - (s[1] + 2) + 1
      BY <1>1, <1>2, RestIsWord
    <2>2. QED BY <1>1, <1>2, <2>1 DEF Reads, Read
  <1>3. Reads(instructionSplit(s), s)
    BY <1>1, <1>2, FailReads DEF instructionSplit
  <1>4. Reads(intSplit(s), s)
    BY <1>1, <1>2, FailReads DEF intSplit
  <1>5. Reads(modeSplit(s), s)
    <2>1. s # <<>> => Tail(s) \in Word /\ Len(Tail(s)) <= Len(s)
      BY DEF Word
    <2>2. QED BY <2>1, FailReads DEF modeSplit, Reads, Read
  <1>6. QED BY <1>3, <1>4, <1>5

\* So do the parsers of all arguments of an opcode.
LEMMA ArgsRead ==
  ASSUME NEW op, NEW s \in Word
  PROVE  Reads(ParseArgs(op, s), s)
  <1>1. ASSUME NEW r, Reads(r, s)
        PROVE  Reads(AndSym(r), s) /\ Reads(AndSize(r), s) /\ Reads(AndMode(r), s)
    <2>1. /\ Reads(instructionSplit(r.rest), r.rest) /\ Reads(intSplit(r.rest), r.rest)
          /\ Reads(modeSplit(r.rest), r.rest)
      BY <1>1, SplitsRead DEF Reads
    <2>2. Len(s) \in Nat /\ Len(r.rest) \in Nat /\ Len(r.rest) <= Len(s)
      BY <1>1 DEF Reads, Word
    <2>3. ASSUME NEW n, NEW v, Reads(n, r.rest)
          PROVE  Reads(n, s) /\ Reads(Read("ok", v, n.rest), s)
      <3>1. Len(n.rest) \in Nat
        BY <2>3 DEF Reads, Word
      <3>2. QED BY <2>2, <2>3, <3>1 DEF Reads, Read
    <2>4. ASSUME NEW n, Reads(n, r.rest) PROVE Reads(And(r, n), s)
      BY <1>1, <2>3, <2>4 DEF And
    <2>5. QED BY <2>1, <2>4 DEF AndSym, AndSize, AndMode
  <1>2. Reads(parseNoArg(s), s)
    BY DEF parseNoArg, Reads, Read, Word
  <1>3. Reads(parseSym(s), s) /\ Reads(parseSigs(s), s)
    BY <1>1, <1>2 DEF parseSym, parseSigs
  <1>4. Reads(parseTwoSyms(s), s) /\ Reads(parseSymLen(s), s)
    BY <1>1, <1>3 DEF parseTwoSyms, parseSymLen
  <1>5. Reads(parseSymSig(s), s)
    BY <1>1, <1>4 DEF parseSymSig
  <1>6. QED BY <1>2, <1>3, <1>4, <1>5 DEF ParseArgs

\* opSplit takes two bytes, or fails and leaves all.
LEMMA OpcodeReads ==
  ASSUME NEW s \in Word
  PROVE  LET o == opSplit(s)
         IN  \/ o.st = "error" /\ o.rest = s
             \/ o.st = "ok" /\ o.rest \in Word /\ Len(o.rest) = Len(s) - 2
  <1>1. CASE Len(s) < 2 \/ s[1] * Base + s[2] > OpcodeIndex["MPREV"]
    BY <1>1 DEF opSplit, Read
  <1>2. CASE ~(Len(s) < 2 \/ s[1] * Base + s[2] > OpcodeIndex["MPREV"])
    <2>1. Len(s) \in Nat /\ 3 <= Len(s) + 1
      BY <1>2 DEF Word
    <2>2. From(s, 3) \in Word /\ Len(From(s, 3)) = Len(s) - 2
      BY <2>1, RestIsWord
    <2>3. opSplit(s).st = "ok" /\ opSplit(s).rest = From(s, 3)
      BY <1>2 DEF opSplit, Read
    <2>4. QED BY <2>2, <2>3
  <1>3. QED BY <1>1, <1>2

\* A turn of ParseAll ends or takes an opcode.
LEMMA TurnConsumes ==
  ASSUME b \in Word, ParseNext
  PROVE  /\ b' \in Word /\ phase' \in Ended \cup {"parse"}
         /\ phase' \in Ended \/ Len(b') <= Len(b) - 2
  <1> DEFINE o == opSplit(b)
             r == IF o.st = "ok" THEN ParseArgs(o.val, o.rest) ELSE o
  <1>1. Len(b) \in Nat
    BY DEF Word
  <1>2. /\ b' = r.rest
        /\ phase' = IF r.st = "panic" THEN "panic" ELSE IF o.st = "error" THEN "error"
                    ELSE IF r.rest = <<>> THEN "ok" ELSE "parse"
    BY DEF ParseNext
  <1>3. CASE o.st = "error" /\ o.rest = b
    BY <1>2, <1>3 DEF Ended
  <1>4. CASE o.st = "ok" /\ o.rest \in Word /\ Len(o.rest) = Len(b) - 2
    <2>1. Reads(r, o.rest)
      BY <1>4, ArgsRead
    <2>2. r.rest \in Word /\ Len(r.rest) <= Len(b) - 2
      BY <1>4, <2>1 DEF Reads
    <2>3. QED BY <1>2, <2>2 DEF Ended
  <1>5. QED BY <1>3, <1>4, OpcodeReads

-----------------------------------------------------------------------------
(* The invariant.                                                          *)

\* An assembler that has not begun is well formed.
LEMMA InitTypeOK == Init => BytecodeTypeOK
  BY DEF Init, BytecodeTypeOK, Word

\* Every turn keeps bytes bytes.
LEMMA NextTypeOK == BytecodeTypeOK /\ [Next]_vars => BytecodeTypeOK'
  <1> SUFFICES ASSUME BytecodeTypeOK, [Next]_vars PROVE BytecodeTypeOK'
    OBVIOUS
  <1> USE DEF BytecodeTypeOK
  <1>0. asm \in AsmType
    BY DEF AsmType
  <1>1. ASSUME NEW l \in Line, Assemble(l) PROVE BytecodeTypeOK'
    <2>1. CASE AsmBatch(l)
      <3>1. Label(l.code, MenuItem(l)) \in Word /\ Target(l.code, MenuItem(l)) \in Word
        BY <2>1, MenuIsWord DEF AsmBatch
      <3>2. MenuAdd(asm, l) \in AsmType
        BY <1>0, <3>1, ConcatIsWord DEF MenuAdd, AsmType
      <3>3. QED BY <1>1, <2>1, <3>2 DEF Assemble, AsmBatch, AsmType, Ended
    <2>2. CASE AsmOne(l)
      <3>1. MenuExit(asm) \in AsmType /\ parseOne(l) \in Word \cup {Absent}
        BY <1>0, <2>2, ExitIsTyped, LineIsWord DEF AsmOne
      <3>2. asm' \in AsmType
        BY <2>2, <3>1, ConcatIsWord DEF AsmOne, AsmType
      <3>3. QED BY <1>1, <2>2, <3>2 DEF Assemble, AsmOne, AsmType, Ended
    <2>3. QED BY <1>1, <2>1, <2>2 DEF Assemble
  <1>2. CASE Finish
    <2>1. MenuExit(asm) \in AsmType
      BY <1>0, ExitIsTyped
    <2>2. QED BY <1>2, <2>1 DEF Finish, AsmType
  <1>3. ASSUME NEW n \in 0 .. Len(asm.out), Load(n) PROVE BytecodeTypeOK'
    <2>1. SubSeq(asm.out, 1, n) \in Word
      BY <1>0, <1>3 DEF AsmType, Word
    <2>2. QED BY <1>3, <2>1 DEF Load
  <1>4. CASE ParseNext
    <2>1. b' \in Word /\ phase' \in Ended \cup {"parse"}
      BY <1>4, TurnConsumes
    <2>2. QED BY <1>4, <2>1 DEF ParseNext
  <1>5. CASE UNCHANGED vars
    BY <1>5 DEF vars
  <1>6. QED BY <1>1, <1>2, <1>3, <1>4, <1>5 DEF Next

\* Whatever is assembled, what is written and read are bytes (src/asm/asm.go,
\* src/vm/vm.go).
THEOREM BytesOnly == Spec => []BytecodeTypeOK
  <1>1. QED BY InitTypeOK, NextTypeOK, PTL DEF Spec

\* ParseAll (src/vm/debug.go:168) ends: every turn ends it or takes an opcode off
\* the code, whole or cut.
THEOREM DisassemblyEnds == Spec => Consumes
  <1>1. ASSUME BytecodeTypeOK, [Next]_vars
        PROVE  [Running("parse") => phase' \in Ended \/ Len(b') <= Len(b) - 2]_vars
    <2>1. CASE ParseNext
      BY <1>1, <2>1, TurnConsumes DEF BytecodeTypeOK
    <2>2. CASE ~Running("parse") \/ UNCHANGED vars
      BY <2>2
    <2>3. QED BY <1>1, <2>1, <2>2 DEF Next, Assemble, Finish, Load, Running
  <1>2. QED BY <1>1, BytesOnly, PTL DEF Spec, Consumes

-----------------------------------------------------------------------------
(* What was written is read back.                                          *)

\* A symbol that the code can read: not empty, and one below the greatest length.
Readable(s) == s \in Word /\ Len(s) \in 1 .. Base - 2

\* Taking apart a word that was put together with a length before it.
LEMMA TakeApart ==
  ASSUME NEW s \in Word, NEW t \in Word, NEW x \in Byte
  PROVE  LET w == (<<x>> \o s) \o t
         IN  /\ w \in Word /\ w # <<>> /\ w[1] = x /\ Len(w) = Len(s) + Len(t) + 1
             /\ SubSeq(w, 2, Len(s) + 1) = s
             /\ From(w, Len(s) + 2) = t
  <1> DEFINE w == (<<x>> \o s) \o t
  <1>1. /\ w \in Word /\ w # <<>> /\ Len(w) = Len(s) + Len(t) + 1 /\ w[1] = x
        /\ \A i \in 1 .. Len(s) : w[i + 1] = s[i]
        /\ \A i \in 1 .. Len(t) : w[Len(s) + 1 + i] = t[i]
    BY DEF Word
  <1>2. Len(s) \in Nat /\ Len(t) \in Nat
    BY DEF Word
  <1>3. SubSeq(w, 2, Len(s) + 1) = s
    <2> DEFINE u == SubSeq(w, 2, Len(s) + 1)
    <2>1. u \in Word /\ Len(u) = Len(s) /\ \A i \in 1 .. Len(s) : u[i] = w[i + 1]
      BY <1>1, <1>2 DEF Word
    <2>2. \A i \in 1 .. Len(s) : u[i] = s[i]
      BY <1>1, <2>1
    <2>3. QED BY <1>2, <2>1, <2>2 DEF Word
  <1>4. From(w, Len(s) + 2) = t
    <2> DEFINE u == SubSeq(w, Len(s) + 2, Len(w))
    <2>1. u \in Word /\ Len(u) = Len(t) /\ \A i \in 1 .. Len(t) : u[i] = w[Len(s) + 1 + i]
      BY <1>1, <1>2 DEF Word
    <2>2. \A i \in 1 .. Len(t) : u[i] = t[i]
      BY <1>1, <2>1
    <2>3. QED BY <1>2, <2>1, <2>2 DEF Word, From
  <1>5. QED BY <1>1, <1>3, <1>4

\* A symbol is read back, whatever follows it.
LEMMA SymReadBack ==
  ASSUME NEW s, Readable(s), NEW t \in Word
  PROVE  /\ writeSym(s) \in Word
         /\ instructionSplit(writeSym(s) \o t) = Read("ok", s, t)
  <1>1. s \in Word /\ Len(s) \in Nat /\ Len(s) \in Byte /\ Len(t) \in Nat
    BY BaseIsNat DEF Readable, Byte, Word
  <1>2. writeSym(s) = <<Len(s)>> \o s
    BY <1>1, BaseIsNat DEF writeSym, Readable
  <1> DEFINE w == (<<Len(s)>> \o s) \o t
  <1>3. /\ w # <<>> /\ w[1] = Len(s) /\ Len(w) = Len(s) + Len(t) + 1
        /\ SubSeq(w, 2, Len(s) + 1) = s /\ From(w, Len(s) + 2) = t
    BY <1>1, TakeApart
  <1>4. (Len(s) + 1) % Base # 0
    <2>1. Len(s) + 1 \in 1 .. Base - 1
      BY BaseIsNat DEF Readable
    <2>2. QED BY <2>1, BaseIsNat
  <1> HIDE DEF w
  <1>5. instructionSplit(w) = Read("ok", s, t)
    <2>1. ~(w = <<>> \/ w[1] = 0 \/ Len(w) < w[1])
      BY <1>1, <1>3 DEF Readable
    <2>2. ~((w[1] + 1) % Base = 0 \/ Len(w) < w[1] + 1)
      BY <1>1, <1>3, <1>4
    <2>3. instructionSplit(w) = Read("ok", SubSeq(w, 2, w[1] + 1), From(w, w[1] + 2))
      BY <2>1, <2>2 DEF instructionSplit
    <2>4. QED BY <1>3, <2>3
  <1>6. QED BY <1>1, <1>2, <1>5, ConsIsWord DEF w

\* Division.
LEMMA TimesIsMonotonic ==
  ASSUME NEW p \in Nat, NEW x \in Int, NEW y \in Int, x <= y
  PROVE  p * x <= p * y
  <1>1. p * (y - x) >= 0
    BY Z3
  <1>2. p * (y - x) = p * y - p * x
    BY Z3
  <1>3. QED BY <1>1, <1>2

\* Rules of products, for a prover that does not find them in larger steps.
LEMMA Multiplies ==
  ASSUME NEW x \in Int, NEW y \in Int, NEW z \in Int
  PROVE  /\ x * (y + z) = x * y + x * z
         /\ x * (y * z) = (x * y) * z
         /\ x * y = y * x /\ x * y \in Int
  BY Z3

\* Quotient and remainder.
LEMMA Division ==
  ASSUME NEW a \in Nat, NEW d \in Nat \ {0}
  PROVE  a = d * (a \div d) + (a % d) /\ a \div d \in Nat /\ a % d \in 0 .. d - 1
  OBVIOUS

\* There is one quotient and one remainder.
LEMMA DivIsUnique ==
  ASSUME NEW d \in Nat \ {0}, NEW y \in Nat, NEW e \in 0 .. d - 1
  PROVE  (d * y + e) \div d = y /\ (d * y + e) % d = e
  <1> DEFINE a == d * y + e
  <1>1. a \in Nat
    BY Z3
  <1> HIDE DEF a
  <1>2. PICK z \in Nat, f \in 0 .. d - 1 : z = a \div d /\ f = a % d /\ a = d * z + f
    BY <1>1
  <1>3. a = d * y + e
    BY DEF a
  <1>4. ~(y + 1 <= z)
    <2>1. SUFFICES ASSUME y + 1 <= z PROVE FALSE
      OBVIOUS
    <2>2. d * (y + 1) <= d * z
      BY <2>1, TimesIsMonotonic
    <2>3. d * (y + 1) = d * y + d
      BY Z3
    <2>4. QED BY <1>2, <1>3, <2>2, <2>3
  <1>5. ~(z + 1 <= y)
    <2>1. SUFFICES ASSUME z + 1 <= y PROVE FALSE
      OBVIOUS
    <2>2. d * (z + 1) <= d * y
      BY <2>1, TimesIsMonotonic
    <2>3. d * (z + 1) = d * z + d
      BY Z3
    <2>4. QED BY <1>2, <1>3, <2>2, <2>3
  <1>6. y = z
    BY <1>4, <1>5
  <1>7. QED BY <1>2, <1>3, <1>6 DEF a

\* Dividing by a product is dividing twice.
LEMMA DivTwice ==
  ASSUME NEW a \in Nat, NEW p \in Nat \ {0}, NEW q \in Nat \ {0}
  PROVE  a \div (p * q) = (a \div p) \div q
  <1>1. PICK x \in Nat, r \in 0 .. p - 1 : x = a \div p /\ a = p * x + r
    OBVIOUS
  <1>2. PICK y \in Nat, s \in 0 .. q - 1 : y = x \div q /\ x = q * y + s
    OBVIOUS
  <1> DEFINE e == p * s + r
  <1>3. a = (p * q) * y + e
    <2>1. p * x = p * (q * y) + p * s
      BY <1>2, Z3
    <2>2. p * (q * y) = (p * q) * y
      BY Z3
    <2>3. QED BY <1>1, <2>1, <2>2
  <1>4. e \in 0 .. p * q - 1 /\ p * q \in Nat \ {0}
    <2>1. p * s <= p * (q - 1)
      BY TimesIsMonotonic
    <2>2. p * (q - 1) = p * q - p
      BY Z3
    <2>3. p * s \in Nat /\ p * q \in Nat \ {0}
      BY Z3
    <2>4. QED BY <2>1, <2>2, <2>3
  <1> HIDE DEF e
  <1>5. a \div (p * q) = y
    BY <1>3, <1>4, DivIsUnique
  <1>6. QED BY <1>1, <1>2, <1>5

\* What a number of four bytes is made of.
LEMMA FourDigits ==
  ASSUME NEW n \in 0 .. Base * Base * Base * Base - 1
  PROVE  LET r(i) == (n \div Power[i]) % Base
         IN  /\ n = r(1) * Power[1] + r(2) * Power[2] + r(3) * Power[3] + r(4) * Power[4]
             /\ \A i \in 1 .. 4 : n < Power[i] => r(i) = 0
  <1>1. /\ Power[1] = 1 /\ Power[2] = Base /\ Power[3] = Base * Base
        /\ Power[4] = (Base * Base) * Base
    BY DEF Power
  <1>2. /\ n \in Nat /\ Base \in Nat \ {0} /\ Base * Base \in Nat \ {0}
        /\ (Base * Base) * Base \in Nat \ {0}
    BY BaseIsNat, PowerIsPositive, <1>1
  <1>3. PICK q1 \in Nat, r0 \in 0 .. Base - 1 :
          q1 = n \div Base /\ r0 = n % Base /\ n = Base * q1 + r0
    BY <1>2
  <1>4. PICK q2 \in Nat, r1 \in 0 .. Base - 1 :
          q2 = q1 \div Base /\ r1 = q1 % Base /\ q1 = Base * q2 + r1
    BY <1>2
  <1>5. PICK q3 \in Nat, r2 \in 0 .. Base - 1 :
          q3 = q2 \div Base /\ r2 = q2 % Base /\ q2 = Base * q3 + r2
    BY <1>2
  <1>6. n \div (Base * Base) = q2
    BY <1>2, <1>3, <1>4, DivTwice
  <1>7. n \div ((Base * Base) * Base) = q3
    BY <1>2, <1>5, <1>6, DivTwice
  <1>8. n \div 1 = n
    BY <1>2
  <1> DEFINE r(i) == (n \div Power[i]) % Base
  <1>9. r(1) = r0 /\ r(2) = r1 /\ r(3) = r2 /\ r(4) = q3 % Base
    BY <1>1, <1>3, <1>4, <1>5, <1>6, <1>7, <1>8
  <1>10. n = r0 + Base * r1 + (Base * Base) * r2 + ((Base * Base) * Base) * q3
    <2>1. Base * q2 = Base * (Base * q3) + Base * r2
      BY <1>2, <1>5, Multiplies
    <2>2. Base * q1 = Base * (Base * q2) + Base * r1
      BY <1>2, <1>4, Multiplies
    <2>3. Base * (Base * q2) = (Base * Base) * q2
      BY <1>2, Multiplies
    <2>4. (Base * Base) * q2 = (Base * Base) * (Base * q3) + (Base * Base) * r2
      BY <1>2, <1>5, Multiplies
    <2>5. (Base * Base) * (Base * q3) = ((Base * Base) * Base) * q3
      BY <1>2, Multiplies
    <2>6. /\ Base * r1 \in Int /\ (Base * Base) * r2 \in Int
          /\ ((Base * Base) * Base) * q3 \in Int
      BY <1>2, Multiplies
    <2>7. Base * q1 = ((Base * Base) * Base) * q3 + (Base * Base) * r2 + Base * r1
      BY <2>2, <2>3, <2>4, <2>5, <2>6
    <2>8. QED BY <1>3, <2>6, <2>7
  <1>11. q3 % Base = q3
    <2>1. n \div (((Base * Base) * Base) * Base) = q3 \div Base
      BY <1>2, <1>7, DivTwice
    <2>2. SUFFICES ASSUME ~(q3 < Base) PROVE FALSE
      BY <1>2
    <2>3. ((Base * Base) * Base) * Base <= ((Base * Base) * Base) * q3
      BY <1>2, <2>2, TimesIsMonotonic
    <2>4. Base * r1 \in Nat /\ (Base * Base) * r2 \in Nat
      BY <1>2, Z3
    <2>5. n < ((Base * Base) * Base) * Base
      BY <1>2
    <2>6. QED BY <1>10, <2>3, <2>4, <2>5, <1>2
  <1>12. n = r(1) * Power[1] + r(2) * Power[2] + r(3) * Power[3] + r(4) * Power[4]
    <2>1. /\ Base * r1 = r1 * Base /\ (Base * Base) * r2 = r2 * (Base * Base)
          /\ ((Base * Base) * Base) * q3 = q3 * ((Base * Base) * Base)
      BY <1>2, Z3
    <2>2. QED BY <1>1, <1>9, <1>10, <1>11, <2>1
  <1>13. ASSUME NEW i \in 1 .. 4, n < Power[i] PROVE r(i) = 0
    <2>1. Power[i] \in Nat \ {0}
      BY PowerIsPositive
    <2>2. n \div Power[i] = 0
      BY <1>2, <1>13, <2>1
    <2>3. QED BY <1>2, <2>2
  <1>14. QED BY <1>12, <1>13

\* The shortest big-endian digits of a number make the number.
LEMMA BytesOfNumber ==
  ASSUME NEW n \in 0 .. Base * Base * Base * Base - 1
  PROVE  LET sz == numSize(n)
         IN  BigEndian([i \in 1 .. sz |-> (n \div Power[sz - i + 1]) % Base]) = n
  <1> DEFINE sz == numSize(n)
             d  == [i \in 1 .. sz |-> (n \div Power[sz - i + 1]) % Base]
             r(i) == (n \div Power[i]) % Base
             at(i) == IF i <= Len(d) THEN d[Len(d) - i + 1] * Power[i] ELSE 0
  <1>1. sz \in 1 .. 4 /\ \A i \in 1 .. 4 : i > sz => n < Power[i]
    <2>1. Base < Base * Base /\ Base * Base < Base * Base * Base
      BY BaseIsNat, Z3
    <2>2. QED BY BaseIsNat, <2>1 DEF numSize, Power
  <1> HIDE DEF sz
  <1>2. Len(d) = sz /\ \A i \in 1 .. sz : d[sz - i + 1] = r(i)
    <2>1. ASSUME NEW i \in 1 .. sz PROVE d[sz - i + 1] = r(i)
      <3>1. sz - i + 1 \in 1 .. sz /\ sz - (sz - i + 1) + 1 = i
        BY <1>1
      <3>2. QED BY <3>1
    <2>2. QED BY <1>1, <2>1
  <1> HIDE DEF d, r
  <1>3. ASSUME NEW i \in 1 .. 4 PROVE at(i) = r(i) * Power[i]
    <2>1. CASE i <= sz
      BY <1>2, <2>1
    <2>2. CASE ~(i <= sz)
      <3>1. r(i) = 0 /\ Power[i] \in Nat
        BY <1>1, <2>2, FourDigits, PowerIsPositive DEF r
      <3>2. QED BY <1>1, <1>2, <2>2, <3>1
    <2>3. QED BY <2>1, <2>2
  <1>4. BigEndian(d) = at(1) + at(2) + at(3) + at(4)
    BY <1>1, <1>2 DEF BigEndian
  <1>5. n = r(1) * Power[1] + r(2) * Power[2] + r(3) * Power[3] + r(4) * Power[4]
    BY FourDigits DEF r
  <1>6. at(1) + at(2) + at(3) + at(4) = n
    BY <1>3, <1>5
  <1> HIDE DEF at
  <1>7. BigEndian(d) = n
    BY <1>4, <1>6
  <1>8. QED BY <1>7 DEF sz, d

\* A number is read back, whatever follows it.
LEMMA SizeReadBack ==
  ASSUME NEW n \in Number, NEW t \in Word
  PROVE  /\ writeSize(n) \in Word
         /\ intSplit(writeSize(n) \o t) = Read("ok", n, t)
  <1>1. n \in 0 .. Base * Base * Base * Base - 1 /\ n \in Nat
    BY BytecodeAssumption
  <1> DEFINE sz == numSize(n)
             d  == [i \in 1 .. sz |-> (n \div Power[sz - i + 1]) % Base]
             w  == (<<sz>> \o d) \o t
  <1>2. BigEndian(d) = n
    BY <1>1, BytesOfNumber
  <1>3. sz \in 1 .. 4 /\ sz \in Byte
    BY BaseIsNat DEF numSize, Byte
  <1>4. d \in Word /\ Len(d) = sz
    <2>1. ASSUME NEW i \in 1 .. sz PROVE (n \div Power[sz - i + 1]) % Base \in Byte
      <3>1. Power[sz - i + 1] \in Nat \ {0}
        BY <1>3, PowerIsPositive
      <3>2. n \div Power[sz - i + 1] \in Nat
        BY <1>1, <3>1
      <3>3. QED BY <3>2, BaseIsNat DEF Byte
    <2> HIDE DEF sz
    <2>2. QED BY <1>3, <2>1 DEF Word
  <1>5. writeSize(n) = <<sz>> \o d
    BY DEF writeSize
  <1> HIDE DEF sz, d
  <1>6. writeSize(n) \in Word
    BY <1>3, <1>4, <1>5, ConsIsWord
  <1>7. /\ w # <<>> /\ w[1] = sz /\ Len(w) = sz + Len(t) + 1
        /\ SubSeq(w, 2, sz + 1) = d /\ From(w, sz + 2) = t
    BY <1>3, <1>4, TakeApart
  <1> HIDE DEF w
  <1>8. Len(t) \in Nat
    BY DEF Word
  <1>9. ~(Len(w) < w[1] + 1)
    BY <1>3, <1>7, <1>8
  <1>10. intSplit(w) = Read("ok", BigEndian(SubSeq(w, 2, w[1] + 1)), From(w, w[1] + 2))
    BY <1>7, <1>9 DEF intSplit
  <1>11. intSplit(w) = Read("ok", n, t)
    BY <1>2, <1>7, <1>10
  <1>12. QED BY <1>5, <1>6, <1>11 DEF w

\* A flag's mode is read back, whatever follows it.
LEMMA ModeReadBack ==
  ASSUME NEW f \in Byte, NEW t \in Word
  PROVE  <<f>> \in Word /\ modeSplit(<<f>> \o t) = Read("ok", f > 0, t)
  <1>1. <<f>> \in Word /\ <<f>> \o t # <<>> /\ (<<f>> \o t)[1] = f /\ Tail(<<f>> \o t) = t
    BY DEF Word
  <1>2. QED BY <1>1 DEF modeSplit

\* What comes after two bytes.
LEMMA AfterTwo ==
  ASSUME NEW o \in Word, Len(o) = 2, NEW t \in Word
  PROVE  /\ Len(o \o t) = Len(t) + 2 /\ (o \o t)[1] = o[1] /\ (o \o t)[2] = o[2]
         /\ From(o \o t, 3) = t
  <1>1. /\ o \o t \in Word /\ Len(t) \in Nat /\ Len(o \o t) = Len(t) + 2
        /\ (o \o t)[1] = o[1] /\ (o \o t)[2] = o[2]
        /\ \A i \in 1 .. Len(t) : (o \o t)[i + 2] = t[i]
    <2>1. Len(t) \in Nat /\ o \in Seq(Byte) /\ t \in Seq(Byte)
      BY DEF Word
    <2>2. /\ Len(o \o t) = Len(o) + Len(t) /\ o \o t \in Seq(Byte)
          /\ \A i \in 1 .. Len(o) + Len(t) :
               (o \o t)[i] = IF i <= Len(o) THEN o[i] ELSE t[i - Len(o)]
      BY <2>1, ConcatProperties, Zenon
    <2>3. /\ Len(o \o t) = Len(t) + 2 /\ o \o t \in Word
          /\ \A i \in 1 .. Len(t) + 2 :
               (o \o t)[i] = IF i <= 2 THEN o[i] ELSE t[i - 2]
      BY <2>1, <2>2 DEF Word
    <2>4. \A i \in 1 .. Len(t) : i + 2 \in 1 .. Len(t) + 2 /\ ~(i + 2 <= 2) /\ (i + 2) - 2 = i
      BY <2>1
    <2>5. QED BY <2>1, <2>3, <2>4
  <1> DEFINE u == SubSeq(o \o t, 3, Len(o \o t))
  <1>2. u \in Word /\ Len(u) = Len(t) /\ \A i \in 1 .. Len(t) : u[i] = (o \o t)[i + 2]
    BY <1>1 DEF Word
  <1>3. \A i \in 1 .. Len(t) : u[i] = t[i]
    BY <1>1, <1>2
  <1>4. QED BY <1>1, <1>2, <1>3 DEF Word, From

\* An opcode is read back, whatever follows it.
LEMMA OpcodeReadBack ==
  ASSUME NEW op \in DOMAIN OpcodeIndex, NEW t \in Word
  PROVE  opSplit(writeOpcode(op) \o t) = Read("ok", op, t)
  <1> DEFINE w == writeOpcode(op) \o t
             x == OpcodeIndex[op]
  <1>1. x \in 0 .. 12 /\ OpcodeIndex["MPREV"] = 12
    BY DEF OpcodeIndex
  <1>2. /\ w[1] = x \div Base /\ w[2] = x % Base /\ Len(w) = Len(t) + 2
        /\ From(w, 3) = t
    <2>1. writeOpcode(op) \in Word /\ Len(writeOpcode(op)) = 2
      BY OpcodeIsWord DEF writeOpcode
    <2>2. QED BY <2>1, AfterTwo DEF writeOpcode
  <1>3. (x \div Base) * Base + (x % Base) = x
    <2>1. x \in Nat /\ Base \in Nat \ {0}
      BY <1>1, BaseIsNat
    <2>2. x = Base * (x \div Base) + (x % Base) /\ x \div Base \in Nat
      BY <2>1, Division
    <2>3. QED BY <2>1, <2>2, Multiplies
  <1> HIDE DEF w, x
  <1>4. ~(Len(w) < 2 \/ w[1] * Base + w[2] > OpcodeIndex["MPREV"])
    <2>1. Len(t) \in Nat
      BY DEF Word
    <2>2. w[1] * Base + w[2] = x
      BY <1>2, <1>3
    <2>3. QED BY <1>1, <1>2, <2>1, <2>2
  <1>5. opSplit(w) = Read("ok", CHOOSE o \in DOMAIN OpcodeIndex : OpcodeIndex[o] = x, t)
    BY <1>2, <1>3, <1>4 DEF opSplit
  <1>6. (CHOOSE o \in DOMAIN OpcodeIndex : OpcodeIndex[o] = x) = op
    <2>1. \A o, p \in DOMAIN OpcodeIndex : OpcodeIndex[o] = OpcodeIndex[p] => o = p
      BY DEF OpcodeIndex
    <2>2. QED BY <2>1 DEF x
  <1>7. QED BY <1>5, <1>6 DEF w

\* An instruction with exactly the arguments of its opcode, all of them readable.
\* (A "*" is only turned round where it is a selector.)
Regular(l) ==
  /\ l.code \in DOMAIN OpcodeIndex
  /\ l.code \in {"CATCH", "LOAD", "RELOAD", "MAP", "MOVE"} \cup TwoSyms => Readable(l.sym)
  /\ l.code \in {"CROAK", "NOOP", "HALT", "MSINK"} => l.sym = Absent
  /\ l.code \in {"CATCH", "CROAK", "LOAD"} => l.size # Absent
  /\ l.code \in {"RELOAD", "MAP", "MOVE", "NOOP", "HALT", "MSINK"} => l.size = Absent
  /\ l.code \in {"CATCH", "CROAK"} <=> l.flag # Absent
  /\ l.code \notin TwoSyms => l.sel = Absent
  /\ l.code \in TwoSyms => /\ l.size # Absent => Readable(Decimal[l.size]) /\ l.sel = Absent
                           /\ l.size = Absent => Readable(l.sel)
                           /\ l.code = "MOUT" => l.sym # Wild

\* The arguments that are written for a regular instruction.
Arguments(l) ==
  CASE l.code = "CATCH" -> (writeSym(l.sym) \o writeSize(l.size)) \o <<l.flag>>
    [] l.code = "CROAK" -> writeSize(l.size) \o <<l.flag>>
    [] l.code = "LOAD"  -> writeSym(l.sym) \o writeSize(l.size)
    [] l.code \in {"RELOAD", "MAP", "MOVE"} -> writeSym(l.sym)
    [] l.code \in TwoSyms -> writeSym(Selects(l)[1]) \o writeSym(Selects(l)[2])
    [] OTHER -> <<>>

\* The arguments of a regular line of two symbols can be read.
LEMMA RegularTwoSyms ==
  ASSUME NEW l, Regular(l), l.code \in TwoSyms
  PROVE  /\ Readable(l.sym)
         /\ l.size # Absent => Readable(Decimal[l.size]) /\ l.sel = Absent
         /\ l.size = Absent => Readable(l.sel)
         /\ l.code = "MOUT" => l.sym # Wild
         /\ l.flag = Absent /\ l.code # "LOAD"
  <1>1. l.code \notin {"CATCH", "CROAK"} /\ l.code # "LOAD"
    BY DEF TwoSyms
  <1>2. l.flag = Absent
    BY <1>1 DEF Regular
  <1>3. l.code \in {"CATCH", "LOAD", "RELOAD", "MAP", "MOVE"} \cup TwoSyms
    OBVIOUS
  <1>4. Readable(l.sym)
    BY <1>3 DEF Regular
  <1>5. /\ l.size # Absent => Readable(Decimal[l.size]) /\ l.sel = Absent
        /\ l.size = Absent => Readable(l.sel)
        /\ l.code = "MOUT" => l.sym # Wild
    BY DEF Regular
  <1>6. QED BY <1>1, <1>2, <1>4, <1>5

\* The arguments of a regular line can be written.
LEMMA RegularIsTyped ==
  ASSUME NEW l \in Line, Regular(l)
  PROVE  /\ l.sym # Absent => Readable(l.sym) /\ writeSym(l.sym) \in Word
         /\ l.size # Absent => l.size \in Number /\ writeSize(l.size) \in Word
         /\ l.flag # Absent => l.flag \in Byte /\ <<l.flag>> \in Word
         /\ l.code \in TwoSyms => /\ Readable(Selects(l)[1]) /\ Readable(Selects(l)[2])
                                  /\ writeSym(Selects(l)[1]) \in Word
                                  /\ writeSym(Selects(l)[2]) \in Word
  <1>1. Absent \notin Word /\ Wild \in Word /\ <<>> \in Word
    BY BytecodeAssumption DEF Word
  <1>2. l.sym # Absent => Readable(l.sym)
    BY DEF Regular, OpcodeIndex, TwoSyms
  <1>3. l.size # Absent => l.size \in Number
    BY LineAssumption
  <1>4. l.flag # Absent => l.flag \in Byte /\ <<l.flag>> \in Word
    BY LineAssumption, ModeReadBack, <1>1
  <1>5. l.code \in TwoSyms => Readable(Selects(l)[1]) /\ Readable(Selects(l)[2])
    <2>1. ASSUME l.code \in TwoSyms, l.size # Absent
          PROVE  Readable(Selects(l)[1]) /\ Readable(Selects(l)[2])
      BY <2>1, RegularTwoSyms DEF Selects
    <2>2. ASSUME l.code \in TwoSyms, l.size = Absent
          PROVE  Readable(Selects(l)[1]) /\ Readable(Selects(l)[2])
      BY <2>2, RegularTwoSyms DEF Selects
    <2>3. QED BY <2>1, <2>2
  <1>6. \A s : Readable(s) => writeSym(s) \in Word
    BY <1>1, SymReadBack
  <1>7. l.size # Absent => writeSize(l.size) \in Word
    BY <1>1, <1>3, SizeReadBack
  <1>8. QED BY <1>2, <1>3, <1>4, <1>5, <1>6, <1>7

\* What parseOne writes for a regular line is opcode and arguments.
LEMMA RegularIsWritten ==
  ASSUME NEW l \in Line, Regular(l)
  PROVE  /\ Arguments(l) \in Word
         /\ parseOne(l) = writeOpcode(l.code) \o Arguments(l)
  <1>1. Absent \notin Word /\ <<>> \in Word
    BY BytecodeAssumption DEF Word
  <1>2. writeOpcode(l.code) \in Word
    BY OpcodeIsWord DEF Regular
  <1>3. ASSUME NEW p \in Word, NEW q \in Word PROVE Then(p, q) = p \o q /\ p \o q \in Word
    BY <1>1, ConcatIsWord DEF Then
  <1> DEFINE args == IF l.sel # Absent
              THEN IF l.code = "MOUT" THEN parseTwoSymReverse(l) ELSE parseTwoSym(l)
              ELSE IF l.size # Absent
              THEN IF l.sym = Absent THEN parseFlagged(l)
                   ELSE IF l.flag # Absent THEN parseSig(l)
                   ELSE IF l.code = "LOAD" THEN parseSized(l)
                   ELSE parseTwoSym(l)
              ELSE IF l.sym = Absent \/ writeSym(l.sym) = Absent THEN <<>>
              ELSE writeSym(l.sym)
  <1>4. parseOne(l) = Then(writeOpcode(l.code), args)
    BY DEF parseOne
  <1>5. args = Arguments(l) /\ Arguments(l) \in Word
    <2>1. CASE l.code = "CATCH"
      <3>1. Arguments(l) = (writeSym(l.sym) \o writeSize(l.size)) \o <<l.flag>>
        BY <2>1 DEF Arguments, TwoSyms
      <3>2. args = parseSig(l)
        BY <1>1, <2>1 DEF Regular, Readable, TwoSyms
      <3>3. /\ writeSym(l.sym) \in Word /\ writeSize(l.size) \in Word
            /\ <<l.flag>> \in Word
        BY <1>1, <2>1, RegularIsTyped DEF Regular, Readable
      <3>4. parseSig(l) = Arguments(l) /\ Arguments(l) \in Word
        <4> DEFINE x == writeSym(l.sym)
                   y == writeSize(l.size)
                   z == <<l.flag>>
        <4>1. x \in Word /\ y \in Word /\ z \in Word
          BY <3>3
        <4>2. parseSig(l) = Then(Then(x, y), z) /\ Arguments(l) = (x \o y) \o z
          BY <3>1 DEF parseSig
        <4> HIDE DEF x, y, z
        <4>3. Then(x, y) = x \o y /\ x \o y \in Word
          BY ONLY <1>3, <4>1
        <4> DEFINE w == x \o y
        <4>4. w \in Word /\ Then(x, y) = w
          BY <4>3
        <4> HIDE DEF w
        <4>5. Then(w, z) = w \o z /\ w \o z \in Word
          BY ONLY <1>3, <4>1, <4>4
        <4>6. QED BY <4>2, <4>4, <4>5 DEF w
      <3>5. QED BY <3>2, <3>4
    <2>2. CASE l.code = "CROAK"
      <3>1. Arguments(l) = writeSize(l.size) \o <<l.flag>>
        BY <2>2 DEF Arguments, TwoSyms
      <3>2. args = parseFlagged(l)
        BY <2>2 DEF Regular, TwoSyms
      <3>3. QED BY <1>3, <2>2, <3>1, <3>2, RegularIsTyped DEF parseFlagged, Regular
    <2>3. CASE l.code = "LOAD"
      <3>1. Arguments(l) = writeSym(l.sym) \o writeSize(l.size)
        BY <2>3 DEF Arguments, TwoSyms
      <3>2. args = parseSized(l)
        BY <1>1, <2>3 DEF Regular, Readable, TwoSyms
      <3>3. writeSym(l.sym) \in Word /\ writeSize(l.size) \in Word
        BY <1>1, <2>3, RegularIsTyped DEF Regular, Readable
      <3>4. parseSized(l) = Arguments(l) /\ Arguments(l) \in Word
        BY <1>3, <3>1, <3>3 DEF parseSized
      <3>5. QED BY <3>2, <3>4
    <2>4. CASE l.code \in {"RELOAD", "MAP", "MOVE"}
      <3>1. Arguments(l) = writeSym(l.sym)
        BY <2>4 DEF Arguments, TwoSyms
      <3>2. l.sym # Absent /\ l.sel = Absent /\ l.size = Absent /\ writeSym(l.sym) \in Word
        BY <1>1, <2>4, RegularIsTyped DEF Regular, Readable, TwoSyms
      <3>3. QED BY <1>1, <3>1, <3>2
    <2>5. CASE l.code \in TwoSyms
      <3>1. Arguments(l) = writeSym(Selects(l)[1]) \o writeSym(Selects(l)[2])
        BY <2>5 DEF Arguments, TwoSyms
      <3>2. /\ writeSym(Selects(l)[1]) \in Word /\ writeSym(Selects(l)[2]) \in Word
            /\ l.sym # Absent
        BY <1>1, <2>5, RegularIsTyped DEF Regular, Readable
      <3>3. args = Then(writeSym(Selects(l)[1]), writeSym(Selects(l)[2]))
        <4>1. CASE l.size # Absent
          <5>1. l.sel = Absent /\ l.flag = Absent /\ l.code # "LOAD"
            BY <2>5, <4>1, RegularTwoSyms
          <5>2. args = parseTwoSym(l)
            BY <3>2, <4>1, <5>1
          <5>3. QED BY <4>1, <5>2 DEF parseTwoSym, Selects
        <4>2. CASE l.size = Absent
          <5>1. l.sel # Absent
            BY <1>1, <2>5, <4>2, RegularTwoSyms DEF Readable
          <5>2. args = IF l.code = "MOUT" THEN parseTwoSymReverse(l) ELSE parseTwoSym(l)
            BY <5>1
          <5>3. l.code = "MOUT" => l.sym # Wild
            BY <2>5, RegularTwoSyms
          <5>4. QED BY <4>2, <5>2, <5>3 DEF parseTwoSym, parseTwoSymReverse, Selects
        <4>3. QED BY <4>1, <4>2
      <3>4. QED BY <1>3, <3>1, <3>2, <3>3
    <2>6. CASE l.code \in {"NOOP", "HALT", "MSINK"}
      <3>1. Arguments(l) = <<>>
        BY <2>6 DEF Arguments, TwoSyms
      <3>2. QED BY <1>1, <2>6, <3>1 DEF Regular, TwoSyms
    <2>7. QED BY <2>1, <2>2, <2>3, <2>4, <2>5, <2>6 DEF Regular, OpcodeIndex, TwoSyms
  <1>6. QED BY <1>2, <1>3, <1>4, <1>5

\* Sequences are the same when their elements are.
LEMMA SameSeq ==
  ASSUME NEW S, NEW s \in Seq(S), NEW t \in Seq(S), Len(s) = Len(t),
         \A i \in 1 .. Len(s) : s[i] = t[i]
  PROVE  s = t
  OBVIOUS

\* Arguments that are read one after the other.
LEMMA AppendOne ==
  ASSUME NEW u, NEW v
  PROVE  Append(<<u>>, v) = <<u, v>>
  <1> DEFINE S == {u, v}
  <1>1. <<u>> \in Seq(S) /\ <<u, v>> \in Seq(S) /\ Len(<<u>>) = 1 /\ Len(<<u, v>>) = 2
    OBVIOUS
  <1>2. Append(<<u>>, v) \in Seq(S) /\ Len(Append(<<u>>, v)) = 2
    BY <1>1
  <1>3. \A i \in 1 .. 2 : Append(<<u>>, v)[i] = <<u, v>>[i]
    BY <1>1
  <1>4. QED BY <1>1, <1>2, <1>3, SameSeq

\* A pair and a third.
LEMMA AppendTwo ==
  ASSUME NEW u, NEW v, NEW w
  PROVE  Append(<<u, v>>, w) = <<u, v, w>>
  <1> DEFINE S == {u, v, w}
  <1>1. /\ <<u, v>> \in Seq(S) /\ <<u, v, w>> \in Seq(S)
        /\ Len(<<u, v>>) = 2 /\ Len(<<u, v, w>>) = 3
    OBVIOUS
  <1>2. Append(<<u, v>>, w) \in Seq(S) /\ Len(Append(<<u, v>>, w)) = 3
    BY <1>1
  <1>3. \A i \in 1 .. 3 : Append(<<u, v>>, w)[i] = <<u, v, w>>[i]
    BY <1>1
  <1>4. QED BY <1>1, <1>2, <1>3, SameSeq

\* A symbol read after other arguments.
LEMMA SymRead ==
  ASSUME NEW a, NEW s, NEW x, NEW t, instructionSplit(s) = Read("ok", x, t)
  PROVE  AndSym(Read("ok", a, s)) = Read("ok", Append(a, x), t)
  <1> DEFINE r == Read("ok", a, s)
  <1>1. r.rest = s /\ r.st = "ok" /\ r.val = a
    BY DEF Read
  <1>2. /\ Read("ok", x, t).st = "ok" /\ Read("ok", x, t).val = x
        /\ Read("ok", x, t).rest = t
    BY DEF Read
  <1> HIDE DEF r
  <1>3. And(r, Read("ok", x, t)) = Read("ok", Append(a, x), t)
    BY <1>1, <1>2 DEF And
  <1>4. AndSym(r) = And(r, instructionSplit(s))
    BY <1>1 DEF AndSym
  <1>5. QED BY <1>3, <1>4 DEF r

\* A number read after other arguments.
LEMMA SizeRead ==
  ASSUME NEW a, NEW s, NEW x, NEW t, intSplit(s) = Read("ok", x, t)
  PROVE  AndSize(Read("ok", a, s)) = Read("ok", Append(a, x), t)
  <1> DEFINE r == Read("ok", a, s)
  <1>1. r.rest = s /\ r.st = "ok" /\ r.val = a
    BY DEF Read
  <1>2. /\ Read("ok", x, t).st = "ok" /\ Read("ok", x, t).val = x
        /\ Read("ok", x, t).rest = t
    BY DEF Read
  <1> HIDE DEF r
  <1>3. And(r, Read("ok", x, t)) = Read("ok", Append(a, x), t)
    BY <1>1, <1>2 DEF And
  <1>4. AndSize(r) = And(r, intSplit(s))
    BY <1>1 DEF AndSize
  <1>5. QED BY <1>3, <1>4 DEF r

\* A mode read after other arguments.
LEMMA ModeRead ==
  ASSUME NEW a, NEW s, NEW x, NEW t, modeSplit(s) = Read("ok", x, t)
  PROVE  AndMode(Read("ok", a, s)) = Read("ok", Append(a, x), t)
  <1> DEFINE r == Read("ok", a, s)
  <1>1. r.rest = s /\ r.st = "ok" /\ r.val = a
    BY DEF Read
  <1>2. /\ Read("ok", x, t).st = "ok" /\ Read("ok", x, t).val = x
        /\ Read("ok", x, t).rest = t
    BY DEF Read
  <1> HIDE DEF r
  <1>3. And(r, Read("ok", x, t)) = Read("ok", Append(a, x), t)
    BY <1>1, <1>2 DEF And
  <1>4. AndMode(r) = And(r, modeSplit(s))
    BY <1>1 DEF AndMode
  <1>5. QED BY <1>3, <1>4 DEF r

\* A first argument.
LEMMA AppendNone ==
  ASSUME NEW x
  PROVE  Append(<<>>, x) = <<x>>
  OBVIOUS

\* parseSym reads one symbol.
LEMMA ReadSym ==
  ASSUME NEW s, NEW x, NEW t, instructionSplit(s) = Read("ok", x, t)
  PROVE  parseSym(s) = Read("ok", <<x>>, t)
  <1>1. \A a : AndSym(Read("ok", a, s)) = Read("ok", Append(a, x), t)
    BY SymRead
  <1>2. AndSym(Read("ok", <<>>, s)) = Read("ok", Append(<<>>, x), t)
    BY <1>1
  <1>3. QED BY <1>2, AppendNone DEF parseSym, parseNoArg

\* parseTwoSym reads two.
LEMMA ReadTwoSyms ==
  ASSUME NEW s, NEW x, NEW r, instructionSplit(s) = Read("ok", x, r),
         NEW y, NEW t, instructionSplit(r) = Read("ok", y, t)
  PROVE  parseTwoSyms(s) = Read("ok", <<x, y>>, t)
  <1>1. parseSym(s) = Read("ok", <<x>>, r)
    BY ReadSym
  <1>2. AndSym(Read("ok", <<x>>, r)) = Read("ok", Append(<<x>>, y), t)
    BY SymRead
  <1>3. QED BY <1>1, <1>2, AppendOne DEF parseTwoSyms

\* parseSymLen reads a symbol and a number.
LEMMA ReadSymLen ==
  ASSUME NEW s, NEW x, NEW r, instructionSplit(s) = Read("ok", x, r),
         NEW n, NEW t, intSplit(r) = Read("ok", n, t)
  PROVE  parseSymLen(s) = Read("ok", <<x, n>>, t)
  <1>1. parseSym(s) = Read("ok", <<x>>, r)
    BY ReadSym
  <1>2. AndSize(Read("ok", <<x>>, r)) = Read("ok", Append(<<x>>, n), t)
    BY SizeRead
  <1>3. QED BY <1>1, <1>2, AppendOne DEF parseSymLen

\* parseSymSig reads a symbol, a number and a mode.
LEMMA ReadSymSig ==
  ASSUME NEW s, NEW x, NEW r, instructionSplit(s) = Read("ok", x, r),
         NEW n, NEW m, intSplit(r) = Read("ok", n, m),
         NEW f, NEW t, modeSplit(m) = Read("ok", f, t)
  PROVE  parseSymSig(s) = Read("ok", <<x, n, f>>, t)
  <1>1. parseSymLen(s) = Read("ok", <<x, n>>, m)
    BY ReadSymLen
  <1>2. AndMode(Read("ok", <<x, n>>, m)) = Read("ok", Append(<<x, n>>, f), t)
    BY ModeRead
  <1>3. QED BY <1>1, <1>2, AppendTwo DEF parseSymSig

\* parseSig reads a number and a mode.
LEMMA ReadSigs ==
  ASSUME NEW s, NEW n, NEW m, intSplit(s) = Read("ok", n, m),
         NEW f, NEW t, modeSplit(m) = Read("ok", f, t)
  PROVE  parseSigs(s) = Read("ok", <<n, f>>, t)
  <1>1. \A a : AndSize(Read("ok", a, s)) = Read("ok", Append(a, n), m)
    BY SizeRead
  <1>2. AndSize(parseNoArg(s)) = Read("ok", <<n>>, m)
    <2>1. AndSize(Read("ok", <<>>, s)) = Read("ok", Append(<<>>, n), m)
      BY <1>1
    <2>2. QED BY <2>1, AppendNone DEF parseNoArg
  <1>3. AndMode(Read("ok", <<n>>, m)) = Read("ok", Append(<<n>>, f), t)
    BY ModeRead
  <1>4. QED BY <1>2, <1>3, AppendOne DEF parseSigs

\* Bytes after bytes, grouped either way.
LEMMA Regroup ==
  ASSUME NEW x \in Word, NEW y \in Word, NEW z \in Word
  PROVE  (x \o y) \o z = x \o (y \o z) /\ y \o z \in Word
  BY ConcatIsWord, ConcatAssociative DEF Word

Cat(x, y) == x \o y

\* The same with a name for the operator.
LEMMA CatAssociative ==
  ASSUME NEW S, NEW x \in Seq(S), NEW y \in Seq(S), NEW z \in Seq(S)
  PROVE  Cat(Cat(x, y), z) = Cat(x, Cat(y, z))
  BY ConcatAssociative DEF Cat

\* The same of four parts.
LEMMA RegroupThree ==
  ASSUME NEW w \in Word, NEW x \in Word, NEW y \in Word, NEW z \in Word
  PROVE  Cat(Cat(Cat(w, x), y), z) = Cat(w, Cat(x, Cat(y, z)))
  <1>1. \A p, q, r \in Word : Cat(Cat(p, q), r) = Cat(p, Cat(q, r)) /\ Cat(q, r) \in Word
    BY Regroup DEF Cat
  <1>2. QED BY <1>1

\* One instruction: what asm.Parse writes of a regular line, whatever follows it, is
\* read by the vm and the disassembler as this line, and what follows is what is
\* left (asm.go:160, vm.go:29 to 230). A symbol of the greatest length is not
\* regular: it is written, but cannot be read.
THEOREM InstructionReadBack ==
  ASSUME NEW l \in Line, Regular(l), NEW t \in Word
  PROVE  LET o == opSplit(parseOne(l) \o t)
         IN  /\ o.st = "ok" /\ o.val = l.code
             /\ ParseArgs(l.code, o.rest) = Read("ok", Given(l), t)
  <1> DEFINE s == Arguments(l) \o t
  <1>2. Arguments(l) \in Word /\ writeOpcode(l.code) \in Word
    BY RegularIsWritten, OpcodeIsWord DEF Regular
  <1>3. parseOne(l) \o t = writeOpcode(l.code) \o s /\ s \in Word
    <2>1. s \in Word
      BY <1>2, Regroup
    <2>2. (writeOpcode(l.code) \o Arguments(l)) \o t = writeOpcode(l.code) \o s
      BY <1>2, Regroup
    <2>3. parseOne(l) = writeOpcode(l.code) \o Arguments(l)
      BY RegularIsWritten
    <2>4. QED BY <2>1, <2>2, <2>3
  <1>4. opSplit(parseOne(l) \o t) = Read("ok", l.code, s)
    BY <1>3, OpcodeReadBack DEF Regular
  <1>5. <<>> \o t = t /\ Absent \notin Word
    BY BytecodeAssumption DEF Word
  <1>6. ParseArgs(l.code, s) = Read("ok", Given(l), t)
    <2>1. CASE l.code = "CATCH"
      <3> DEFINE m == <<l.flag>> \o t
                 r == writeSize(l.size) \o m
      <3>1. l.sym # Absent /\ l.size # Absent /\ l.flag # Absent
        BY <1>5, <2>1 DEF Regular, Readable
      <3>2. /\ Readable(l.sym) /\ writeSym(l.sym) \in Word
            /\ l.size \in Number /\ writeSize(l.size) \in Word
            /\ l.flag \in Byte /\ <<l.flag>> \in Word
        BY <3>1, RegularIsTyped
      <3>3. s = writeSym(l.sym) \o r /\ r \in Word /\ m \in Word
        <4>1. Arguments(l) = (writeSym(l.sym) \o writeSize(l.size)) \o <<l.flag>>
          BY <2>1 DEF Arguments, TwoSyms
        <4>2. m \in Word /\ r \in Word
          BY <3>2, Regroup
        <4>3. ((writeSym(l.sym) \o writeSize(l.size)) \o <<l.flag>>) \o t
                = writeSym(l.sym) \o r
          <5> HIDE DEF s
          <5>1. Cat(Cat(Cat(writeSym(l.sym), writeSize(l.size)), <<l.flag>>), t)
                  = Cat(writeSym(l.sym), Cat(writeSize(l.size), Cat(<<l.flag>>, t)))
            BY <3>2, RegroupThree
          <5>2. QED BY <5>1 DEF Cat
        <4>4. QED BY <4>1, <4>2, <4>3
      <3>4. /\ instructionSplit(s) = Read("ok", l.sym, r)
            /\ intSplit(r) = Read("ok", l.size, m)
            /\ modeSplit(m) = Read("ok", l.flag > 0, t)
        BY <3>2, <3>3, SymReadBack, SizeReadBack, ModeReadBack
      <3> HIDE DEF s, r, m
      <3>5. parseSymSig(s) = Read("ok", <<l.sym, l.size, l.flag > 0>>, t)
        BY <3>4, ReadSymSig
      <3>6. Given(l) = <<l.sym, l.size, l.flag > 0>>
        BY <2>1 DEF Given
      <3>7. QED BY <2>1, <3>5, <3>6 DEF ParseArgs
    <2>2. CASE l.code = "CROAK"
      <3> DEFINE m == <<l.flag>> \o t
      <3>1. l.size # Absent /\ l.flag # Absent
        BY <2>2 DEF Regular
      <3>2. /\ l.size \in Number /\ writeSize(l.size) \in Word
            /\ l.flag \in Byte /\ <<l.flag>> \in Word
        BY <3>1, RegularIsTyped
      <3>3. s = writeSize(l.size) \o m /\ m \in Word
        <4>1. Arguments(l) = writeSize(l.size) \o <<l.flag>>
          BY <2>2 DEF Arguments, TwoSyms
        <4>2. m \in Word /\ (writeSize(l.size) \o <<l.flag>>) \o t = writeSize(l.size) \o m
          BY <3>2, Regroup
        <4>3. QED BY <4>1, <4>2
      <3>4. /\ intSplit(s) = Read("ok", l.size, m)
            /\ modeSplit(m) = Read("ok", l.flag > 0, t)
        BY <3>2, <3>3, SizeReadBack, ModeReadBack
      <3> HIDE DEF s, m
      <3>5. parseSigs(s) = Read("ok", <<l.size, l.flag > 0>>, t)
        BY <3>4, ReadSigs
      <3>6. Given(l) = <<l.size, l.flag > 0>>
        BY <2>2 DEF Given
      <3>7. QED BY <2>2, <3>5, <3>6 DEF ParseArgs
    <2>3. CASE l.code = "LOAD"
      <3> DEFINE r == writeSize(l.size) \o t
      <3>1. l.sym # Absent /\ l.size # Absent
        BY <1>5, <2>3 DEF Regular, Readable
      <3>2. /\ Readable(l.sym) /\ writeSym(l.sym) \in Word
            /\ l.size \in Number /\ writeSize(l.size) \in Word
        BY <3>1, RegularIsTyped
      <3>3. s = writeSym(l.sym) \o r /\ r \in Word
        <4>1. Arguments(l) = writeSym(l.sym) \o writeSize(l.size)
          BY <2>3 DEF Arguments, TwoSyms
        <4>2. r \in Word /\ (writeSym(l.sym) \o writeSize(l.size)) \o t = writeSym(l.sym) \o r
          BY <3>2, Regroup
        <4>3. QED BY <4>1, <4>2
      <3>4. /\ instructionSplit(s) = Read("ok", l.sym, r)
            /\ intSplit(r) = Read("ok", l.size, t)
        BY <3>2, <3>3, SymReadBack, SizeReadBack
      <3> HIDE DEF s, r
      <3>6. parseSymLen(s) = Read("ok", <<l.sym, l.size>>, t)
        BY <3>4, ReadSymLen
      <3>7. Given(l) = <<l.sym, l.size>>
        BY <2>3 DEF Given
      <3>8. QED BY <2>3, <3>6, <3>7 DEF ParseArgs
    <2>4. CASE l.code \in {"RELOAD", "MAP", "MOVE"}
      <3>1. l.sym # Absent /\ Readable(l.sym)
        BY <1>5, <2>4 DEF Regular, Readable
      <3>2. s = writeSym(l.sym) \o t
        BY <2>4 DEF Arguments, TwoSyms
      <3>3. instructionSplit(s) = Read("ok", l.sym, t)
        BY <3>1, <3>2, SymReadBack
      <3> HIDE DEF s
      <3>4. parseSym(s) = Read("ok", <<l.sym>>, t)
        BY <3>3, ReadSym
      <3>5. Given(l) = <<l.sym>>
        BY <2>4 DEF Given
      <3>6. QED BY <2>4, <3>4, <3>5 DEF ParseArgs
    <2>5. CASE l.code \in TwoSyms
      <3> DEFINE p == Selects(l)[1]
                 q == Selects(l)[2]
                 r == writeSym(q) \o t
      <3>1. /\ Readable(p) /\ Readable(q) /\ writeSym(p) \in Word /\ writeSym(q) \in Word
        BY <2>5, RegularIsTyped
      <3>2. s = writeSym(p) \o r /\ r \in Word
        <4>1. Arguments(l) = writeSym(p) \o writeSym(q)
          BY <2>5 DEF Arguments, TwoSyms
        <4>2. r \in Word /\ (writeSym(p) \o writeSym(q)) \o t = writeSym(p) \o r
          <5> DEFINE x == writeSym(p)
                     y == writeSym(q)
          <5>1. x \in Word /\ y \in Word /\ t \in Word
            BY <3>1
          <5> HIDE DEF x, y
          <5>2. (x \o y) \o t = x \o (y \o t) /\ y \o t \in Word
            BY ONLY <5>1, Regroup
          <5>3. QED BY <5>2 DEF x, y
        <4>3. QED BY <4>1, <4>2
      <3>3. /\ instructionSplit(s) = Read("ok", p, r)
            /\ instructionSplit(r) = Read("ok", q, t)
        BY <3>1, <3>2, SymReadBack
      <3>4. Given(l) = <<p, q>>
        <4>1. Given(l) = Selects(l)
          BY <2>5 DEF Given, TwoSyms
        <4>2. QED BY <4>1 DEF Selects
      <3> HIDE DEF s, r, p, q
      <3>6. parseTwoSyms(s) = Read("ok", <<p, q>>, t)
        BY <3>3, ReadTwoSyms
      <3>7. QED BY <2>5, <3>4, <3>6 DEF ParseArgs, TwoSyms
    <2>6. CASE l.code \in {"NOOP", "HALT", "MSINK"}
      <3>1. s = t /\ Given(l) = <<>>
        BY <1>5, <2>6 DEF Arguments, TwoSyms, Given
      <3>2. ParseArgs(l.code, s) = parseNoArg(s)
        BY <2>6 DEF ParseArgs
      <3>3. QED BY <3>1, <3>2 DEF parseNoArg
    <2>7. QED BY <2>1, <2>2, <2>3, <2>4, <2>5, <2>6 DEF Regular, OpcodeIndex, TwoSyms
  <1>7. QED BY <1>4, <1>6 DEF Read

-----------------------------------------------------------------------------
(* Beginnings of bytecode.                                                 *)

\* s is a beginning of w.
Begins(s, w) == s \in Word /\ \E u \in Word : w = s \o u

\* Words can be taken away from the front.
LEMMA WordsCancel ==
  ASSUME NEW x \in Word, NEW y \in Word, NEW z \in Word, x \o y = x \o z
  PROVE  y = z
  BY ConcatSimplifications DEF Word

\* A beginning of p and t that is not shorter than p is p and a beginning of t.
LEMMA BeginsSplit ==
  ASSUME NEW p \in Word, NEW t \in Word, NEW s, Begins(s, p \o t), Len(p) <= Len(s)
  PROVE  \E r \in Word : s = p \o r /\ Begins(r, t)
  <1>1. s \in Word
    BY DEF Begins
  <1>2. PICK u \in Word : p \o t = s \o u
    BY DEF Begins
  <1>3. Len(p) \in Nat /\ Len(s) \in Nat
    BY <1>1 DEF Word
  <1> DEFINE r == From(s, Len(p) + 1)
  <1>4. r \in Word /\ Len(r) = Len(s) - Len(p)
    BY <1>1, <1>3, RestIsWord
  <1>5. /\ \A i \in 1 .. Len(s) : (s \o u)[i] = s[i]
        /\ \A i \in 1 .. Len(p) : (p \o t)[i] = p[i]
    BY <1>1, <1>2 DEF Word
  <1>6. s = p \o r
    <2>1. /\ p \o r \in Word /\ Len(p \o r) = Len(s)
          /\ \A i \in 1 .. Len(s) : (p \o r)[i] = IF i <= Len(p) THEN p[i] ELSE r[i - Len(p)]
      BY <1>1, <1>3, <1>4 DEF Word
    <2>2. \A i \in 1 .. Len(r) : r[i] = s[i + Len(p)]
      BY <1>1, <1>3 DEF From, Word
    <2>3. \A i \in 1 .. Len(s) : (p \o r)[i] = s[i]
      <3>1. ASSUME NEW i \in 1 .. Len(s), i <= Len(p) PROVE (p \o r)[i] = s[i]
        <4>1. i \in 1 .. Len(p)
          BY <1>3, <3>1
        <4>2. p[i] = s[i]
          BY <1>2, <1>5, <4>1
        <4>3. QED BY <2>1, <3>1, <4>2
      <3>2. ASSUME NEW i \in 1 .. Len(s), ~(i <= Len(p)) PROVE (p \o r)[i] = s[i]
        <4>1. i - Len(p) \in 1 .. Len(r) /\ (i - Len(p)) + Len(p) = i
          BY <1>3, <1>4, <3>2
        <4>2. QED BY <2>1, <2>2, <3>2, <4>1
      <3>3. QED BY <3>1, <3>2
    <2>4. QED BY <1>1, <2>1, <2>3, SameSeq DEF Word
  <1>7. t = r \o u
    <2>0. (p \o r) \o u = p \o (r \o u)
      <3>1. p \in Seq(Byte) /\ r \in Seq(Byte) /\ u \in Seq(Byte)
        BY <1>4 DEF Word
      <3> HIDE DEF r
      <3>2. Cat(Cat(p, r), u) = Cat(p, Cat(r, u))
        BY ONLY <3>1, CatAssociative
      <3>3. QED BY <3>2 DEF Cat
    <2>1. p \o t = p \o (r \o u)
      BY <1>2, <1>6, <2>0
    <2>2. r \o u \in Word
      BY <1>4, ConcatIsWord
    <2>3. QED BY <2>1, <2>2, WordsCancel
  <1>8. QED BY <1>4, <1>6, <1>7 DEF Begins

\* A beginning that is not empty begins with the first byte.
LEMMA BeginsFirst ==
  ASSUME NEW x \in Byte, NEW v \in Word, NEW t \in Word, NEW s,
         Begins(s, (<<x>> \o v) \o t), s # <<>>
  PROVE  s[1] = x
  <1>1. PICK u \in Word : (<<x>> \o v) \o t = s \o u
    BY DEF Begins
  <1>2. s \in Word /\ Len(s) \in Nat \ {0}
    BY DEF Begins, Word
  <1>3. (s \o u)[1] = s[1]
    BY <1>2 DEF Word
  <1>4. ((<<x>> \o v) \o t)[1] = x
    BY TakeApart
  <1>5. QED BY <1>1, <1>3, <1>4

\* What has no end cut off is a beginning too.
LEMMA BeginsWhole ==
  ASSUME NEW w \in Word
  PROVE  Begins(w, w)
  <1>1. <<>> \in Word /\ w = w \o <<>>
    BY DEF Word
  <1>2. QED BY <1>1 DEF Begins

\* The first bytes are a beginning.
LEMMA BeginsCut ==
  ASSUME NEW w \in Word, NEW n \in 0 .. Len(w)
  PROVE  Begins(SubSeq(w, 1, n), w)
  <1>1. SubSeq(w, 1, n) \in Word /\ From(w, n + 1) \in Word
    BY DEF Word, From
  <1>2. SubSeq(w, 1, n) \o From(w, n + 1) = w
    <2>1. Len(w) \in Nat /\ 1 \in 1 .. Len(w) + 1 /\ n \in 1 - 1 .. Len(w) /\ Len(w) \in n .. Len(w)
      BY DEF Word
    <2>2. SubSeq(w, 1, n) \o SubSeq(w, n + 1, Len(w)) = SubSeq(w, 1, Len(w))
      BY <2>1, ConcatAdjacentSubSeq DEF Word
    <2>3. QED BY <2>2, SubSeqFull DEF Word, From
  <1>3. QED BY <1>1, <1>2 DEF Begins

-----------------------------------------------------------------------------
(* What is read of a beginning.                                            *)

\* A word with its length before it, cut or not, is read as it is or not at all.
LEMMA SymOfBeginning ==
  ASSUME NEW v \in Word, Len(v) < Base, NEW t \in Word, NEW s,
         Begins(s, (<<Len(v)>> \o v) \o t), instructionSplit(s).st = "ok"
  PROVE  instructionSplit(s).val = v /\ Begins(instructionSplit(s).rest, t)
  <1>1. s \in Word /\ Len(s) \in Nat /\ Len(v) \in Nat /\ Len(v) \in Byte
    BY BaseIsNat DEF Begins, Word, Byte
  <1>2. Read("ok", 0, <<>>).st = "ok" /\ Fails("error").st # "ok" /\ Fails("panic").st # "ok"
    BY DEF Read, Fails
  <1>3. /\ ~(s = <<>> \/ s[1] = 0 \/ Len(s) < s[1])
        /\ ~((s[1] + 1) % Base = 0 \/ Len(s) < s[1] + 1)
    BY <1>2 DEF instructionSplit
  <1>4. s[1] = Len(v)
    BY <1>1, <1>3, BeginsFirst
  <1>5. Readable(v)
    <2>1. Len(v) # 0 /\ (Len(v) + 1) % Base # 0
      BY <1>3, <1>4
    <2>2. Len(v) # Base - 1
      BY <2>1, BaseIsNat
    <2>3. QED BY <1>1, <2>1, <2>2, BaseIsNat DEF Readable
  <1> DEFINE p == <<Len(v)>> \o v
  <1>6. p \in Word /\ Len(p) = Len(v) + 1
    BY <1>1, ConsIsWord
  <1>7. Len(p) <= Len(s)
    BY <1>1, <1>3, <1>4, <1>6
  <1> HIDE DEF p
  <1>8. PICK r \in Word : s = p \o r /\ Begins(r, t)
    BY <1>6, <1>7, BeginsSplit DEF p
  <1>9. p = writeSym(v)
    BY <1>1, BaseIsNat DEF p, writeSym
  <1>10. instructionSplit(s) = Read("ok", v, r)
    BY <1>5, <1>8, <1>9, SymReadBack
  <1>11. QED BY <1>8, <1>10 DEF Read

\* So is a number.
LEMMA SizeOfBeginning ==
  ASSUME NEW n \in Number, NEW t \in Word, NEW s,
         Begins(s, writeSize(n) \o t), intSplit(s).st = "ok"
  PROVE  intSplit(s).val = n /\ Begins(intSplit(s).rest, t)
  <1>1. s \in Word /\ Len(s) \in Nat
    BY DEF Begins, Word
  <1>2. Fails("panic").st # "ok"
    BY DEF Read, Fails
  <1>3. s # <<>> /\ ~(Len(s) < s[1] + 1)
    BY <1>2 DEF intSplit
  <1> DEFINE sz == numSize(n)
             d  == [i \in 1 .. sz |-> (n \div Power[sz - i + 1]) % Base]
  <1>4. writeSize(n) = <<sz>> \o d
    BY DEF writeSize
  <1>5. sz \in 1 .. 4 /\ sz \in Byte
    BY BaseIsNat DEF numSize, Byte
  <1>6. d \in Word /\ Len(d) = sz
    <2>1. n \in Nat
      BY BytecodeAssumption
    <2>2. ASSUME NEW i \in 1 .. sz PROVE (n \div Power[sz - i + 1]) % Base \in Byte
      <3>1. Power[sz - i + 1] \in Nat \ {0}
        BY <1>5, PowerIsPositive
      <3>2. n \div Power[sz - i + 1] \in Nat
        BY <2>1, <3>1
      <3>3. QED BY <3>2, BaseIsNat DEF Byte
    <2> HIDE DEF sz
    <2>3. QED BY <1>5, <2>2 DEF Word
  <1> HIDE DEF sz, d
  <1>7. s[1] = sz
    BY <1>3, <1>4, <1>5, <1>6, BeginsFirst
  <1>8. writeSize(n) \in Word /\ Len(writeSize(n)) = sz + 1
    BY <1>4, <1>5, <1>6, ConsIsWord
  <1>9. Len(writeSize(n)) <= Len(s)
    BY <1>1, <1>3, <1>5, <1>7, <1>8
  <1>10. PICK r \in Word : s = writeSize(n) \o r /\ Begins(r, t)
    BY <1>8, <1>9, BeginsSplit
  <1>11. intSplit(s) = Read("ok", n, r)
    BY <1>10, SizeReadBack
  <1>12. QED BY <1>10, <1>11 DEF Read

\* And a mode.
LEMMA ModeOfBeginning ==
  ASSUME NEW f \in Byte, NEW t \in Word, NEW s,
         Begins(s, <<f>> \o t), modeSplit(s).st = "ok"
  PROVE  modeSplit(s).val = (f > 0) /\ Begins(modeSplit(s).rest, t)
  <1>1. s \in Word /\ Len(s) \in Nat
    BY DEF Begins, Word
  <1>2. Fails("error").st # "ok"
    BY DEF Read, Fails
  <1>3. s # <<>>
    BY <1>2 DEF modeSplit
  <1>4. <<f>> \in Word /\ Len(<<f>>) <= Len(s)
    BY <1>1, <1>3 DEF Word
  <1>5. PICK r \in Word : s = <<f>> \o r /\ Begins(r, t)
    BY <1>4, BeginsSplit
  <1>6. modeSplit(s) = Read("ok", f > 0, r)
    BY <1>5, ModeReadBack
  <1>7. QED BY <1>5, <1>6 DEF Read

\* And an opcode.
LEMMA OpcodeOfBeginning ==
  ASSUME NEW op \in DOMAIN OpcodeIndex, NEW t \in Word, NEW s,
         Begins(s, writeOpcode(op) \o t), opSplit(s).st = "ok"
  PROVE  opSplit(s).val = op /\ Begins(opSplit(s).rest, t)
  <1>1. s \in Word /\ Len(s) \in Nat
    BY DEF Begins, Word
  <1>2. Len(s) >= 2
    BY <1>1 DEF opSplit, Read
  <1>3. writeOpcode(op) \in Word /\ Len(writeOpcode(op)) = 2
    BY OpcodeIsWord DEF writeOpcode
  <1>4. PICK r \in Word : s = writeOpcode(op) \o r /\ Begins(r, t)
    BY <1>1, <1>2, <1>3, BeginsSplit
  <1>5. opSplit(s) = Read("ok", op, r)
    BY <1>4, OpcodeReadBack
  <1>6. QED BY <1>4, <1>5 DEF Read

\* A word as it is written, its length before it.
Counted(v) == <<Len(v)>> \o v

\* A word whose length fits in the byte before it.
Fits(v) == v \in Word /\ Len(v) < Base

\* A result that is, where it is one, a, with a beginning of t left.
Partly(r, a, t) == r.st = "ok" => r.val = a /\ Begins(r.rest, t)

\* A result that is a with t left; with panics it may be the panic of a symbol of the
\* greatest length.
Wholly(panics, r, a, t) == r = Read("ok", a, t) \/ (panics /\ r.st = "panic")

\* A word that fits is written as it is.
LEMMA CountedIsWord ==
  ASSUME NEW v, Fits(v)
  PROVE  /\ Counted(v) \in Word /\ Counted(v) # <<>>
         /\ writeSym(v) = Counted(v) /\ Text(v) = Counted(v)
  <1>1. v \in Word /\ Len(v) \in Byte /\ Len(v) \in Nat /\ Len(v) < Base
    BY BaseIsNat DEF Fits, Word, Byte
  <1>2. Counted(v) \in Word /\ Len(Counted(v)) = Len(v) + 1
    BY <1>1, ConsIsWord DEF Counted
  <1>3. Counted(v) # <<>>
    BY <1>1, <1>2
  <1>4. writeSym(v) = Counted(v)
    BY <1>1, BaseIsNat DEF writeSym, Counted
  <1>5. Len(v) % Base = Len(v)
    BY <1>1, BaseIsNat
  <1>6. QED BY <1>2, <1>3, <1>4, <1>5 DEF Text, Counted

\* A parser after others, of which both have read.
LEMMA AndIsOk ==
  ASSUME NEW r, NEW n, And(r, n).st = "ok"
  PROVE  r.st = "ok" /\ n.st = "ok" /\ And(r, n) = Read("ok", Append(r.val, n.val), n.rest)
  <1>1. r.st = "ok"
    BY DEF And
  <1>2. n.st = "ok"
    BY <1>1 DEF And
  <1>3. QED BY <1>1, <1>2 DEF And

\* A symbol after other arguments, of a beginning.
LEMMA SymPartly ==
  ASSUME NEW v, Fits(v), NEW t \in Word, NEW r, NEW a, Partly(r, a, Counted(v) \o t)
  PROVE  Partly(AndSym(r), Append(a, v), t)
  <1> DEFINE n == instructionSplit(r.rest)
  <1> SUFFICES ASSUME AndSym(r).st = "ok"
               PROVE  AndSym(r).val = Append(a, v) /\ Begins(AndSym(r).rest, t)
    BY DEF Partly
  <1>1. r.st = "ok" /\ n.st = "ok" /\ AndSym(r) = Read("ok", Append(r.val, n.val), n.rest)
    BY AndIsOk DEF AndSym
  <1>2. r.val = a /\ Begins(r.rest, Counted(v) \o t)
    BY <1>1 DEF Partly
  <1>3. v \in Word /\ Len(v) < Base
    BY DEF Fits
  <1>4. n.val = v /\ Begins(n.rest, t)
    BY <1>1, <1>2, <1>3, SymOfBeginning DEF Counted
  <1> HIDE DEF n
  <1>5. QED BY <1>1, <1>2, <1>4 DEF Read

\* A number after other arguments, of a beginning.
LEMMA SizePartly ==
  ASSUME NEW x \in Number, NEW t \in Word, NEW r, NEW a, Partly(r, a, writeSize(x) \o t)
  PROVE  Partly(AndSize(r), Append(a, x), t)
  <1> DEFINE n == intSplit(r.rest)
  <1> SUFFICES ASSUME AndSize(r).st = "ok"
               PROVE  AndSize(r).val = Append(a, x) /\ Begins(AndSize(r).rest, t)
    BY DEF Partly
  <1>1. r.st = "ok" /\ n.st = "ok" /\ AndSize(r) = Read("ok", Append(r.val, n.val), n.rest)
    BY AndIsOk DEF AndSize
  <1>2. r.val = a /\ Begins(r.rest, writeSize(x) \o t)
    BY <1>1 DEF Partly
  <1>3. n.val = x /\ Begins(n.rest, t)
    BY <1>1, <1>2, SizeOfBeginning
  <1> HIDE DEF n
  <1>4. QED BY <1>1, <1>2, <1>3 DEF Read

\* A mode after other arguments, of a beginning.
LEMMA ModePartly ==
  ASSUME NEW f \in Byte, NEW t \in Word, NEW r, NEW a, Partly(r, a, <<f>> \o t)
  PROVE  Partly(AndMode(r), Append(a, f > 0), t)
  <1> DEFINE n == modeSplit(r.rest)
  <1> SUFFICES ASSUME AndMode(r).st = "ok"
               PROVE  AndMode(r).val = Append(a, f > 0) /\ Begins(AndMode(r).rest, t)
    BY DEF Partly
  <1>1. r.st = "ok" /\ n.st = "ok" /\ AndMode(r) = Read("ok", Append(r.val, n.val), n.rest)
    BY AndIsOk DEF AndMode
  <1>2. r.val = a /\ Begins(r.rest, <<f>> \o t)
    BY <1>1 DEF Partly
  <1>3. n.val = (f > 0) /\ Begins(n.rest, t)
    BY <1>1, <1>2, ModeOfBeginning
  <1> HIDE DEF n
  <1>4. QED BY <1>1, <1>2, <1>3 DEF Read

\* A symbol that is there as a whole: only one of the greatest length cannot be read.
LEMMA SymOfWhole ==
  ASSUME NEW panics, NEW v, Fits(v), v # <<>>, panics \/ Readable(v), NEW t \in Word
  PROVE  \/ instructionSplit(Counted(v) \o t) = Read("ok", v, t)
         \/ panics /\ instructionSplit(Counted(v) \o t).st = "panic"
  <1>1. v \in Word /\ Len(v) \in Nat /\ Len(v) < Base /\ Len(v) # 0
    BY DEF Fits, Word
  <1>2. CASE Readable(v)
    BY <1>2, SymReadBack, CountedIsWord
  <1>3. CASE ~Readable(v)
    <2>1. panics /\ Len(v) = Base - 1 /\ Len(v) \in Byte
      BY <1>1, <1>3, BaseIsNat DEF Readable, Byte
    <2> DEFINE w == (<<Len(v)>> \o v) \o t
    <2>2. w \in Word /\ w # <<>> /\ w[1] = Len(v) /\ Len(w) = Len(v) + Len(t) + 1
      BY <1>1, <2>1, TakeApart
    <2>3. Len(t) \in Nat
      BY DEF Word
    <2> HIDE DEF w
    <2>4. ~(w = <<>> \/ w[1] = 0 \/ Len(w) < w[1]) /\ (w[1] + 1) % Base = 0
      BY <1>1, <2>1, <2>2, <2>3, BaseIsNat
    <2>5. instructionSplit(w) = Fails("panic")
      BY <2>4 DEF instructionSplit
    <2>6. QED BY <2>1, <2>5 DEF w, Counted, Fails, Read
  <1>4. QED BY <1>2, <1>3

\* A panic stays one.
LEMMA AndPanics ==
  ASSUME NEW r, r.st = "panic", NEW n
  PROVE  And(r, n) = r
  BY DEF And

\* A symbol after other arguments, of a whole.
LEMMA SymWholly ==
  ASSUME NEW panics, NEW v, Fits(v), v # <<>>, panics \/ Readable(v),
         NEW t \in Word, NEW r, NEW a, Wholly(panics, r, a, Counted(v) \o t)
  PROVE  Wholly(panics, AndSym(r), Append(a, v), t)
  <1> DEFINE w == Counted(v) \o t
             n == instructionSplit(w)
  <1>1. CASE r = Read("ok", a, w)
    <2>1. r.st = "ok" /\ r.val = a /\ r.rest = w
      BY <1>1 DEF Read
    <2>2. AndSym(r) = And(r, n)
      BY <2>1 DEF AndSym
    <2>3. n = Read("ok", v, t) \/ (panics /\ n.st = "panic")
      BY SymOfWhole
    <2> HIDE DEF n, w
    <2>4. CASE n = Read("ok", v, t)
      <3>1. n.st = "ok" /\ n.val = v /\ n.rest = t
        BY <2>4 DEF Read
      <3>2. And(r, n) = Read("ok", Append(a, v), t)
        BY <2>1, <3>1 DEF And
      <3>3. QED BY <2>2, <3>2 DEF Wholly
    <2>5. CASE panics /\ n.st = "panic"
      <3>1. And(r, n) = n
        BY <2>1, <2>5 DEF And
      <3>2. QED BY <2>2, <2>5, <3>1 DEF Wholly
    <2>6. QED BY <2>3, <2>4, <2>5
  <1>2. CASE panics /\ r.st = "panic"
    BY <1>2, AndPanics DEF AndSym, Wholly
  <1>3. QED BY <1>1, <1>2 DEF Wholly

\* A number after other arguments, of a whole.
LEMMA SizeWholly ==
  ASSUME NEW panics, NEW x \in Number,
         NEW t \in Word, NEW r, NEW a, Wholly(panics, r, a, writeSize(x) \o t)
  PROVE  Wholly(panics, AndSize(r), Append(a, x), t)
  <1>1. CASE r = Read("ok", a, writeSize(x) \o t)
    <2>1. intSplit(writeSize(x) \o t) = Read("ok", x, t)
      BY SizeReadBack
    <2>2. QED BY <1>1, <2>1, SizeRead DEF Wholly
  <1>2. CASE panics /\ r.st = "panic"
    BY <1>2, AndPanics DEF AndSize, Wholly
  <1>3. QED BY <1>1, <1>2 DEF Wholly

\* A mode after other arguments, of a whole.
LEMMA ModeWholly ==
  ASSUME NEW panics, NEW f \in Byte,
         NEW t \in Word, NEW r, NEW a, Wholly(panics, r, a, <<f>> \o t)
  PROVE  Wholly(panics, AndMode(r), Append(a, f > 0), t)
  <1>1. CASE r = Read("ok", a, <<f>> \o t)
    <2>1. modeSplit(<<f>> \o t) = Read("ok", f > 0, t)
      BY ModeReadBack
    <2>2. QED BY <1>1, <2>1, ModeRead DEF Wholly
  <1>2. CASE panics /\ r.st = "panic"
    BY <1>2, AndPanics DEF AndMode, Wholly
  <1>3. QED BY <1>1, <1>2 DEF Wholly

\* Whatever beginning of c, and of what follows it, has the arguments of op, has a.
ArgsMean(op, c, a) ==
  \A t \in Word : \A s : Begins(s, c \o t) => Partly(ParseArgs(op, s), a, t)

\* c before anything is read as arguments.
ArgsWhole(panics, op, c, a) ==
  \A t \in Word : Wholly(panics, ParseArgs(op, c \o t), a, t)

\* Nothing has been read yet.
LEMMA NothingRead ==
  ASSUME NEW s, NEW w, NEW panics
  PROVE  /\ Begins(s, w) => Partly(parseNoArg(s), <<>>, w)
         /\ Wholly(panics, parseNoArg(w), <<>>, w)
  BY DEF parseNoArg, Read, Partly, Wholly

\* One symbol.
LEMMA SymArgs ==
  ASSUME NEW v, Fits(v), NEW t \in Word
  PROVE  /\ \A s : Begins(s, Counted(v) \o t) => Partly(parseSym(s), <<v>>, t)
         /\ \A panics : (v # <<>> /\ (panics \/ Readable(v)))
                          => Wholly(panics, parseSym(Counted(v) \o t), <<v>>, t)
  <1>1. Append(<<>>, v) = <<v>>
    BY AppendNone
  <1>2. ASSUME NEW s, Begins(s, Counted(v) \o t) PROVE Partly(parseSym(s), <<v>>, t)
    <2>1. Partly(parseNoArg(s), <<>>, Counted(v) \o t)
      BY <1>2, NothingRead
    <2>2. Partly(AndSym(parseNoArg(s)), Append(<<>>, v), t)
      BY <2>1, SymPartly
    <2>3. QED BY <1>1, <2>2 DEF parseSym
  <1>3. ASSUME NEW panics, v # <<>>, panics \/ Readable(v)
        PROVE  Wholly(panics, parseSym(Counted(v) \o t), <<v>>, t)
    <2> DEFINE w == Counted(v) \o t
    <2>1. Wholly(panics, parseNoArg(w), <<>>, w)
      BY NothingRead
    <2>2. Wholly(panics, AndSym(parseNoArg(w)), Append(<<>>, v), t)
      BY <1>3, <2>1, SymWholly
    <2>3. QED BY <1>1, <2>2 DEF parseSym
  <1>4. QED BY <1>2, <1>3

\* Two symbols.
LEMMA TwoSymArgs ==
  ASSUME NEW v, Fits(v), NEW w, Fits(w), NEW t \in Word
  PROVE  /\ \A s : Begins(s, Counted(v) \o (Counted(w) \o t))
                     => Partly(parseTwoSyms(s), <<v, w>>, t)
         /\ \A panics : v # <<>> /\ w # <<>> /\ (panics \/ (Readable(v) /\ Readable(w)))
                          => Wholly(panics, parseTwoSyms(Counted(v) \o (Counted(w) \o t)),
                                    <<v, w>>, t)
  <1>1. Append(<<v>>, w) = <<v, w>>
    BY AppendOne
  <1>2. Counted(w) \o t \in Word
    BY CountedIsWord, ConcatIsWord
  <1>3. ASSUME NEW s, Begins(s, Counted(v) \o (Counted(w) \o t))
        PROVE  Partly(parseTwoSyms(s), <<v, w>>, t)
    <2>1. Partly(parseSym(s), <<v>>, Counted(w) \o t)
      BY <1>2, <1>3, SymArgs
    <2>2. Partly(AndSym(parseSym(s)), Append(<<v>>, w), t)
      BY <2>1, SymPartly
    <2>3. QED BY <1>1, <2>2 DEF parseTwoSyms
  <1>4. ASSUME NEW panics, v # <<>>, w # <<>>, panics \/ (Readable(v) /\ Readable(w))
        PROVE  Wholly(panics, parseTwoSyms(Counted(v) \o (Counted(w) \o t)), <<v, w>>, t)
    <2> DEFINE x == Counted(v) \o (Counted(w) \o t)
    <2>1. Wholly(panics, parseSym(x), <<v>>, Counted(w) \o t)
      BY <1>2, <1>4, SymArgs
    <2> HIDE DEF x
    <2>2. Wholly(panics, AndSym(parseSym(x)), Append(<<v>>, w), t)
      BY <1>4, <2>1, SymWholly
    <2>3. QED BY <1>1, <2>2 DEF parseTwoSyms, x
  <1>5. QED BY <1>3, <1>4

\* A symbol and a number.
LEMMA SymLenArgs ==
  ASSUME NEW v, Fits(v), NEW x \in Number, NEW t \in Word
  PROVE  /\ \A s : Begins(s, Counted(v) \o (writeSize(x) \o t))
                     => Partly(parseSymLen(s), <<v, x>>, t)
         /\ \A panics : v # <<>> /\ (panics \/ Readable(v))
                          => Wholly(panics, parseSymLen(Counted(v) \o (writeSize(x) \o t)),
                                    <<v, x>>, t)
  <1>1. Append(<<v>>, x) = <<v, x>>
    BY AppendOne
  <1>2. writeSize(x) \o t \in Word
    <2>1. writeSize(x) \in Word
      BY SizeReadBack
    <2>2. QED BY <2>1, ConcatIsWord
  <1>3. ASSUME NEW s, Begins(s, Counted(v) \o (writeSize(x) \o t))
        PROVE  Partly(parseSymLen(s), <<v, x>>, t)
    <2>1. Partly(parseSym(s), <<v>>, writeSize(x) \o t)
      BY <1>2, <1>3, SymArgs
    <2>2. Partly(AndSize(parseSym(s)), Append(<<v>>, x), t)
      BY <2>1, SizePartly
    <2>3. QED BY <1>1, <2>2 DEF parseSymLen
  <1>4. ASSUME NEW panics, v # <<>>, panics \/ Readable(v)
        PROVE  Wholly(panics, parseSymLen(Counted(v) \o (writeSize(x) \o t)), <<v, x>>, t)
    <2> DEFINE y == Counted(v) \o (writeSize(x) \o t)
    <2>1. Wholly(panics, parseSym(y), <<v>>, writeSize(x) \o t)
      BY <1>2, <1>4, SymArgs
    <2> HIDE DEF y
    <2>2. Wholly(panics, AndSize(parseSym(y)), Append(<<v>>, x), t)
      BY <2>1, SizeWholly
    <2>3. QED BY <1>1, <2>2 DEF parseSymLen, y
  <1>5. QED BY <1>3, <1>4

\* A symbol, a number and a mode.
LEMMA SymSigArgs ==
  ASSUME NEW v, Fits(v), NEW x \in Number, NEW f \in Byte, NEW t \in Word
  PROVE  /\ \A s : Begins(s, Counted(v) \o (writeSize(x) \o (<<f>> \o t)))
                     => Partly(parseSymSig(s), <<v, x, f > 0>>, t)
         /\ \A panics : v # <<>> /\ (panics \/ Readable(v))
              => Wholly(panics, parseSymSig(Counted(v) \o (writeSize(x) \o (<<f>> \o t))),
                        <<v, x, f > 0>>, t)
  <1>1. Append(<<v, x>>, f > 0) = <<v, x, f > 0>>
    BY AppendTwo
  <1>2. <<f>> \o t \in Word
    BY ModeReadBack, ConcatIsWord
  <1>3. ASSUME NEW s, Begins(s, Counted(v) \o (writeSize(x) \o (<<f>> \o t)))
        PROVE  Partly(parseSymSig(s), <<v, x, f > 0>>, t)
    <2>1. Partly(parseSymLen(s), <<v, x>>, <<f>> \o t)
      BY <1>2, <1>3, SymLenArgs
    <2>2. Partly(AndMode(parseSymLen(s)), Append(<<v, x>>, f > 0), t)
      BY <2>1, ModePartly
    <2>3. QED BY <1>1, <2>2 DEF parseSymSig
  <1>4. ASSUME NEW panics, v # <<>>, panics \/ Readable(v)
        PROVE  Wholly(panics, parseSymSig(Counted(v) \o (writeSize(x) \o (<<f>> \o t))),
                      <<v, x, f > 0>>, t)
    <2> DEFINE y == Counted(v) \o (writeSize(x) \o (<<f>> \o t))
    <2>1. Wholly(panics, parseSymLen(y), <<v, x>>, <<f>> \o t)
      BY <1>2, <1>4, SymLenArgs
    <2> HIDE DEF y
    <2>2. Wholly(panics, AndMode(parseSymLen(y)), Append(<<v, x>>, f > 0), t)
      BY <2>1, ModeWholly
    <2>3. QED BY <1>1, <2>2 DEF parseSymSig, y
  <1>5. QED BY <1>3, <1>4

\* A number and a mode.
LEMMA SigArgs ==
  ASSUME NEW x \in Number, NEW f \in Byte, NEW t \in Word
  PROVE  /\ \A s : Begins(s, writeSize(x) \o (<<f>> \o t))
                     => Partly(parseSigs(s), <<x, f > 0>>, t)
         /\ \A panics : Wholly(panics, parseSigs(writeSize(x) \o (<<f>> \o t)),
                               <<x, f > 0>>, t)
  <1>1. Append(<<x>>, f > 0) = <<x, f > 0>> /\ Append(<<>>, x) = <<x>>
    BY AppendOne, AppendNone
  <1>2. <<f>> \o t \in Word
    BY ModeReadBack, ConcatIsWord
  <1>3. ASSUME NEW s, Begins(s, writeSize(x) \o (<<f>> \o t))
        PROVE  Partly(parseSigs(s), <<x, f > 0>>, t)
    <2>1. Partly(parseNoArg(s), <<>>, writeSize(x) \o (<<f>> \o t))
      BY <1>3, NothingRead
    <2>2. Partly(AndSize(parseNoArg(s)), Append(<<>>, x), <<f>> \o t)
      BY <1>2, <2>1, SizePartly
    <2>3. Partly(AndMode(AndSize(parseNoArg(s))), Append(<<x>>, f > 0), t)
      BY <1>1, <2>2, ModePartly
    <2>4. QED BY <1>1, <2>3 DEF parseSigs
  <1>4. ASSUME NEW panics
        PROVE  Wholly(panics, parseSigs(writeSize(x) \o (<<f>> \o t)), <<x, f > 0>>, t)
    <2> DEFINE y == writeSize(x) \o (<<f>> \o t)
    <2>1. Wholly(panics, parseNoArg(y), <<>>, y)
      BY NothingRead
    <2>2. Wholly(panics, AndSize(parseNoArg(y)), Append(<<>>, x), <<f>> \o t)
      BY <1>2, <2>1, SizeWholly
    <2> HIDE DEF y
    <2>3. Wholly(panics, AndMode(AndSize(parseNoArg(y))), Append(<<x>>, f > 0), t)
      BY <1>1, <2>2, ModeWholly
    <2>4. QED BY <1>1, <2>3 DEF parseSigs, y
  <1>5. QED BY <1>3, <1>4

-----------------------------------------------------------------------------
(* Instructions.                                                           *)

\* What a turn of ParseAll reads.
Parsed(s) == LET o == opSplit(s) IN IF o.st = "ok" THEN ParseArgs(o.val, o.rest) ELSE o

\* Whatever beginning of c, and of what follows it, is read as an instruction, is read
\* as m.
ReadsAs(c, m) ==
  \A t \in Word : \A s :
    Begins(s, c \o t) /\ Parsed(s).st = "ok" =>
      opSplit(s).st = "ok" /\ <<opSplit(s).val>> \o Parsed(s).val = m /\ Begins(Parsed(s).rest, t)

\* c before anything is read.
ReadsWhole(panics, c) ==
  \A t \in Word : \/ Parsed(c \o t).st = "ok" /\ Parsed(c \o t).rest = t
                  \/ panics /\ Parsed(c \o t).st = "panic"

\* An opcode before its arguments.
LEMMA InstructionMeans ==
  ASSUME NEW op \in DOMAIN OpcodeIndex, NEW c \in Word, NEW a, ArgsMean(op, c, a)
  PROVE  ReadsAs(writeOpcode(op) \o c, <<op>> \o a)
  <1> SUFFICES ASSUME NEW t \in Word, NEW s, Begins(s, (writeOpcode(op) \o c) \o t),
                      Parsed(s).st = "ok"
               PROVE  /\ opSplit(s).st = "ok" /\ <<opSplit(s).val>> \o Parsed(s).val = <<op>> \o a
                      /\ Begins(Parsed(s).rest, t)
    BY DEF ReadsAs
  <1>1. (writeOpcode(op) \o c) \o t = writeOpcode(op) \o (c \o t) /\ c \o t \in Word
    <2>1. writeOpcode(op) \in Word
      BY OpcodeIsWord
    <2>2. QED BY <2>1, Regroup
  <1>2. opSplit(s).st = "ok"
    BY DEF Parsed
  <1>3. opSplit(s).val = op /\ Begins(opSplit(s).rest, c \o t)
    BY <1>1, <1>2, OpcodeOfBeginning
  <1>4. Parsed(s) = ParseArgs(op, opSplit(s).rest)
    BY <1>2, <1>3 DEF Parsed
  <1>5. Partly(ParseArgs(op, opSplit(s).rest), a, t)
    BY <1>3 DEF ArgsMean
  <1>6. Parsed(s).val = a /\ Begins(Parsed(s).rest, t)
    BY <1>4, <1>5 DEF Partly
  <1>7. QED BY <1>2, <1>3, <1>6

\* The same of a whole.
LEMMA InstructionWhole ==
  ASSUME NEW op \in DOMAIN OpcodeIndex, NEW c \in Word, NEW a, NEW panics,
         ArgsWhole(panics, op, c, a)
  PROVE  ReadsWhole(panics, writeOpcode(op) \o c)
  <1> SUFFICES ASSUME NEW t \in Word
               PROVE  LET r == Parsed((writeOpcode(op) \o c) \o t)
                      IN  (r.st = "ok" /\ r.rest = t) \/ (panics /\ r.st = "panic")
    BY DEF ReadsWhole
  <1>1. (writeOpcode(op) \o c) \o t = writeOpcode(op) \o (c \o t) /\ c \o t \in Word
    <2>1. writeOpcode(op) \in Word
      BY OpcodeIsWord
    <2>2. QED BY <2>1, Regroup
  <1>2. opSplit(writeOpcode(op) \o (c \o t)) = Read("ok", op, c \o t)
    BY <1>1, OpcodeReadBack
  <1>3. Parsed(writeOpcode(op) \o (c \o t)) = ParseArgs(op, c \o t)
    BY <1>2 DEF Parsed, Read
  <1>4. Wholly(panics, ParseArgs(op, c \o t), a, t)
    BY DEF ArgsWhole
  <1> DEFINE r == ParseArgs(op, c \o t)
  <1>5. Wholly(panics, r, a, t)
    BY <1>4
  <1> HIDE DEF r
  <1>6. (r.st = "ok" /\ r.rest = t) \/ (panics /\ r.st = "panic")
    BY <1>5 DEF Wholly, Read
  <1>7. QED BY <1>1, <1>3, <1>6 DEF r

\* Every instruction is at least an opcode.
LEMMA InstructionIsWord ==
  ASSUME NEW op \in DOMAIN OpcodeIndex, NEW c \in Word
  PROVE  writeOpcode(op) \o c \in Word /\ writeOpcode(op) \o c # <<>>
  <1>1. writeOpcode(op) \in Word /\ Len(writeOpcode(op)) = 2
    BY OpcodeIsWord DEF writeOpcode
  <1> DEFINE o == writeOpcode(op)
  <1> HIDE DEF o
  <1>2. Len(o \o c) = 2 + Len(c) /\ Len(c) \in Nat
    <2>1. o \in Seq(Byte) /\ c \in Seq(Byte) /\ Len(o) = 2
      BY <1>1 DEF o, Word
    <2>2. Len(o \o c) = Len(o) + Len(c)
      BY <2>1, ConcatProperties, Zenon
    <2>3. QED BY <2>1, <2>2, LenProperties
  <1>3. o \o c # <<>>
    BY <1>2
  <1>4. QED BY <1>1, <1>3, ConcatIsWord DEF o

\* The words of an argument or of the assembler's own are short.
LEMMA OwnWordsAreReadable ==
  /\ Readable(Wild) /\ Readable(NodeUp) /\ Readable(NodeNext) /\ Readable(NodePrevious)
  /\ \A n \in Number : Readable(Decimal[n])
  BY BytecodeAssumption DEF Readable

\* What can be read fits.
LEMMA ReadableFits ==
  ASSUME NEW v, Readable(v)
  PROVE  Fits(v) /\ v # <<>>
  <1>1. v \in Word /\ Len(v) \in 1 .. Base - 2
    BY DEF Readable
  <1>2. Len(v) < Base
    BY <1>1, BaseIsNat
  <1>3. QED BY <1>1, <1>2 DEF Fits

\* A word that fits is empty, readable, or of the greatest length.
LEMMA FitsOrLongest ==
  ASSUME NEW v, Fits(v), v # <<>>, Len(v) # Base - 1
  PROVE  Readable(v)
  <1>1. Len(v) \in Nat /\ Len(v) # 0 /\ Len(v) < Base
    BY DEF Fits, Word
  <1>2. QED BY <1>1, BaseIsNat DEF Readable, Fits

\* What writeSym does not refuse fits.
LEMMA SymIsWritten ==
  ASSUME NEW v \in Word, writeSym(v) # Absent
  PROVE  Fits(v) /\ writeSym(v) = Counted(v)
  <1>1. ~(Len(v) > Base - 1) /\ Len(v) \in Nat
    BY DEF writeSym, Word
  <1>2. Fits(v)
    BY <1>1, BaseIsNat DEF Fits
  <1>3. QED BY <1>2, CountedIsWord

\* Both parts were written.
LEMMA ThenIsWritten ==
  ASSUME NEW p, NEW q, Then(p, q) # Absent
  PROVE  p # Absent /\ q # Absent /\ Then(p, q) = p \o q
  BY DEF Then

\* A line that is none of a batch.
Single(l) == l \in Line /\ l.code \in DOMAIN OpcodeIndex /\ Proper(l)

\* What a line of its own has for arguments.
LEMMA SingleIsTyped ==
  ASSUME NEW l, Single(l)
  PROVE  /\ l.code \notin BatchCode
         /\ l.sym # Absent <=> l.code \in {"CATCH", "LOAD", "RELOAD", "MAP", "MOVE"} \cup TwoSyms
         /\ l.sym # Absent => l.sym \in Word
         /\ l.code \in {"CATCH", "CROAK", "LOAD"} => l.size # Absent
         /\ l.size # Absent => /\ l.size \in Number
                               /\ l.code \in {"CATCH", "CROAK", "LOAD"} \cup TwoSyms
         /\ l.flag # Absent <=> l.code \in {"CATCH", "CROAK"}
         /\ l.flag # Absent => l.flag \in Byte
         /\ l.sel # Absent <=> l.code \in TwoSyms /\ l.size = Absent
         /\ l.sel # Absent => l.sel \in Word
         /\ l.code \in {"RELOAD", "MAP", "MOVE"} => Len(l.sym) < Base
         /\ l.code = "MOUT" /\ l.sel # Absent => l.sym # Wild
  <1>1. l \in Line /\ l.code \in DOMAIN OpcodeIndex /\ Proper(l)
    BY DEF Single
  <1>2. l.code \notin BatchCode
    BY <1>1 DEF OpcodeIndex, BatchCode
  <1>3. /\ l.sym \in Word \cup {Absent} /\ l.sel \in Word \cup {Absent}
        /\ l.size \in Number \cup {Absent} /\ l.flag \in Byte \cup {Absent}
    BY <1>1, LineAssumption
  <1>4. QED BY <1>1, <1>2, <1>3 DEF Proper

\* The two symbols of a line that has two.
LEMMA TwoSymsWritten ==
  ASSUME NEW l, Single(l), l.code \in TwoSyms,
         NEW args, args = IF l.sel # Absent
                          THEN IF l.code = "MOUT" THEN parseTwoSymReverse(l) ELSE parseTwoSym(l)
                          ELSE parseTwoSym(l),
         args # Absent
  PROVE  /\ Fits(Selects(l)[1]) /\ Fits(Selects(l)[2])
         /\ args = Counted(Selects(l)[1]) \o Counted(Selects(l)[2])
         /\ Given(l) = <<Selects(l)[1], Selects(l)[2]>>
         /\ Filled(l) => Selects(l)[1] # <<>> /\ Selects(l)[2] # <<>>
         /\ Filled(l) /\ ~Longest(l) => Readable(Selects(l)[1]) /\ Readable(Selects(l)[2])
  <1> DEFINE p == Selects(l)[1]
             q == Selects(l)[2]
  <1>1. /\ l.sym # Absent /\ l.sym \in Word /\ l.code # "LOAD"
        /\ l.size # Absent => l.size \in Number
        /\ l.sel # Absent <=> l.size = Absent
        /\ l.sel # Absent => l.sel \in Word
        /\ l.code = "MOUT" /\ l.sel # Absent => l.sym # Wild
    <2>1. l.code # "LOAD"
      BY DEF TwoSyms
    <2>2. QED BY <2>1, SingleIsTyped
  <1>2. Given(l) = <<p, q>>
    <2>1. Given(l) = Selects(l)
      BY DEF Given, TwoSyms
    <2>2. QED BY <2>1 DEF Selects
  <1>3. /\ p \in Word /\ q \in Word
        /\ args = Then(writeSym(p), writeSym(q))
        /\ Filled(l) => p # <<>> /\ q # <<>>
        /\ Filled(l) /\ ~Longest(l) => Len(p) # Base - 1 /\ Len(q) # Base - 1
    <2>1. CASE l.size # Absent
      <3>1. Readable(Decimal[l.size])
        BY <1>1, <2>1, OwnWordsAreReadable
      <3>2. Decimal[l.size] \in Word /\ Decimal[l.size] # <<>> /\ Len(Decimal[l.size]) # Base - 1
        BY <3>1, BaseIsNat, ReadableFits DEF Readable
      <3>3. p = l.sym /\ q = Decimal[l.size]
        BY <2>1 DEF Selects
      <3>4. args = Then(writeSym(p), writeSym(q))
        BY <1>1, <2>1, <3>3 DEF parseTwoSym
      <3>5. /\ Filled(l) => l.sym # <<>>
            /\ ~Longest(l) => Len(l.sym) # Base - 1
        BY <1>1 DEF Filled, Longest
      <3>6. QED BY <1>1, <3>2, <3>3, <3>4, <3>5
    <2>2. CASE l.size = Absent
      <3>1. /\ Filled(l) => l.sym # <<>> /\ l.sel # <<>>
            /\ ~Longest(l) => Len(l.sym) # Base - 1 /\ Len(l.sel) # Base - 1
        BY <1>1, <2>2 DEF Filled, Longest
      <3>2. CASE l.sym = Wild
        <4>1. p = l.sel /\ q = l.sym /\ l.code # "MOUT"
          BY <1>1, <2>2, <3>2 DEF Selects
        <4>2. args = Then(writeSym(p), writeSym(q))
          BY <1>1, <2>2, <3>2, <4>1 DEF parseTwoSym
        <4>3. QED BY <1>1, <2>2, <3>1, <4>1, <4>2
      <3>3. CASE l.sym # Wild
        <4>1. p = l.sym /\ q = l.sel
          BY <2>2, <3>3 DEF Selects
        <4>2. args = Then(writeSym(p), writeSym(q))
          BY <1>1, <2>2, <3>3, <4>1 DEF parseTwoSym, parseTwoSymReverse
        <4>3. QED BY <1>1, <2>2, <3>1, <4>1, <4>2
      <3>4. QED BY <3>2, <3>3
    <2>3. QED BY <2>1, <2>2
  <1> HIDE DEF p, q
  <1>4. writeSym(p) # Absent /\ writeSym(q) # Absent /\ args = writeSym(p) \o writeSym(q)
    BY <1>3, ThenIsWritten
  <1>5. Fits(p) /\ Fits(q) /\ writeSym(p) = Counted(p) /\ writeSym(q) = Counted(q)
    BY <1>3, <1>4, SymIsWritten
  <1>6. Filled(l) /\ ~Longest(l) => Readable(p) /\ Readable(q)
    BY <1>3, <1>5, FitsOrLongest
  <1>7. QED BY <1>2, <1>3, <1>4, <1>5, <1>6 DEF p, q

\* The symbol of a line that has one fits.
LEMMA OneSymWritten ==
  ASSUME NEW l, Single(l), l.sym # Absent, writeSym(l.sym) # Absent
  PROVE  /\ Fits(l.sym) /\ writeSym(l.sym) = Counted(l.sym)
         /\ Filled(l) => l.sym # <<>>
         /\ Filled(l) /\ ~Longest(l) => Readable(l.sym)
  <1>1. l.sym \in Word
    BY SingleIsTyped
  <1>2. Fits(l.sym) /\ writeSym(l.sym) = Counted(l.sym)
    BY <1>1, SymIsWritten
  <1>3. /\ Filled(l) => l.sym # <<>>
        /\ ~Longest(l) => Len(l.sym) # Base - 1
    BY DEF Filled, Longest
  <1>4. QED BY <1>2, <1>3, FitsOrLongest

\* What is written for a line stands for what it means.
Stands(l, c) ==
  /\ c \in Word
  /\ ArgsMean(l.code, c, Given(l))
  /\ \A panics : Filled(l) /\ (panics \/ ~Longest(l)) => ArgsWhole(panics, l.code, c, Given(l))

\* Two symbols stand for themselves.
LEMMA TwoSymsStand ==
  ASSUME NEW op \in TwoSyms, NEW v, Fits(v), NEW w, Fits(w)
  PROVE  /\ Counted(v) \o Counted(w) \in Word
         /\ ArgsMean(op, Counted(v) \o Counted(w), <<v, w>>)
         /\ \A panics : v # <<>> /\ w # <<>> /\ (panics \/ (Readable(v) /\ Readable(w)))
                          => ArgsWhole(panics, op, Counted(v) \o Counted(w), <<v, w>>)
  <1>1. Counted(v) \in Word /\ Counted(w) \in Word
    BY CountedIsWord
  <1>2. ASSUME NEW t \in Word
        PROVE  (Counted(v) \o Counted(w)) \o t = Counted(v) \o (Counted(w) \o t)
    BY <1>1, Regroup
  <1>3. \A s : ParseArgs(op, s) = parseTwoSyms(s)
    BY DEF ParseArgs, TwoSyms
  <1>4. ArgsMean(op, Counted(v) \o Counted(w), <<v, w>>)
    BY <1>2, <1>3, TwoSymArgs DEF ArgsMean
  <1>5. ASSUME NEW panics, v # <<>>, w # <<>>, panics \/ (Readable(v) /\ Readable(w))
        PROVE  ArgsWhole(panics, op, Counted(v) \o Counted(w), <<v, w>>)
    BY <1>2, <1>3, <1>5, TwoSymArgs DEF ArgsWhole
  <1>6. QED BY <1>1, <1>4, <1>5, ConcatIsWord

\* What parseOne writes after the opcode.
Args(l) ==
  IF l.sel # Absent
  THEN IF l.code = "MOUT" THEN parseTwoSymReverse(l) ELSE parseTwoSym(l)
  ELSE IF l.size # Absent
  THEN IF l.sym = Absent THEN parseFlagged(l)
       ELSE IF l.flag # Absent THEN parseSig(l)
       ELSE IF l.code = "LOAD" THEN parseSized(l)
       ELSE parseTwoSym(l)
  ELSE IF l.sym = Absent \/ writeSym(l.sym) = Absent THEN <<>>
  ELSE writeSym(l.sym)

\* CATCH.
LEMMA CatchStands ==
  ASSUME NEW l, Single(l), l.code = "CATCH", Args(l) # Absent
  PROVE  Stands(l, Args(l))
  <1>1. /\ l.sym # Absent /\ l.size # Absent /\ l.flag # Absent /\ l.sel = Absent
        /\ l.size \in Number /\ l.flag \in Byte
    BY SingleIsTyped DEF TwoSyms
  <1>2. Args(l) = Then(Then(writeSym(l.sym), writeSize(l.size)), <<l.flag>>)
    BY <1>1 DEF Args, parseSig
  <1>3. Then(writeSym(l.sym), writeSize(l.size)) # Absent
    BY <1>2, ThenIsWritten
  <1>4. writeSym(l.sym) # Absent
    BY <1>3, ThenIsWritten
  <1> DEFINE v == Counted(l.sym)
             n == writeSize(l.size)
             f == <<l.flag>>
  <1>5. Args(l) = (v \o n) \o f
    <2>1. Args(l) = Then(writeSym(l.sym), writeSize(l.size)) \o <<l.flag>>
      BY <1>2, ThenIsWritten
    <2>2. Then(writeSym(l.sym), writeSize(l.size)) = writeSym(l.sym) \o writeSize(l.size)
      BY <1>3, ThenIsWritten
    <2>3. writeSym(l.sym) = Counted(l.sym)
      BY <1>1, <1>4, OneSymWritten
    <2>4. QED BY <2>1, <2>2, <2>3
  <1>6. Fits(l.sym) /\ v \in Word /\ n \in Word /\ f \in Word
    BY <1>1, <1>4, OneSymWritten, CountedIsWord, SizeReadBack, ModeReadBack
  <1>7. Given(l) = <<l.sym, l.size, l.flag > 0>>
    BY DEF Given
  <1>8. \A s : ParseArgs(l.code, s) = parseSymSig(s)
    BY DEF ParseArgs
  <1> HIDE DEF v, n, f
  <1>9. ASSUME NEW t \in Word
        PROVE  Args(l) \o t = v \o (n \o (f \o t))
    <2>1. Cat(Cat(Cat(v, n), f), t) = Cat(v, Cat(n, Cat(f, t)))
      BY <1>6, RegroupThree
    <2>2. QED BY <1>5, <2>1 DEF Cat
  <1>10. ArgsMean(l.code, Args(l), Given(l))
    BY <1>1, <1>6, <1>7, <1>8, <1>9, SymSigArgs DEF ArgsMean, v, n, f
  <1>11. ASSUME NEW panics, Filled(l), panics \/ ~Longest(l)
         PROVE  ArgsWhole(panics, l.code, Args(l), Given(l))
    <2>1. l.sym # <<>> /\ (panics \/ Readable(l.sym))
      BY <1>1, <1>4, <1>11, OneSymWritten
    <2>2. QED BY <1>1, <1>6, <1>7, <1>8, <1>9, <2>1, SymSigArgs DEF ArgsWhole, v, n, f
  <1>12. Args(l) \in Word
    <2>1. v \o n \in Word
      BY <1>6, ConcatIsWord
    <2>2. QED BY <1>5, <1>6, <2>1, ConcatIsWord
  <1>13. QED BY <1>10, <1>11, <1>12 DEF Stands

\* CROAK.
LEMMA CroakStands ==
  ASSUME NEW l, Single(l), l.code = "CROAK"
  PROVE  Stands(l, Args(l))
  <1>1. /\ l.sym = Absent /\ l.size # Absent /\ l.flag # Absent /\ l.sel = Absent
        /\ l.size \in Number /\ l.flag \in Byte
    BY SingleIsTyped DEF TwoSyms
  <1> DEFINE n == writeSize(l.size)
             f == <<l.flag>>
  <1>2. Args(l) = n \o f
    BY <1>1 DEF Args, parseFlagged
  <1>3. n \in Word /\ f \in Word
    <2>1. <<>> \in Word
      BY DEF Word
    <2>2. QED BY <1>1, <2>1, SizeReadBack, ModeReadBack
  <1>4. Given(l) = <<l.size, l.flag > 0>>
    BY DEF Given
  <1>5. \A s : ParseArgs(l.code, s) = parseSigs(s)
    BY DEF ParseArgs
  <1> HIDE DEF n, f
  <1>6. ASSUME NEW t \in Word
        PROVE  Args(l) \o t = n \o (f \o t)
    <2>1. (n \o f) \o t = n \o (f \o t)
      BY <1>3, Regroup
    <2>2. QED BY <1>2, <2>1
  <1>7. ArgsMean(l.code, Args(l), Given(l))
    BY <1>1, <1>4, <1>5, <1>6, SigArgs DEF ArgsMean, n, f
  <1>8. \A panics : ArgsWhole(panics, l.code, Args(l), Given(l))
    BY <1>1, <1>4, <1>5, <1>6, SigArgs DEF ArgsWhole, n, f
  <1>9. QED BY <1>2, <1>3, <1>7, <1>8, ConcatIsWord DEF Stands

\* LOAD.
LEMMA LoadStands ==
  ASSUME NEW l, Single(l), l.code = "LOAD", Args(l) # Absent
  PROVE  Stands(l, Args(l))
  <1>1. /\ l.sym # Absent /\ l.size # Absent /\ l.flag = Absent /\ l.sel = Absent
        /\ l.size \in Number
    BY SingleIsTyped DEF TwoSyms
  <1>2. Args(l) = Then(writeSym(l.sym), writeSize(l.size))
    BY <1>1 DEF Args, parseSized
  <1>3. writeSym(l.sym) # Absent
    BY <1>2, ThenIsWritten
  <1> DEFINE v == Counted(l.sym)
             n == writeSize(l.size)
  <1>4. Args(l) = v \o n
    <2>1. writeSym(l.sym) = v
      BY <1>1, <1>3, OneSymWritten
    <2>2. Then(v, n) # Absent
      BY <1>2, <2>1
    <2> HIDE DEF v, n
    <2>3. Then(v, n) = v \o n
      BY <2>2, ThenIsWritten
    <2>4. QED BY <1>2, <2>1, <2>3 DEF n
  <1>5. Fits(l.sym) /\ v \in Word /\ n \in Word
    BY <1>1, <1>3, OneSymWritten, CountedIsWord, SizeReadBack, ModeReadBack
  <1>6. Given(l) = <<l.sym, l.size>>
    BY DEF Given
  <1>7. \A s : ParseArgs(l.code, s) = parseSymLen(s)
    BY DEF ParseArgs
  <1> HIDE DEF v, n
  <1>8. ASSUME NEW t \in Word
        PROVE  Args(l) \o t = v \o (n \o t)
    <2>1. (v \o n) \o t = v \o (n \o t)
      BY <1>5, Regroup
    <2>2. QED BY <1>4, <2>1
  <1>9. ArgsMean(l.code, Args(l), Given(l))
    BY <1>1, <1>5, <1>6, <1>7, <1>8, SymLenArgs DEF ArgsMean, v, n
  <1>10. ASSUME NEW panics, Filled(l), panics \/ ~Longest(l)
         PROVE  ArgsWhole(panics, l.code, Args(l), Given(l))
    <2>1. l.sym # <<>> /\ (panics \/ Readable(l.sym))
      BY <1>1, <1>3, <1>10, OneSymWritten
    <2>2. QED BY <1>1, <1>5, <1>6, <1>7, <1>8, <2>1, SymLenArgs DEF ArgsWhole, v, n
  <1>11. QED BY <1>4, <1>5, <1>9, <1>10, ConcatIsWord DEF Stands

\* RELOAD, MAP and MOVE.
LEMMA SymStands ==
  ASSUME NEW l, Single(l), l.code \in {"RELOAD", "MAP", "MOVE"}
  PROVE  Stands(l, Args(l))
  <1>1. /\ l.sym # Absent /\ l.size = Absent /\ l.sel = Absent /\ l.sym \in Word
        /\ Len(l.sym) < Base
    <2>1. l.code \notin {"CATCH", "CROAK", "LOAD"} \cup TwoSyms
      BY DEF TwoSyms
    <2>2. QED BY <2>1, SingleIsTyped
  <1>2. writeSym(l.sym) # Absent /\ writeSym(l.sym) = Counted(l.sym) /\ Fits(l.sym)
        /\ Counted(l.sym) \in Word
    <2>1. Fits(l.sym)
      BY <1>1 DEF Fits
    <2>2. QED BY <2>1, CountedIsWord, BytecodeAssumption
  <1>3. Args(l) = Counted(l.sym)
    BY <1>1, <1>2 DEF Args
  <1>4. Given(l) = <<l.sym>>
    BY DEF Given
  <1>5. \A s : ParseArgs(l.code, s) = parseSym(s)
    BY DEF ParseArgs
  <1>6. ArgsMean(l.code, Args(l), Given(l))
    BY <1>2, <1>3, <1>4, <1>5, SymArgs DEF ArgsMean
  <1>7. ASSUME NEW panics, Filled(l), panics \/ ~Longest(l)
        PROVE  ArgsWhole(panics, l.code, Args(l), Given(l))
    <2>1. l.sym # <<>> /\ (panics \/ Readable(l.sym))
      BY <1>1, <1>2, <1>7, OneSymWritten
    <2>2. QED BY <1>2, <1>3, <1>4, <1>5, <2>1, SymArgs DEF ArgsWhole
  <1>8. QED BY <1>2, <1>3, <1>6, <1>7 DEF Stands

\* NOOP, HALT and MSINK have none.
LEMMA NoneStands ==
  ASSUME NEW op \in {"NOOP", "HALT", "MSINK"}
  PROVE  <<>> \in Word /\ ArgsMean(op, <<>>, <<>>) /\ \A panics : ArgsWhole(panics, op, <<>>, <<>>)
  <1>1. \A s : ParseArgs(op, s) = parseNoArg(s)
    BY DEF ParseArgs
  <1>2. <<>> \in Word /\ \A t \in Word : <<>> \o t = t
    BY DEF Word
  <1>3. QED BY <1>1, <1>2, NothingRead DEF ArgsMean, ArgsWhole

\* A line that is written stands for what it means.
LEMMA SingleStands ==
  ASSUME NEW l, Single(l), parseOne(l) # Absent
  PROVE  Stands(l, Args(l)) /\ parseOne(l) = writeOpcode(l.code) \o Args(l)
  <1>1. parseOne(l) = Then(writeOpcode(l.code), Args(l))
    BY DEF parseOne, Args
  <1>2. Args(l) # Absent /\ parseOne(l) = writeOpcode(l.code) \o Args(l)
    BY <1>1, ThenIsWritten
  <1>3. CASE l.code \in TwoSyms
    <2>1. l.sym # Absent /\ l.flag = Absent /\ l.code # "LOAD" /\ (l.sel # Absent <=> l.size = Absent)
      <3>1. l.code \notin {"CATCH", "CROAK", "LOAD"}
        BY <1>3 DEF TwoSyms
      <3>2. QED BY <1>3, <3>1, SingleIsTyped
    <2>2. Args(l) = IF l.sel # Absent
                    THEN IF l.code = "MOUT" THEN parseTwoSymReverse(l) ELSE parseTwoSym(l)
                    ELSE parseTwoSym(l)
      BY <2>1 DEF Args
    <2> DEFINE p == Selects(l)[1]
               q == Selects(l)[2]
    <2>3. /\ Fits(p) /\ Fits(q)
          /\ Args(l) = Counted(p) \o Counted(q)
          /\ Given(l) = <<p, q>>
          /\ Filled(l) => p # <<>> /\ q # <<>>
          /\ Filled(l) /\ ~Longest(l) => Readable(p) /\ Readable(q)
      BY <1>2, <1>3, <2>2, TwoSymsWritten
    <2> HIDE DEF p, q
    <2>4. /\ Args(l) \in Word
          /\ ArgsMean(l.code, Args(l), Given(l))
          /\ \A panics : p # <<>> /\ q # <<>> /\ (panics \/ (Readable(p) /\ Readable(q)))
                          => ArgsWhole(panics, l.code, Args(l), Given(l))
      BY <1>3, <2>3, TwoSymsStand
    <2>5. ASSUME NEW panics, Filled(l), panics \/ ~Longest(l)
          PROVE  ArgsWhole(panics, l.code, Args(l), Given(l))
      BY <2>3, <2>4, <2>5
    <2>6. QED BY <1>2, <2>4, <2>5 DEF Stands
  <1>4. CASE l.code \in {"NOOP", "HALT", "MSINK"}
    <2>1. l.sym = Absent /\ l.size = Absent /\ l.sel = Absent
      <3>1. l.code \notin {"CATCH", "CROAK", "LOAD", "RELOAD", "MAP", "MOVE"} \cup TwoSyms
        BY <1>4 DEF TwoSyms
      <3>2. QED BY <3>1, SingleIsTyped
    <2>2. Args(l) = <<>> /\ Given(l) = <<>>
      BY <1>4, <2>1 DEF Args, Given
    <2>3. QED BY <1>2, <1>4, <2>2, NoneStands DEF Stands
  <1>5. l.code \in DOMAIN OpcodeIndex
    BY DEF Single
  <1>6. QED BY <1>2, <1>3, <1>4, <1>5, CatchStands, CroakStands, LoadStands, SymStands
           DEF OpcodeIndex, TwoSyms

\* w is instructions, one for each of ls, each one of them related to it by R: f says
\* what is left of w before each.
Codes(R, w, ls) ==
  \E f \in [1 .. Len(ls) + 1 -> Word] :
    /\ f[1] = w /\ f[Len(ls) + 1] = <<>>
    /\ \A i \in 1 .. Len(ls) : \E c \in Word : <<c, ls[i]>> \in R /\ f[i] = c \o f[i + 1]

\* No instructions are no bytes.
LEMMA CodesNothing ==
  ASSUME NEW R, NEW w
  PROVE  Codes(R, w, <<>>) <=> w = <<>>
  <1>1. ASSUME w = <<>> PROVE Codes(R, w, <<>>)
    <2> DEFINE f == [i \in 1 .. 1 |-> <<>>]
    <2>1. <<>> \in Word /\ Len(<<>>) = 0
      BY DEF Word
    <2>2. f \in [1 .. Len(<<>>) + 1 -> Word] /\ f[1] = w /\ f[Len(<<>>) + 1] = <<>>
      BY <1>1, <2>1
    <2>3. \A i \in 1 .. Len(<<>>) : FALSE
      BY <2>1
    <2>4. QED BY <2>2, <2>3 DEF Codes
  <1>2. ASSUME Codes(R, w, <<>>) PROVE w = <<>>
    BY <1>2 DEF Codes
  <1>3. QED BY <1>1, <1>2

\* One instruction.
LEMMA CodesOne ==
  ASSUME NEW R, NEW c \in Word, NEW m, <<c, m>> \in R
  PROVE  Codes(R, c, <<m>>)
  <1> DEFINE f == [i \in 1 .. 2 |-> IF i = 1 THEN c ELSE <<>>]
  <1>1. <<>> \in Word /\ c \o <<>> = c
    BY DEF Word
  <1>2. Len(<<m>>) = 1 /\ <<m>>[1] = m
    OBVIOUS
  <1>3. f \in [1 .. Len(<<m>>) + 1 -> Word] /\ f[1] = c /\ f[Len(<<m>>) + 1] = <<>>
    BY <1>1, <1>2
  <1>4. ASSUME NEW i \in 1 .. Len(<<m>>)
        PROVE  \E d \in Word : <<d, <<m>>[i]>> \in R /\ f[i] = d \o f[i + 1]
    <2>1. i = 1
      BY <1>2
    <2>2. f[i] = c /\ f[i + 1] = <<>> /\ <<m>>[i] = m
      BY <2>1
    <2>3. <<c, <<m>>[i]>> \in R /\ f[i] = c \o f[i + 1]
      BY <1>1, <2>2
    <2>4. QED BY <2>3
  <1>5. QED BY <1>3, <1>4 DEF Codes

\* Instructions after instructions.
LEMMA CodesConcat ==
  ASSUME NEW R, NEW S, NEW v \in Word, NEW w \in Word, NEW ks \in Seq(S), NEW ls \in Seq(S),
         Codes(R, v, ks), Codes(R, w, ls)
  PROVE  Codes(R, v \o w, ks \o ls)
  <1> DEFINE m == Len(ks)
             n == Len(ls)
             all == ks \o ls
  <1>1. m \in Nat /\ n \in Nat /\ Len(all) = m + n
        /\ \A i \in 1 .. m + n : all[i] = IF i <= m THEN ks[i] ELSE ls[i - m]
    OBVIOUS
  <1> HIDE DEF m, n, all
  <1>2. PICK f \in [1 .. m + 1 -> Word] :
          /\ f[1] = v /\ f[m + 1] = <<>>
          /\ \A i \in 1 .. m : \E c \in Word : <<c, ks[i]>> \in R /\ f[i] = c \o f[i + 1]
    BY DEF Codes, m
  <1>3. PICK g \in [1 .. n + 1 -> Word] :
          /\ g[1] = w /\ g[n + 1] = <<>>
          /\ \A i \in 1 .. n : \E c \in Word : <<c, ls[i]>> \in R /\ g[i] = c \o g[i + 1]
    BY DEF Codes, n
  <1> DEFINE h == [i \in 1 .. m + n + 1 |-> IF i <= m THEN f[i] \o w ELSE g[i - m]]
  <1>4. h \in [1 .. m + n + 1 -> Word]
    <2>1. ASSUME NEW i \in 1 .. m + n + 1, i <= m PROVE f[i] \o w \in Word
      <3>1. f[i] \in Word
        BY <1>1, <1>2, <2>1
      <3>2. QED BY <3>1, ConcatIsWord
    <2>2. ASSUME NEW i \in 1 .. m + n + 1, ~(i <= m) PROVE g[i - m] \in Word
      BY <1>1, <1>3, <2>2
    <2>3. QED BY <2>1, <2>2
  <1>5. <<>> \o w = w
    BY DEF Word
  <1>6. ASSUME NEW i \in 1 .. m + 1 PROVE h[i] = f[i] \o w
    <2>1. i \in 1 .. m + n + 1
      BY <1>1
    <2>2. h[i] = IF i <= m THEN f[i] \o w ELSE g[i - m]
      BY <2>1
    <2> HIDE DEF h
    <2>3. ASSUME ~(i <= m) PROVE g[i - m] = f[i] \o w
      <3>1. i = m + 1 /\ i - m = 1
        BY <1>1, <2>3
      <3>2. g[i - m] = w /\ f[i] = <<>>
        BY <1>2, <1>3, <3>1
      <3>3. QED BY <1>5, <3>2
    <2>4. QED BY <2>2, <2>3
  <1>7. ASSUME NEW i \in 1 .. n + 1 PROVE h[m + i] = g[i]
    <2>1. m + i \in 1 .. m + n + 1 /\ ~(m + i <= m) /\ (m + i) - m = i
      BY <1>1
    <2>2. QED BY <2>1
  <1> HIDE DEF h
  <1>8. h[1] = v \o w
    <2>1. 1 \in 1 .. m + 1
      BY <1>1
    <2>2. h[1] = f[1] \o w
      BY <1>6, <2>1
    <2>3. QED BY <1>2, <2>2
  <1>9. h[m + n + 1] = <<>>
    <2>1. m + (n + 1) = m + n + 1 /\ n + 1 \in 1 .. n + 1
      BY <1>1
    <2>2. h[m + (n + 1)] = g[n + 1]
      BY <1>7, <2>1
    <2>3. QED BY <1>3, <2>1, <2>2
  <1>10. ASSUME NEW i \in 1 .. m + n
         PROVE  \E c \in Word : <<c, all[i]>> \in R /\ h[i] = c \o h[i + 1]
    <2>1. CASE i <= m
      <3>1. i \in 1 .. m /\ i \in 1 .. m + 1 /\ i + 1 \in 1 .. m + 1
        BY <1>1, <2>1
      <3>2. PICK c \in Word : <<c, ks[i]>> \in R /\ f[i] = c \o f[i + 1]
        BY <1>2, <3>1
      <3>3. f[i + 1] \in Word
        BY <1>2, <3>1
      <3>4. (c \o f[i + 1]) \o w = c \o (f[i + 1] \o w)
        <4> DEFINE x == f[i + 1]
        <4>1. c \in Word /\ x \in Word /\ w \in Word
          BY <3>3
        <4> HIDE DEF x
        <4>2. (c \o x) \o w = c \o (x \o w)
          BY ONLY <4>1, Regroup
        <4>3. QED BY <4>2 DEF x
      <3>5. h[i] = c \o h[i + 1] /\ all[i] = ks[i]
        BY <1>1, <1>6, <2>1, <3>1, <3>2, <3>4
      <3>6. QED BY <3>2, <3>5
    <2>2. CASE ~(i <= m)
      <3> DEFINE j == i - m
      <3>1. j \in 1 .. n /\ j \in 1 .. n + 1 /\ j + 1 \in 1 .. n + 1
            /\ m + j = i /\ m + (j + 1) = i + 1
        BY <1>1, <2>2
      <3>2. all[i] = ls[j]
        BY <1>1, <2>2
      <3> HIDE DEF j
      <3>3. PICK c \in Word : <<c, ls[j]>> \in R /\ g[j] = c \o g[j + 1]
        BY <1>3, <3>1
      <3>4. h[m + j] = g[j] /\ h[m + (j + 1)] = g[j + 1]
        BY <1>7, <3>1
      <3>5. h[i] = c \o h[i + 1]
        BY <3>1, <3>3, <3>4
      <3>6. QED BY <3>2, <3>3, <3>5
    <2>3. QED BY <2>1, <2>2
  <1>11. QED BY <1>1, <1>4, <1>8, <1>9, <1>10 DEF Codes, all

-----------------------------------------------------------------------------
(* A map over a source.                                                    *)

MapOf(F, s) == [i \in DOMAIN s |-> F[s[i]]]

Image(F, S) == {F[e] : e \in S}

MapFacts(F, S, s) ==
  /\ MapOf(F, s) \in Seq(Image(F, S))
  /\ Len(MapOf(F, s)) = Len(s)
  /\ \A i \in 1 .. Len(s) : MapOf(F, s)[i] = F[s[i]]

\* A map over a sequence is one.
LEMMA MapIsSeq ==
  ASSUME NEW S, NEW F, NEW s \in Seq(S)
  PROVE  MapFacts(F, S, s)
  <1>1. DOMAIN s = 1 .. Len(s) /\ Len(s) \in Nat /\ \A i \in 1 .. Len(s) : s[i] \in S
    OBVIOUS
  <1>2. MapOf(F, s) = [i \in 1 .. Len(s) |-> F[s[i]]]
    BY <1>1 DEF MapOf
  <1>3. \A i \in 1 .. Len(s) : F[s[i]] \in Image(F, S)
    BY <1>1 DEF Image
  <1>4. QED BY <1>1, <1>2, <1>3 DEF MapFacts

\* Nothing to map.
LEMMA MapOfNothing ==
  ASSUME NEW F
  PROVE  MapOf(F, <<>>) = <<>>
  BY DEF MapOf

\* A map over two sequences.
LEMMA MapOfConcat ==
  ASSUME NEW S, NEW F, NEW s \in Seq(S), NEW t \in Seq(S)
  PROVE  MapOf(F, s \o t) = MapOf(F, s) \o MapOf(F, t)
  <1> DEFINE T == Image(F, S)
             a == s \o t
             u == MapOf(F, a)
             x == MapOf(F, s)
             y == MapOf(F, t)
             v == x \o y
             m == Len(s)
             n == Len(t)
  <1>1. a \in Seq(S) /\ Len(a) = m + n /\ m \in Nat /\ n \in Nat
        /\ \A i \in 1 .. m + n : a[i] = IF i <= m THEN s[i] ELSE t[i - m]
    OBVIOUS
  <1> HIDE DEF a
  <1>2. u \in Seq(T) /\ Len(u) = Len(a) /\ \A i \in 1 .. Len(a) : u[i] = F[a[i]]
    <2>1. MapFacts(F, S, a)
      BY <1>1, MapIsSeq
    <2>2. QED BY <2>1 DEF MapFacts
  <1>3. x \in Seq(T) /\ Len(x) = m /\ \A i \in 1 .. m : x[i] = F[s[i]]
    <2>1. MapFacts(F, S, s)
      BY MapIsSeq
    <2>2. QED BY <2>1 DEF MapFacts
  <1>4. y \in Seq(T) /\ Len(y) = n /\ \A i \in 1 .. n : y[i] = F[t[i]]
    <2>1. MapFacts(F, S, t)
      BY MapIsSeq
    <2>2. QED BY <2>1 DEF MapFacts
  <1> HIDE DEF x, y, u, m, n, T
  <1>5. v \in Seq(T) /\ Len(v) = m + n
        /\ \A i \in 1 .. m + n : v[i] = IF i <= m THEN x[i] ELSE y[i - m]
    <2>0. x \in Seq(T) /\ y \in Seq(T)
      BY <1>3, <1>4
    <2>1. v \in Seq(T) /\ Len(v) = Len(x) + Len(y)
          /\ \A i \in 1 .. Len(x) + Len(y) : v[i] = IF i <= Len(x) THEN x[i] ELSE y[i - Len(x)]
      BY ONLY <2>0, ConcatProperties
    <2>2. QED BY <1>3, <1>4, <2>1
  <1> HIDE DEF v
  <1>6. ASSUME NEW i \in 1 .. m + n PROVE u[i] = v[i]
    <2>0. u[i] = F[a[i]] /\ a[i] = IF i <= m THEN s[i] ELSE t[i - m]
      BY <1>1, <1>2
    <2>1. CASE i <= m
      <3>1. i \in 1 .. m
        BY <1>1, <2>1
      <3>2. QED BY <1>3, <1>5, <2>0, <2>1, <3>1
    <2>2. CASE ~(i <= m)
      <3>1. i - m \in 1 .. n
        BY <1>1, <2>2
      <3>2. QED BY <1>4, <1>5, <2>0, <2>2, <3>1
    <2>3. QED BY <2>1, <2>2
  <1>7. u = v
    BY <1>1, <1>2, <1>5, <1>6, SeqEqual
  <1>8. QED BY <1>7 DEF u, v, a, x, y

\* One element.
LEMMA MapOfOne ==
  ASSUME NEW F, NEW e
  PROVE  MapOf(F, <<e>>) = <<F[e]>>
  BY DEF MapOf

\* One element more.
LEMMA MapOfAppend ==
  ASSUME NEW S, NEW F, NEW s \in Seq(S), NEW e \in S
  PROVE  MapOf(F, Append(s, e)) = MapOf(F, s) \o <<F[e]>>
  <1>1. Append(s, e) = s \o <<e>> /\ <<e>> \in Seq(S)
    OBVIOUS
  <1> DEFINE t == <<e>>
  <1>2. MapOf(F, s \o t) = MapOf(F, s) \o MapOf(F, t)
    <2>1. s \in Seq(S) /\ t \in Seq(S)
      BY <1>1
    <2> HIDE DEF t
    <2>2. QED BY ONLY <2>1, MapOfConcat
  <1>3. QED BY <1>1, <1>2, MapOfOne

\* c is written for line l and read as m.
Reading(l, c, m) ==
  /\ c \in Word /\ c # <<>>
  /\ ReadsAs(c, m)
  /\ \A panics : Filled(l) /\ (panics \/ ~Longest(l)) => ReadsWhole(panics, c)

\* A line of one instruction is read as what it means.
LEMMA SingleReading ==
  ASSUME NEW l, Single(l), parseOne(l) # Absent
  PROVE  Reading(l, parseOne(l), Meaning(l))
  <1> DEFINE a == Args(l)
  <1>1. Stands(l, a) /\ parseOne(l) = writeOpcode(l.code) \o a
    BY SingleStands
  <1> HIDE DEF a
  <1>2. a \in Word /\ l.code \in DOMAIN OpcodeIndex
    BY <1>1 DEF Stands, Single
  <1>3. parseOne(l) \in Word /\ parseOne(l) # <<>>
    BY <1>1, <1>2, InstructionIsWord
  <1>4. ReadsAs(parseOne(l), Meaning(l))
    <2>1. ArgsMean(l.code, a, Given(l))
      BY <1>1 DEF Stands
    <2>2. ReadsAs(writeOpcode(l.code) \o a, <<l.code>> \o Given(l))
      BY <1>2, <2>1, InstructionMeans
    <2>3. QED BY <1>1, <2>2 DEF Meaning
  <1>5. ASSUME NEW panics, Filled(l), panics \/ ~Longest(l)
        PROVE  ReadsWhole(panics, parseOne(l))
    <2>1. ArgsWhole(panics, l.code, a, Given(l))
      BY <1>1, <1>5 DEF Stands
    <2>2. ReadsWhole(panics, writeOpcode(l.code) \o a)
      BY <1>2, <2>1, InstructionWhole
    <2>3. QED BY <1>1, <2>2
  <1>6. QED BY <1>3, <1>4, <1>5 DEF Reading

\* The HALT of a menu.
LEMMA HaltReading ==
  LET c == NewLine("HALT", <<>>)
  IN  c \in Word /\ c # <<>> /\ ReadsAs(c, <<"HALT">>) /\ \A panics : ReadsWhole(panics, c)
  <1>1. "HALT" \in DOMAIN OpcodeIndex
    BY DEF OpcodeIndex
  <1>2. <<>> \in Word /\ ArgsMean("HALT", <<>>, <<>>)
        /\ \A panics : ArgsWhole(panics, "HALT", <<>>, <<>>)
    BY NoneStands
  <1>3. <<"HALT">> \o <<>> = <<"HALT">>
    OBVIOUS
  <1> DEFINE c == writeOpcode("HALT") \o <<>>
  <1>4. c \in Word /\ c # <<>>
    BY <1>1, <1>2, InstructionIsWord
  <1>5. ReadsAs(c, <<"HALT">> \o <<>>)
    BY <1>1, <1>2, InstructionMeans
  <1>6. \A panics : ReadsWhole(panics, c)
    BY <1>1, <1>2, InstructionWhole
  <1>7. c = NewLine("HALT", <<>>)
    BY DEF NewLine
  <1> HIDE DEF c
  <1>8. QED BY <1>3, <1>4, <1>5, <1>6, <1>7

\* One value before two.
LEMMA ConsTwo ==
  ASSUME NEW u, NEW v, NEW w
  PROVE  <<u>> \o <<v, w>> = <<u, v, w>>
  <1> DEFINE S == {u, v, w}
             x == <<u>>
             y == <<v, w>>
             z == <<u, v, w>>
  <1>1. x \in Seq(S) /\ y \in Seq(S) /\ z \in Seq(S)
        /\ Len(x) = 1 /\ Len(y) = 2 /\ Len(z) = 3
        /\ x[1] = u /\ y[1] = v /\ y[2] = w /\ z[1] = u /\ z[2] = v /\ z[3] = w
    OBVIOUS
  <1> HIDE DEF x, y, z, S
  <1>2. x \o y \in Seq(S) /\ Len(x \o y) = 3
        /\ \A i \in 1 .. 3 : (x \o y)[i] = IF i <= 1 THEN x[i] ELSE y[i - 1]
    <2>1. x \in Seq(S) /\ y \in Seq(S)
      BY <1>1
    <2>2. x \o y \in Seq(S) /\ Len(x \o y) = Len(x) + Len(y)
          /\ \A i \in 1 .. Len(x) + Len(y) : (x \o y)[i] = IF i <= Len(x) THEN x[i] ELSE y[i - Len(x)]
      BY <2>1, ConcatProperties
    <2>3. QED BY <1>1, <2>2
  <1>3. \A i \in 1 .. 3 : (x \o y)[i] = z[i]
    BY <1>1, <1>2
  <1>4. x \o y = z
    BY <1>1, <1>2, <1>3, SameSeq
  <1>5. QED BY <1>4 DEF x, y, z

\* An instruction with two symbols, written for l.
TwoSymLine(l, c, m) ==
  \E op \in TwoSyms : \E v \in Word, w \in Word :
    /\ Fits(v) /\ Fits(w)
    /\ c = writeOpcode(op) \o (Counted(v) \o Counted(w))
    /\ m = <<op, v, w>>
    /\ Filled(l) => v # <<>> /\ w # <<>>
    /\ Filled(l) /\ ~Longest(l) => Readable(v) /\ Readable(w)

\* It is read as one.
LEMMA TwoSymReading ==
  ASSUME NEW l, NEW c, NEW m, TwoSymLine(l, c, m)
  PROVE  Reading(l, c, m)
  <1>1. PICK op \in TwoSyms, v \in Word, w \in Word :
          /\ Fits(v) /\ Fits(w)
          /\ c = writeOpcode(op) \o (Counted(v) \o Counted(w))
          /\ m = <<op, v, w>>
          /\ Filled(l) => v # <<>> /\ w # <<>>
          /\ Filled(l) /\ ~Longest(l) => Readable(v) /\ Readable(w)
    BY DEF TwoSymLine
  <1> DEFINE a == Counted(v) \o Counted(w)
             g == <<v, w>>
  <1>2. /\ a \in Word
        /\ ArgsMean(op, a, g)
        /\ \A panics : v # <<>> /\ w # <<>> /\ (panics \/ (Readable(v) /\ Readable(w)))
                         => ArgsWhole(panics, op, a, g)
    BY <1>1, TwoSymsStand
  <1>3. c = writeOpcode(op) \o a /\ <<op>> \o g = m
    <2>1. <<op>> \o <<v, w>> = <<op, v, w>>
      BY ConsTwo
    <2>2. QED BY <1>1, <2>1
  <1>4. op \in DOMAIN OpcodeIndex
    BY DEF OpcodeIndex, TwoSyms
  <1> HIDE DEF a, g
  <1>5. c \in Word /\ c # <<>>
    BY <1>2, <1>3, <1>4, InstructionIsWord
  <1>6. ReadsAs(c, m)
    BY <1>2, <1>3, <1>4, InstructionMeans
  <1>7. ASSUME NEW panics, Filled(l), panics \/ ~Longest(l)
        PROVE  ReadsWhole(panics, c)
    <2>1. ArgsWhole(panics, op, a, g)
      BY <1>1, <1>2, <1>7
    <2>2. QED BY <1>2, <1>3, <1>4, <2>1, InstructionWhole
  <1>8. QED BY <1>5, <1>6, <1>7 DEF Reading

\* A word of a line of a batch.
LEMMA BatchWord ==
  ASSUME NEW l \in Line, l.code \in BatchCode, Adds(l), Proper(l),
         NEW v \in {l.sym, l.sel, l.desc}, v # Absent
  PROVE  /\ Fits(v) /\ Text(v) = Counted(v)
         /\ Filled(l) => v # <<>>
         /\ Filled(l) /\ ~Longest(l) => Readable(v)
  <1>1. v \in Word /\ Len(v) < Base
    BY LineIsTyped DEF Proper
  <1>2. Fits(v)
    BY <1>1 DEF Fits
  <1>3. Text(v) = Counted(v)
    <2>1. Len(v) \in Nat
      BY <1>1 DEF Word
    <2>2. Len(v) % Base = Len(v)
      BY <1>1, <2>1, BaseIsNat
    <2>3. QED BY <2>2 DEF Text, Counted
  <1>4. Filled(l) => v # <<>>
    BY DEF Filled
  <1>5. ~Longest(l) => Len(v) # Base - 1
    BY DEF Longest
  <1>6. QED BY <1>2, <1>3, <1>4, <1>5, FitsOrLongest

\* A word of the assembler's own.
LEMMA OwnWord ==
  ASSUME NEW v, Readable(v)
  PROVE  Fits(v) /\ v # <<>> /\ Text(v) = Counted(v)
  <1>1. Fits(v) /\ v # <<>>
    BY ReadableFits
  <1>2. Len(v) \in Nat
    BY <1>1 DEF Fits, Word
  <1>3. Len(v) % Base = Len(v)
    BY <1>1, <1>2, BaseIsNat DEF Fits
  <1>4. QED BY <1>1, <1>3 DEF Text, Counted

\* What goes for a word of a batch: it fits, and it is read.
Goes(l, v) == /\ Fits(v) /\ Text(v) = Counted(v)
              /\ Filled(l) => v # <<>>
              /\ Filled(l) /\ ~Longest(l) => Readable(v)

\* The parts of a menu item are those of the documented table.
LEMMA ItemIs ==
  ASSUME NEW l \in Line, l.code \in BatchCode, Adds(l), Proper(l)
  PROVE  /\ MenuItem(l).display = Display(l) /\ Goes(l, Display(l))
         /\ MenuItem(l).choice = Choice(l) /\ Goes(l, Choice(l))
         /\ l.code = "DOWN" => MenuItem(l).target = l.sym /\ l.sym # Absent /\ Goes(l, l.sym)
  <1>1. /\ l.code = "DOWN" => l.sym # Absent
        /\ l.desc # Absent <=> l.code = "DOWN" /\ l.size = Absent
    BY DEF Proper
  <1>2. /\ l.sel # Absent /\ (l.desc # Absent \/ l.size = Absent => l.sym # Absent)
    BY LineIsTyped DEF Complete
  <1>3. \A v \in {l.sym, l.sel, l.desc} : v # Absent => Goes(l, v)
    BY BatchWord DEF Goes
  <1>4. l.size # Absent => Goes(l, Decimal[l.size])
    <2>1. l.size # Absent => l.size \in Number
      BY LineAssumption
    <2>2. l.size # Absent => Readable(Decimal[l.size])
      BY <2>1, OwnWordsAreReadable
    <2>3. QED BY <2>2, OwnWord DEF Goes
  <1>5. /\ MenuItem(l).display = IF l.desc # Absent THEN l.desc ELSE l.sel
        /\ MenuItem(l).choice = IF l.desc # Absent THEN l.sel
                                ELSE IF l.size # Absent THEN Decimal[l.size] ELSE l.sym
        /\ MenuItem(l).target = IF l.desc # Absent \/ l.size # Absent THEN l.sym ELSE Absent
    BY DEF MenuItem
  <1>6. CASE l.code = "DOWN"
    BY <1>1, <1>2, <1>3, <1>4, <1>5, <1>6 DEF Display, Choice
  <1>7. CASE l.code # "DOWN"
    <2>1. l.desc = Absent
      BY <1>1, <1>7
    <2>2. /\ MenuItem(l).display = l.sel /\ Display(l) = l.sel
          /\ MenuItem(l).choice = IF l.size # Absent THEN Decimal[l.size] ELSE l.sym
          /\ Choice(l) = IF l.size # Absent THEN Decimal[l.size] ELSE l.sym
      BY <1>5, <1>7, <2>1 DEF Display, Choice
    <2>3. QED BY <1>2, <1>3, <1>4, <1>7, <2>2
  <1>8. QED BY <1>6, <1>7

\* An instruction of two words that go.
LEMMA GoesIsLine ==
  ASSUME NEW l, NEW op \in TwoSyms, NEW v, NEW w, Goes(l, v), Goes(l, w)
  PROVE  TwoSymLine(l, NewLine(op, Text(v) \o Text(w)), <<op, v, w>>)
  <1>1. v \in Word /\ w \in Word
    BY DEF Goes, Fits
  <1>2. NewLine(op, Text(v) \o Text(w)) = writeOpcode(op) \o (Counted(v) \o Counted(w))
    BY DEF Goes, NewLine
  <1> DEFINE c == NewLine(op, Text(v) \o Text(w))
             m == <<op, v, w>>
  <1>3. c = writeOpcode(op) \o (Counted(v) \o Counted(w)) /\ m = <<op, v, w>>
    BY <1>2
  <1> HIDE DEF c, m
  <1>4. TwoSymLine(l, c, m)
    BY <1>1, <1>3 DEF Goes, TwoSymLine
  <1>5. QED BY <1>4 DEF c, m

\* A line of a batch is written as two of them, what the table says of it.
LEMMA BatchIsTwoSymLine ==
  ASSUME NEW l \in Line, l.code \in BatchCode, Adds(l), Proper(l)
  PROVE  /\ TwoSymLine(l, Label(l.code, MenuItem(l)), Shown(l))
         /\ TwoSymLine(l, Target(l.code, MenuItem(l)), Asked(l))
  <1> DEFINE i == MenuItem(l)
             d == Display(l)
             c == Choice(l)
  <1>1. /\ i.display = d /\ Goes(l, d)
        /\ i.choice = c /\ Goes(l, c)
        /\ l.code = "DOWN" => i.target = l.sym /\ l.sym # Absent /\ Goes(l, l.sym)
    BY ItemIs
  <1> HIDE DEF i, d, c
  <1>2. TwoSymLine(l, Label(l.code, i), Shown(l))
    <2> DEFINE op == IF l.code = "NEXT" THEN "MNEXT"
                     ELSE IF l.code = "PREVIOUS" THEN "MPREV" ELSE "MOUT"
    <2>1. op \in TwoSyms
      BY DEF TwoSyms
    <2>2. Label(l.code, i) = NewLine(op, Text(d) \o Text(c)) /\ Shown(l) = <<op, d, c>>
      BY <1>1 DEF Label, Shown, d, c
    <2> HIDE DEF op
    <2>3. TwoSymLine(l, NewLine(op, Text(d) \o Text(c)), <<op, d, c>>)
      BY <1>1, <2>1, GoesIsLine
    <2>4. QED BY <2>2, <2>3
  <1>3. TwoSymLine(l, Target(l.code, i), Asked(l))
    <2> DEFINE t == IF l.code = "UP" THEN NodeUp ELSE IF l.code = "NEXT" THEN NodeNext
                    ELSE IF l.code = "PREVIOUS" THEN NodePrevious ELSE l.sym
    <2>1. Goes(l, t)
      <3>1. Readable(NodeUp) /\ Readable(NodeNext) /\ Readable(NodePrevious)
        BY OwnWordsAreReadable
      <3>2. Goes(l, NodeUp) /\ Goes(l, NodeNext) /\ Goes(l, NodePrevious)
        BY <3>1, OwnWord DEF Goes
      <3>3. l.code \in {"DOWN", "UP", "NEXT", "PREVIOUS"}
        BY DEF BatchCode
      <3>4. QED BY <1>1, <3>2, <3>3
    <2>2. Target(l.code, i) = NewLine("INCMP", Text(t) \o Text(c))
      <3>1. l.code \in {"DOWN", "UP", "NEXT", "PREVIOUS"}
        BY DEF BatchCode
      <3>2. CASE l.code = "DOWN"
        <4>1. t = i.target /\ i.target # Absent
          BY <1>1, <3>2
        <4>2. QED BY <1>1, <3>2, <4>1 DEF Target
      <3>3. CASE l.code = "UP"
        BY <1>1, <3>3 DEF Target
      <3>4. CASE l.code = "NEXT"
        BY <1>1, <3>4 DEF Target
      <3>5. CASE l.code = "PREVIOUS"
        BY <1>1, <3>5 DEF Target
      <3>6. QED BY <3>1, <3>2, <3>3, <3>4, <3>5
    <2>3. Asked(l) = <<"INCMP", t, c>>
      <3>1. l.code \in {"DOWN", "UP", "NEXT", "PREVIOUS"}
        BY DEF BatchCode
      <3>2. QED BY <3>1 DEF Asked, c
    <2> HIDE DEF t
    <2>4. TwoSymLine(l, NewLine("INCMP", Text(t) \o Text(c)), <<"INCMP", t, c>>)
      BY <1>1, <2>1, GoesIsLine DEF TwoSyms
    <2>5. QED BY <2>2, <2>3, <2>4
  <1>4. QED BY <1>2, <1>3 DEF i

\* It is read as what the table says.
LEMMA BatchReading ==
  ASSUME NEW l \in Line, l.code \in BatchCode, Adds(l), Proper(l)
  PROVE  /\ Reading(l, Label(l.code, MenuItem(l)), Shown(l))
         /\ Reading(l, Target(l.code, MenuItem(l)), Asked(l))
  BY BatchIsTwoSymLine, TwoSymReading

\* Every instruction that a line stands for.
Ins == {Meaning(l) : l \in Line} \cup {Shown(l) : l \in Line} \cup {Asked(l) : l \in Line}
         \cup {<<"HALT">>}

MeaningF == [l \in Line |-> Meaning(l)]
ShownF == [l \in Line |-> Shown(l)]
AskedF == [l \in Line |-> Asked(l)]

\* The parts of an expansion, as maps over lines.
LEMMA PartsAreMaps ==
  ASSUME NEW s \in Seq(Line)
  PROVE  /\ Meanings(s) = MapOf(MeaningF, s)
         /\ [i \in DOMAIN s |-> Shown(s[i])] = MapOf(ShownF, s)
         /\ [i \in DOMAIN s |-> Asked(s[i])] = MapOf(AskedF, s)
  <1>1. \A i \in DOMAIN s : s[i] \in Line
    OBVIOUS
  <1>2. \A i \in DOMAIN s : /\ MeaningF[s[i]] = Meaning(s[i]) /\ ShownF[s[i]] = Shown(s[i])
                            /\ AskedF[s[i]] = Asked(s[i])
    BY <1>1 DEF MeaningF, ShownF, AskedF
  <1>3. QED BY <1>2 DEF Meanings, MapOf

\* A larger set of elements.
LEMMA WiderSeq ==
  ASSUME NEW S, NEW T, S \subseteq T, NEW s \in Seq(S)
  PROVE  s \in Seq(T)
  OBVIOUS

\* They are instructions.
LEMMA PartsAreIns ==
  ASSUME NEW s \in Seq(Line)
  PROVE  /\ MapOf(MeaningF, s) \in Seq(Ins) /\ MapOf(ShownF, s) \in Seq(Ins)
         /\ MapOf(AskedF, s) \in Seq(Ins)
  <1>1. /\ MapFacts(MeaningF, Line, s) /\ MapFacts(ShownF, Line, s) /\ MapFacts(AskedF, Line, s)
    BY MapIsSeq
  <1>2. Image(MeaningF, Line) \subseteq Ins /\ Image(ShownF, Line) \subseteq Ins
        /\ Image(AskedF, Line) \subseteq Ins
    BY DEF Image, Ins, MeaningF, ShownF, AskedF
  <1>3. QED BY <1>1, <1>2, WiderSeq DEF MapFacts

\* The lines from f + 1 to k are those of a batch.
BatchIs(s, f, k) ==
  /\ f \in 0 .. Len(s) /\ k \in f .. Len(s)
  /\ \A i \in 1 .. Len(s) : s[i].code \in BatchCode <=> f < i /\ i <= k

\* What a batch stands for.
MenuOf(t) == (MapOf(ShownF, t) \o <<<<"HALT">>>>) \o MapOf(AskedF, t)

\* No batch, nothing to expand.
LEMMA ExpandNone ==
  ASSUME NEW s \in Seq(Line), NEW f, BatchIs(s, f, f)
  PROVE  Expand(s) = MapOf(MeaningF, s)
  <1>1. DOMAIN s = 1 .. Len(s) /\ f \in Nat
    BY DEF BatchIs
  <1>2. {i \in DOMAIN s : s[i].code \in BatchCode} = {}
    BY <1>1 DEF BatchIs
  <1>3. Expand(s) = Meanings(s)
    BY <1>2 DEF Expand
  <1>4. QED BY <1>3, PartsAreMaps

\* A part of a source is one.
LEMMA PartIsSource ==
  ASSUME NEW s \in Seq(Line), NEW m \in Nat \ {0}, NEW n \in 0 .. Len(s), m <= n + 1
  PROVE  SubSeq(s, m, n) \in Seq(Line) /\ Len(SubSeq(s, m, n)) = n - m + 1
  OBVIOUS

\* A batch, with what is before it and after it.
LEMMA ExpandBatch ==
  ASSUME NEW s \in Seq(Line), NEW f, NEW k, BatchIs(s, f, k), f < k
  PROVE  Expand(s) = (MapOf(MeaningF, SubSeq(s, 1, f)) \o MenuOf(SubSeq(s, f + 1, k)))
                       \o MapOf(MeaningF, SubSeq(s, k + 1, Len(s)))
  <1> DEFINE batch == {i \in DOMAIN s : s[i].code \in BatchCode}
             first == CHOOSE i \in batch : \A j \in batch : i <= j
             last  == CHOOSE i \in batch : \A j \in batch : i >= j
             menu  == SubSeq(s, f + 1, k)
             pre   == SubSeq(s, 1, f)
             post  == SubSeq(s, k + 1, Len(s))
  <1>1. DOMAIN s = 1 .. Len(s) /\ f \in Nat /\ k \in Nat /\ Len(s) \in Nat /\ k <= Len(s)
    BY DEF BatchIs
  <1>2. batch = f + 1 .. k
    BY <1>1 DEF BatchIs
  <1>3. first = f + 1
    <2>1. f + 1 \in batch /\ \A j \in batch : f + 1 <= j
      BY <1>1, <1>2
    <2> HIDE DEF batch
    <2>2. first \in batch /\ \A j \in batch : first <= j
      BY <2>1
    <2>3. first \in f + 1 .. k /\ first <= f + 1
      BY <1>2, <2>1, <2>2
    <2> HIDE DEF first
    <2>4. QED BY <1>1, <2>3
  <1>4. last = k
    <2>1. k \in batch /\ \A j \in batch : k >= j
      BY <1>1, <1>2
    <2> HIDE DEF batch
    <2>2. last \in batch /\ \A j \in batch : last >= j
      BY <2>1
    <2>3. last \in f + 1 .. k /\ last >= k
      BY <1>2, <2>1, <2>2
    <2> HIDE DEF last
    <2>4. QED BY <1>1, <2>3
  <1>5. batch # {}
    BY <1>1, <1>2
  <1>6. (f + 1) - 1 = f
    BY <1>1
  <1>7. Expand(s) = Meanings(pre) \o [i \in DOMAIN menu |-> Shown(menu[i])]
                      \o <<<<"HALT">>>> \o [i \in DOMAIN menu |-> Asked(menu[i])]
                      \o Meanings(post)
    <2>1. Expand(s) = IF batch = {} THEN Meanings(s)
                      ELSE Meanings(SubSeq(s, 1, first - 1))
                             \o [i \in DOMAIN SubSeq(s, first, last)
                                   |-> Shown(SubSeq(s, first, last)[i])]
                             \o <<<<"HALT">>>>
                             \o [i \in DOMAIN SubSeq(s, first, last)
                                   |-> Asked(SubSeq(s, first, last)[i])]
                             \o Meanings(SubSeq(s, last + 1, Len(s)))
      BY DEF Expand
    <2> HIDE DEF batch, first, last
    <2>2. QED BY <1>3, <1>4, <1>5, <1>6, <2>1
  <1>8. menu \in Seq(Line) /\ pre \in Seq(Line) /\ post \in Seq(Line)
    BY <1>1, PartIsSource
  <1> HIDE DEF menu, pre, post, batch, first, last
  <1> DEFINE u == MapOf(MeaningF, pre)
             v == MapOf(ShownF, menu)
             h == <<<<"HALT">>>>
             w == MapOf(AskedF, menu)
             x == MapOf(MeaningF, post)
  <1>9. Expand(s) = (((u \o v) \o h) \o w) \o x
    <2>1. Meanings(pre) = u /\ Meanings(post) = x
      BY <1>8, PartsAreMaps
    <2>2. [i \in DOMAIN menu |-> Shown(menu[i])] = v /\ [i \in DOMAIN menu |-> Asked(menu[i])] = w
      BY <1>8, PartsAreMaps
    <2> HIDE DEF u, v, w, x, h
    <2>3. QED BY <1>7, <2>1, <2>2 DEF h
  <1>10. u \in Seq(Ins) /\ v \in Seq(Ins) /\ h \in Seq(Ins) /\ w \in Seq(Ins)
    <2>1. h \in Seq(Ins)
      BY DEF Ins
    <2>2. QED BY <1>8, <2>1, PartsAreIns
  <1> HIDE DEF u, v, w, x, h
  <1>11. ((u \o v) \o h) \o w = u \o ((v \o h) \o w)
    <2>0. v \o h \in Seq(Ins)
      BY <1>10, ConcatProperties
    <2>1. (u \o v) \o h = u \o (v \o h)
      <3>1. Cat(Cat(u, v), h) = Cat(u, Cat(v, h))
        BY ONLY <1>10, CatAssociative
      <3>2. QED BY <3>1 DEF Cat
    <2>2. (u \o (v \o h)) \o w = u \o ((v \o h) \o w)
      <3> DEFINE y == v \o h
      <3>1. u \in Seq(Ins) /\ y \in Seq(Ins) /\ w \in Seq(Ins)
        BY <1>10, <2>0
      <3> HIDE DEF y
      <3>2. Cat(Cat(u, y), w) = Cat(u, Cat(y, w))
        BY ONLY <3>1, CatAssociative
      <3>3. QED BY <3>2 DEF y, Cat
    <2>3. QED BY <2>1, <2>2
  <1>12. MenuOf(menu) = (v \o h) \o w
    BY DEF MenuOf, v, w, h
  <1>13. QED BY <1>9, <1>11, <1>12 DEF u, x, pre, post, menu

\* The elements of a part.
LEMMA PartElements ==
  ASSUME NEW S, NEW s \in Seq(S), NEW m \in Nat \ {0}, NEW n \in 0 .. Len(s), m <= n + 1
  PROVE  /\ SubSeq(s, m, n) \in Seq(S) /\ Len(SubSeq(s, m, n)) = n - m + 1
         /\ \A i \in 1 .. n - m + 1 : SubSeq(s, m, n)[i] = s[m + i - 1]
  OBVIOUS

\* Parts of a source with one line more.
LEMMA PartsOfAppend ==
  ASSUME NEW s \in Seq(Line), NEW l \in Line, NEW m \in Nat \ {0}, m <= Len(s) + 1
  PROVE  /\ SubSeq(Append(s, l), m, Len(s) + 1) = Append(SubSeq(s, m, Len(s)), l)
         /\ \A n \in 0 .. Len(s) : m <= n + 1 => SubSeq(Append(s, l), m, n) = SubSeq(s, m, n)
  <1> DEFINE a == Append(s, l)
             e == Len(s)
  <1>1. a \in Seq(Line) /\ Len(a) = e + 1 /\ e \in Nat /\ a[e + 1] = l
        /\ \A i \in 1 .. e : a[i] = s[i]
    OBVIOUS
  <1> HIDE DEF a
  <1>2. SubSeq(a, m, e + 1) = Append(SubSeq(s, m, e), l)
    <2> DEFINE x == SubSeq(a, m, e + 1)
               y == SubSeq(s, m, e)
               z == Append(y, l)
    <2>1. x \in Seq(Line) /\ Len(x) = e - m + 2 /\ \A i \in 1 .. e - m + 2 : x[i] = a[m + i - 1]
      BY <1>1
    <2>2. y \in Seq(Line) /\ Len(y) = e - m + 1 /\ \A i \in 1 .. e - m + 1 : y[i] = s[m + i - 1]
      OBVIOUS
    <2> HIDE DEF x, y
    <2>3. z \in Seq(Line) /\ Len(z) = e - m + 2 /\ z[e - m + 2] = l
          /\ \A i \in 1 .. e - m + 1 : z[i] = y[i]
      <3>1. y \in Seq(Line) /\ Len(y) = e - m + 1
        BY <2>2
      <3>2. z \in Seq(Line) /\ Len(z) = Len(y) + 1 /\ z[Len(y) + 1] = l
            /\ \A i \in 1 .. Len(y) : z[i] = y[i]
        BY <3>1, AppendProperties
      <3> HIDE DEF z, e
      <3>3. (e - m + 1) + 1 = e - m + 2
        BY <1>1
      <3>4. QED BY <3>1, <3>2, <3>3
    <2> HIDE DEF z, e
    <2>4. ASSUME NEW i \in 1 .. e - m + 2 PROVE x[i] = z[i]
      <3>1. CASE i = e - m + 2
        <4>1. m + i - 1 = e + 1
          BY <1>1, <3>1
        <4>2. x[i] = a[m + i - 1]
          BY <2>1
        <4>3. QED BY <1>1, <2>3, <3>1, <4>1, <4>2
      <3>2. CASE i # e - m + 2
        <4>1. i \in 1 .. e - m + 1 /\ m + i - 1 \in 1 .. e
          BY <1>1, <3>2
        <4>2. QED BY <1>1, <2>1, <2>2, <2>3, <4>1
      <3>3. QED BY <3>1, <3>2
    <2>5. x = z
      BY <2>1, <2>3, <2>4, SameSeq
    <2>6. QED BY <2>5 DEF x, z, y
  <1>3. ASSUME NEW n \in 0 .. e, m <= n + 1 PROVE SubSeq(a, m, n) = SubSeq(s, m, n)
    <2> DEFINE x == SubSeq(a, m, n)
               y == SubSeq(s, m, n)
    <2>0. n \in 0 .. Len(a) /\ n \in 0 .. Len(s) /\ a \in Seq(Line)
      BY <1>1
    <2>1. x \in Seq(Line) /\ Len(x) = n - m + 1 /\ \A i \in 1 .. n - m + 1 : x[i] = a[m + i - 1]
      BY <1>3, <2>0, PartElements
    <2>2. y \in Seq(Line) /\ Len(y) = n - m + 1 /\ \A i \in 1 .. n - m + 1 : y[i] = s[m + i - 1]
      BY <1>3, <2>0, PartElements
    <2> HIDE DEF x, y
    <2>3. ASSUME NEW i \in 1 .. n - m + 1 PROVE x[i] = y[i]
      <3>1. m + i - 1 \in 1 .. e
        BY <1>1, <1>3
      <3>2. QED BY <1>1, <2>1, <2>2, <3>1
    <2>4. x = y
      BY <2>1, <2>2, <2>3, SameSeq
    <2>5. QED BY <2>4 DEF x, y
  <1>4. QED BY <1>2, <1>3 DEF a

\* Nothing is a part.
LEMMA NoPart ==
  ASSUME NEW s \in Seq(Line), NEW f \in 0 .. Len(s)
  PROVE  SubSeq(s, f + 1, f) = <<>>
  OBVIOUS

\* All of it is a part.
LEMMA WholePart ==
  ASSUME NEW s \in Seq(Line)
  PROVE  SubSeq(s, 1, Len(s)) = s
  OBVIOUS

\* A line that is not of a batch leaves the batch where it is.
LEMMA BatchOfSingle ==
  ASSUME NEW s \in Seq(Line), NEW f, NEW k, BatchIs(s, f, k), NEW l \in Line,
         l.code \notin BatchCode
  PROVE  BatchIs(Append(s, l), f, k)
  <1> DEFINE a == Append(s, l)
             e == Len(s)
  <1>1. Len(a) = e + 1 /\ e \in Nat /\ a[e + 1] = l /\ \A i \in 1 .. e : a[i] = s[i]
    OBVIOUS
  <1> HIDE DEF a, e
  <1>2. f \in 0 .. e /\ k \in f .. e /\ \A i \in 1 .. e : s[i].code \in BatchCode <=> f < i /\ i <= k
    BY DEF BatchIs, e
  <1>3. ASSUME NEW i \in 1 .. e + 1 PROVE a[i].code \in BatchCode <=> f < i /\ i <= k
    <2>1. CASE i = e + 1
      BY <1>1, <1>2, <2>1
    <2>2. CASE i # e + 1
      <3>1. i \in 1 .. e
        BY <1>1, <2>2
      <3>2. QED BY <1>1, <1>2, <3>1
    <2>3. QED BY <2>1, <2>2
  <1>4. f \in 0 .. e + 1 /\ k \in f .. e + 1
    BY <1>1, <1>2
  <1>5. QED BY <1>1, <1>3, <1>4 DEF BatchIs, a

\* A line of a batch makes it longer.
LEMMA BatchOfMore ==
  ASSUME NEW s \in Seq(Line), NEW f, BatchIs(s, f, Len(s)), NEW l \in Line, l.code \in BatchCode
  PROVE  BatchIs(Append(s, l), f, Len(s) + 1)
  <1> DEFINE a == Append(s, l)
             e == Len(s)
  <1>1. Len(a) = e + 1 /\ e \in Nat /\ a[e + 1] = l /\ \A i \in 1 .. e : a[i] = s[i]
    OBVIOUS
  <1> HIDE DEF a, e
  <1>2. f \in 0 .. e /\ \A i \in 1 .. e : s[i].code \in BatchCode <=> f < i /\ i <= e
    BY DEF BatchIs, e
  <1>3. ASSUME NEW i \in 1 .. e + 1 PROVE a[i].code \in BatchCode <=> f < i /\ i <= e + 1
    <2>1. CASE i = e + 1
      BY <1>1, <1>2, <2>1
    <2>2. CASE i # e + 1
      <3>1. i \in 1 .. e
        BY <1>1, <2>2
      <3>2. QED BY <1>1, <1>2, <3>1
    <2>3. QED BY <2>1, <2>2
  <1>4. f \in 0 .. e + 1 /\ e + 1 \in f .. e + 1
    BY <1>1, <1>2
  <1>5. QED BY <1>1, <1>3, <1>4 DEF BatchIs, a, e

\* Without a batch, one may begin anywhere.
LEMMA BatchOfNone ==
  ASSUME NEW s \in Seq(Line), NEW f, BatchIs(s, f, f)
  PROVE  BatchIs(s, Len(s), Len(s))
  BY DEF BatchIs

\* A line after the others is expanded after them.
LEMMA ExpandAppend ==
  ASSUME NEW s \in Seq(Line), NEW f, NEW k, BatchIs(s, f, k), NEW l \in Line,
         l.code \notin BatchCode
  PROVE  Expand(Append(s, l)) = Expand(s) \o <<Meaning(l)>>
  <1> DEFINE a == Append(s, l)
  <1>1. a \in Seq(Line) /\ Len(a) = Len(s) + 1 /\ MeaningF[l] = Meaning(l)
    BY DEF MeaningF
  <1>2. BatchIs(a, f, k)
    BY BatchOfSingle
  <1>3. f \in 0 .. Len(s) /\ k \in f .. Len(s) /\ Len(s) \in Nat
    BY DEF BatchIs
  <1>4. CASE f = k
    <2>1. Expand(s) = MapOf(MeaningF, s) /\ Expand(a) = MapOf(MeaningF, a)
      BY <1>1, <1>2, <1>4, ExpandNone
    <2>2. MapOf(MeaningF, a) = MapOf(MeaningF, s) \o <<MeaningF[l]>>
      BY MapOfAppend
    <2>3. QED BY <1>1, <2>1, <2>2
  <1>5. CASE f < k
    <2> DEFINE menu == SubSeq(s, f + 1, k)
               pre == SubSeq(s, 1, f)
               post == SubSeq(s, k + 1, Len(s))
    <2>1. SubSeq(a, 1, f) = pre /\ SubSeq(a, f + 1, k) = menu
      BY <1>3, <1>5, PartsOfAppend
    <2>2. SubSeq(a, k + 1, Len(s) + 1) = Append(post, l)
      <3>1. k + 1 \in Nat \ {0} /\ k + 1 <= Len(s) + 1
        BY <1>3, <1>5
      <3> HIDE DEF a, post, pre, menu
      <3>2. SubSeq(Append(s, l), k + 1, Len(s) + 1) = Append(SubSeq(s, k + 1, Len(s)), l)
        BY ONLY <3>1, s \in Seq(Line), l \in Line, PartsOfAppend
      <3>3. QED BY <3>2 DEF a, post
    <2>3. Expand(s) = (MapOf(MeaningF, pre) \o MenuOf(menu)) \o MapOf(MeaningF, post)
      BY <1>5, ExpandBatch
    <2>4. Expand(a) = (MapOf(MeaningF, pre) \o MenuOf(menu)) \o MapOf(MeaningF, Append(post, l))
      <3>1. Expand(a) = (MapOf(MeaningF, SubSeq(a, 1, f)) \o MenuOf(SubSeq(a, f + 1, k)))
                          \o MapOf(MeaningF, SubSeq(a, k + 1, Len(a)))
        BY <1>1, <1>2, <1>5, ExpandBatch
      <3> HIDE DEF a, pre, menu, post
      <3>2. QED BY <1>1, <2>1, <2>2, <3>1
    <2>5. pre \in Seq(Line) /\ menu \in Seq(Line) /\ post \in Seq(Line)
      BY <1>3, <1>5, PartIsSource
    <2> HIDE DEF pre, menu, post
    <2> DEFINE u == MapOf(MeaningF, pre)
               v == MenuOf(menu)
               w == MapOf(MeaningF, post)
               x == <<Meaning(l)>>
    <2>6. MapOf(MeaningF, Append(post, l)) = w \o x
      BY <1>1, <2>5, MapOfAppend
    <2>7. u \in Seq(Ins) /\ v \in Seq(Ins) /\ w \in Seq(Ins) /\ x \in Seq(Ins)
      <3>1. MenuOf(menu) \in Seq(Ins)
        <4>1. MapOf(ShownF, menu) \in Seq(Ins) /\ MapOf(AskedF, menu) \in Seq(Ins)
          BY <2>5, PartsAreIns
        <4>2. <<<<"HALT">>>> \in Seq(Ins)
          BY DEF Ins
        <4>3. MapOf(ShownF, menu) \o <<<<"HALT">>>> \in Seq(Ins)
          BY <4>1, <4>2, ConcatProperties
        <4>4. QED BY <4>1, <4>3, ConcatProperties DEF MenuOf
      <3>2. x \in Seq(Ins)
        BY DEF Ins
      <3>3. QED BY <2>5, <3>1, <3>2, PartsAreIns
    <2> HIDE DEF u, v, w, x
    <2>8. u \o v \in Seq(Ins)
      BY <2>7, ConcatProperties
    <2>9. (u \o v) \o (w \o x) = ((u \o v) \o w) \o x
      <3> DEFINE p == u \o v
      <3>1. p \in Seq(Ins) /\ w \in Seq(Ins) /\ x \in Seq(Ins)
        BY <2>7, <2>8
      <3> HIDE DEF p
      <3>2. Cat(Cat(p, w), x) = Cat(p, Cat(w, x))
        BY ONLY <3>1, CatAssociative
      <3>3. QED BY <3>2 DEF p, Cat
    <2>10. Expand(a) = Expand(s) \o x
      BY <2>3, <2>4, <2>6, <2>9 DEF u, v, w
    <2>11. QED BY <2>10 DEF x, a
  <1>6. QED BY <1>3, <1>4, <1>5

\* What a batch stands for is instructions.
LEMMA MenuIsIns ==
  ASSUME NEW s \in Seq(Line)
  PROVE  MenuOf(s) \in Seq(Ins)
  <1>1. MapOf(ShownF, s) \in Seq(Ins) /\ MapOf(AskedF, s) \in Seq(Ins)
    BY PartsAreIns
  <1>2. <<<<"HALT">>>> \in Seq(Ins)
    BY DEF Ins
  <1>3. MapOf(ShownF, s) \o <<<<"HALT">>>> \in Seq(Ins)
    BY <1>1, <1>2, ConcatProperties
  <1>4. QED BY <1>1, <1>3, ConcatProperties DEF MenuOf

\* So is an expansion.
LEMMA ExpandIsIns ==
  ASSUME NEW s \in Seq(Line), NEW f, NEW k, BatchIs(s, f, k)
  PROVE  Expand(s) \in Seq(Ins)
  <1>1. f \in 0 .. Len(s) /\ k \in f .. Len(s) /\ Len(s) \in Nat
    BY DEF BatchIs
  <1>2. CASE f = k
    BY <1>2, ExpandNone, PartsAreIns
  <1>3. CASE f < k
    <2> DEFINE menu == SubSeq(s, f + 1, k)
               pre == SubSeq(s, 1, f)
               post == SubSeq(s, k + 1, Len(s))
    <2>1. Expand(s) = (MapOf(MeaningF, pre) \o MenuOf(menu)) \o MapOf(MeaningF, post)
      BY <1>3, ExpandBatch
    <2>2. pre \in Seq(Line) /\ menu \in Seq(Line) /\ post \in Seq(Line)
      BY <1>1, <1>3, PartIsSource
    <2> HIDE DEF pre, menu, post
    <2> DEFINE x == MapOf(MeaningF, pre)
               y == MenuOf(menu)
               z == MapOf(MeaningF, post)
    <2>3. x \in Seq(Ins) /\ y \in Seq(Ins) /\ z \in Seq(Ins)
      BY <2>2, PartsAreIns, MenuIsIns
    <2> HIDE DEF x, y, z
    <2>4. x \o y \in Seq(Ins)
      BY <2>3, ConcatProperties
    <2>5. (x \o y) \o z \in Seq(Ins)
      BY <2>3, <2>4, ConcatProperties
    <2>6. QED BY <2>1, <2>5 DEF x, y, z
  <1>4. QED BY <1>1, <1>2, <1>3

\* What is written for line l is in R, with what it stands for.
Covers(R, l) ==
  IF l.code \in BatchCode
  THEN Adds(l) => /\ <<Label(l.code, MenuItem(l)), Shown(l)>> \in R
                  /\ <<Target(l.code, MenuItem(l)), Asked(l)>> \in R
  ELSE parseOne(l) # Absent => <<parseOne(l), Meaning(l)>> \in R

CoversHalt(R) == <<NewLine("HALT", <<>>), <<"HALT">>>> \in R

\* The assembler m has written source s, its batch the lines after f up to k.
WrittenAt(R, m, s, f, k) ==
  /\ BatchIs(s, f, k)
  /\ m.pre = <<>> <=> f = k
  /\ Codes(R, m.pre, MapOf(ShownF, SubSeq(s, f + 1, k)))
  /\ Codes(R, m.post, MapOf(AskedF, SubSeq(s, f + 1, k)))
  /\ IF m.inMenu THEN f < k /\ k = Len(s) /\ Codes(R, m.out, MapOf(MeaningF, SubSeq(s, 1, f)))
     ELSE Codes(R, m.out, Expand(s))

AsmCodes(R, m, s) == \E f \in Nat, k \in Nat : WrittenAt(R, m, s, f, k)

\* An empty source.
LEMMA NothingAssembled ==
  ASSUME NEW R, NEW m, m.pre = <<>>, m.post = <<>>, m.out = <<>>, m.inMenu = FALSE
  PROVE  AsmCodes(R, m, <<>>)
  <1>1. <<>> \in Seq(Line) /\ Len(<<>>) = 0
    OBVIOUS
  <1>2. BatchIs(<<>>, 0, 0)
    BY <1>1 DEF BatchIs
  <1>3. SubSeq(<<>>, 0 + 1, 0) = <<>>
    BY <1>1, NoPart
  <1>4. MapOf(ShownF, <<>>) = <<>> /\ MapOf(AskedF, <<>>) = <<>> /\ MapOf(MeaningF, <<>>) = <<>>
    BY MapOfNothing
  <1>5. Expand(<<>>) = <<>>
    BY <1>1, <1>2, <1>4, ExpandNone
  <1>6. Codes(R, <<>>, <<>>)
    BY CodesNothing
  <1>7. WrittenAt(R, m, <<>>, 0, 0)
    BY <1>2, <1>3, <1>4, <1>5, <1>6 DEF WrittenAt
  <1>8. QED BY <1>7 DEF AsmCodes

\* One instruction more.
LEMMA CodesMore ==
  ASSUME NEW R, NEW w \in Word, NEW ls \in Seq(Ins), Codes(R, w, ls),
         NEW c \in Word, NEW i \in Ins, <<c, i>> \in R
  PROVE  Codes(R, w \o c, ls \o <<i>>)
  <1>1. Codes(R, c, <<i>>) /\ <<i>> \in Seq(Ins)
    BY CodesOne
  <1>2. QED BY <1>1, CodesConcat

\* A label is at least an opcode.
LEMMA LabelIsSome ==
  ASSUME NEW l \in Line, l.code \in BatchCode
  PROVE  Label(l.code, MenuItem(l)) # <<>>
  <1> DEFINE i == MenuItem(l)
             t == Text(i.display) \o Text(i.choice)
             op == IF l.code = "NEXT" THEN "MNEXT" ELSE IF l.code = "PREVIOUS" THEN "MPREV" ELSE "MOUT"
  <1>1. op \in DOMAIN OpcodeIndex
    BY DEF OpcodeIndex
  <1>2. Label(l.code, i) = writeOpcode(op) \o t
    BY DEF Label, NewLine
  <1>3. t \in Word
    <2>1. i.choice \in Word /\ i.display \in Word
      BY LineIsTyped DEF MenuItem, Complete
    <2>2. Text(i.choice) \in Word /\ Text(i.display) \in Word
      BY <2>1, TextIsWord
    <2>3. QED BY <2>2, ConcatIsWord
  <1> HIDE DEF t, op, i
  <1>4. QED BY <1>1, <1>2, <1>3, InstructionIsWord DEF i

\* A line of a batch.
LEMMA BatchLineAssembled ==
  ASSUME NEW R, NEW m \in AsmType, NEW s \in Seq(Line), AsmCodes(R, m, s),
         NEW l \in Line, l.code \in BatchCode, Adds(l), Covers(R, l), m.pre = <<>> \/ m.inMenu
  PROVE  AsmCodes(R, MenuAdd(m, l), Append(s, l))
  <1> DEFINE c == Label(l.code, MenuItem(l))
             d == Target(l.code, MenuItem(l))
             e == Len(s)
             n == MenuAdd(m, l)
             a == Append(s, l)
  <1>1. c \in Word /\ d \in Word /\ <<c, Shown(l)>> \in R /\ <<d, Asked(l)>> \in R
    BY MenuIsWord DEF Covers
  <1>2. m.pre \in Word /\ m.post \in Word /\ m.out \in Word /\ m.inMenu \in BOOLEAN
    BY DEF AsmType
  <1>3. n.pre = m.pre \o c /\ n.post = m.post \o d /\ n.inMenu = TRUE /\ n.out = m.out
    BY DEF MenuAdd, AsmType
  <1>4. e \in Nat /\ Len(a) = e + 1
    OBVIOUS
  <1>5. PICK f0 \in Nat, k0 \in Nat : WrittenAt(R, m, s, f0, k0)
    BY DEF AsmCodes
  <1> HIDE DEF c, d, n
  <1>6. PICK f \in 0 .. e :
          /\ BatchIs(s, f, e)
          /\ Codes(R, m.pre, MapOf(ShownF, SubSeq(s, f + 1, e)))
          /\ Codes(R, m.post, MapOf(AskedF, SubSeq(s, f + 1, e)))
          /\ Codes(R, m.out, MapOf(MeaningF, SubSeq(s, 1, f)))
    <2>0. BatchIs(s, f0, k0) /\ f0 \in 0 .. e /\ k0 \in f0 .. e
      BY <1>5 DEF WrittenAt, BatchIs
    <2>1. CASE m.inMenu
      <3>1. k0 = e
        BY <1>5, <2>1 DEF WrittenAt
      <3>2. QED BY <1>5, <2>0, <2>1, <3>1 DEF WrittenAt
    <2>2. CASE ~m.inMenu
      <3>1. f0 = k0 /\ m.pre = <<>>
        BY <1>5, <2>2 DEF WrittenAt
      <3>2. BatchIs(s, f0, f0)
        BY <2>0, <3>1
      <3>3. BatchIs(s, e, e)
        BY <3>2, BatchOfNone
      <3>4. Expand(s) = MapOf(MeaningF, s)
        BY <3>2, ExpandNone
      <3>5. SubSeq(s, 1, e) = s
        BY WholePart
      <3>6. SubSeq(s, e + 1, e) = <<>> /\ SubSeq(s, f0 + 1, f0) = <<>>
        <4>1. e \in 0 .. Len(s) /\ f0 \in 0 .. Len(s)
          BY <1>4, <2>0
        <4>2. QED BY <4>1, NoPart
      <3>7. Codes(R, m.pre, MapOf(ShownF, SubSeq(s, e + 1, e)))
            /\ Codes(R, m.post, MapOf(AskedF, SubSeq(s, e + 1, e)))
        BY <1>5, <3>1, <3>6 DEF WrittenAt
      <3>8. Codes(R, m.out, MapOf(MeaningF, SubSeq(s, 1, e)))
        BY <1>5, <2>2, <3>4, <3>5 DEF WrittenAt
      <3>9. e \in 0 .. e
        BY <1>4
      <3>10. QED BY <3>3, <3>7, <3>8, <3>9
    <2>3. QED BY <2>1, <2>2
  <1> DEFINE p == SubSeq(s, f + 1, e)
  <1>7. f \in Nat /\ e + 1 \in Nat /\ f + 1 \in Nat \ {0} /\ f + 1 <= e + 1 /\ f < e + 1 /\ f <= e
    BY <1>4
  <1>8. BatchIs(a, f, e + 1)
    BY <1>6, BatchOfMore
  <1>9. SubSeq(a, f + 1, e + 1) = Append(p, l) /\ SubSeq(a, 1, f) = SubSeq(s, 1, f)
    <2>1. SubSeq(Append(s, l), f + 1, Len(s) + 1) = Append(SubSeq(s, f + 1, Len(s)), l)
      BY ONLY <1>7, s \in Seq(Line), l \in Line, PartsOfAppend
    <2>2. 1 \in Nat \ {0} /\ 1 <= Len(s) + 1 /\ f \in 0 .. Len(s) /\ 1 <= f + 1
      BY <1>4, <1>7
    <2>3. SubSeq(Append(s, l), 1, f) = SubSeq(s, 1, f)
      BY ONLY <2>2, s \in Seq(Line), l \in Line, PartsOfAppend
    <2>4. QED BY <2>1, <2>3
  <1>10. p \in Seq(Line)
    <2>1. Len(s) \in 0 .. Len(s)
      BY <1>4
    <2>2. QED BY <1>7, <2>1, PartIsSource
  <1> HIDE DEF p, a, e
  <1>11. ShownF[l] = Shown(l) /\ AskedF[l] = Asked(l) /\ Shown(l) \in Ins /\ Asked(l) \in Ins
    BY DEF ShownF, AskedF, Ins
  <1>12. Codes(R, n.pre, MapOf(ShownF, Append(p, l)))
    <2>1. MapOf(ShownF, Append(p, l)) = MapOf(ShownF, p) \o <<Shown(l)>>
      BY <1>10, <1>11, MapOfAppend
    <2>2. MapOf(ShownF, p) \in Seq(Ins)
      BY <1>10, PartsAreIns
    <2>3. Codes(R, m.pre \o c, MapOf(ShownF, p) \o <<Shown(l)>>)
      BY <1>1, <1>2, <1>6, <1>11, <2>2, CodesMore DEF p
    <2>4. QED BY <1>3, <2>1, <2>3
  <1>13. Codes(R, n.post, MapOf(AskedF, Append(p, l)))
    <2>1. MapOf(AskedF, Append(p, l)) = MapOf(AskedF, p) \o <<Asked(l)>>
      BY <1>10, <1>11, MapOfAppend
    <2>2. MapOf(AskedF, p) \in Seq(Ins)
      BY <1>10, PartsAreIns
    <2>3. Codes(R, m.post \o d, MapOf(AskedF, p) \o <<Asked(l)>>)
      BY <1>1, <1>2, <1>6, <1>11, <2>2, CodesMore DEF p
    <2>4. QED BY <1>3, <2>1, <2>3
  <1>14. n.pre # <<>>
    <2>1. Len(c) \in Nat \ {0} /\ c \in Seq(Byte)
      <3>1. c # <<>>
        BY LabelIsSome DEF c
      <3>2. QED BY <1>1, <3>1 DEF Word
    <2>2. Len(m.pre \o c) = Len(m.pre) + Len(c) /\ Len(m.pre) \in Nat
      BY <1>2, <2>1, ConcatProperties DEF Word
    <2>3. QED BY <1>3, <2>1, <2>2
  <1>15. WrittenAt(R, n, a, f, e + 1)
    <2>1. n.pre = <<>> <=> f = e + 1
      BY <1>7, <1>14
    <2>2. /\ Codes(R, n.pre, MapOf(ShownF, SubSeq(a, f + 1, e + 1)))
          /\ Codes(R, n.post, MapOf(AskedF, SubSeq(a, f + 1, e + 1)))
      BY <1>9, <1>12, <1>13
    <2>3. f < e + 1 /\ e + 1 = Len(a) /\ Codes(R, n.out, MapOf(MeaningF, SubSeq(a, 1, f)))
      <3>1. Codes(R, n.out, MapOf(MeaningF, SubSeq(s, 1, f)))
        BY <1>3, <1>6
      <3>2. QED BY <1>4, <1>7, <1>9, <3>1
    <2>4. n.inMenu
      BY <1>3
    <2>5. QED BY <1>8, <2>1, <2>2, <2>3, <2>4 DEF WrittenAt
  <1>16. QED BY <1>7, <1>15 DEF AsmCodes, n, a

\* Leaving a batch writes what it stands for.
LEMMA ExitAssembled ==
  ASSUME NEW R, NEW m \in AsmType, NEW s \in Seq(Line), AsmCodes(R, m, s), CoversHalt(R)
  PROVE  AsmCodes(R, MenuExit(m), s) /\ Codes(R, MenuExit(m).out, Expand(s))
         /\ MenuExit(m).inMenu = FALSE
  <1> DEFINE n == MenuExit(m)
             e == Len(s)
             h == NewLine("HALT", <<>>)
  <1>1. m.pre \in Word /\ m.post \in Word /\ m.out \in Word /\ m.inMenu \in BOOLEAN
    BY DEF AsmType
  <1>2. PICK f \in Nat, k \in Nat : WrittenAt(R, m, s, f, k)
    BY DEF AsmCodes
  <1>3. CASE ~m.inMenu
    <2>1. n = m
      BY <1>3 DEF MenuExit
    <2>2. Codes(R, m.out, Expand(s))
      BY <1>2, <1>3 DEF WrittenAt
    <2> HIDE DEF n
    <2>3. QED BY <1>1, <1>3, <2>1, <2>2 DEF n
  <1>4. CASE m.inMenu
    <2>1. n.pre = m.pre /\ n.post = m.post /\ n.inMenu = FALSE
          /\ n.out = m.out \o (m.pre \o h \o m.post)
      BY <1>4 DEF MenuExit, ToLines, AsmType
    <2> HIDE DEF n
    <2>2. /\ BatchIs(s, f, k) /\ f < k /\ k = e
          /\ m.pre = <<>> <=> f = k
          /\ Codes(R, m.pre, MapOf(ShownF, SubSeq(s, f + 1, e)))
          /\ Codes(R, m.post, MapOf(AskedF, SubSeq(s, f + 1, e)))
          /\ Codes(R, m.out, MapOf(MeaningF, SubSeq(s, 1, f)))
      <3>1. f < k /\ k = e
        BY <1>2, <1>4 DEF WrittenAt
      <3>2. QED BY <1>2, <1>4, <3>1 DEF WrittenAt
    <2> DEFINE p == SubSeq(s, f + 1, e)
               q == SubSeq(s, 1, f)
    <2>3. p \in Seq(Line) /\ q \in Seq(Line) /\ f \in 0 .. e /\ e \in Nat
      <3>1. f \in 0 .. e /\ e \in Nat
        BY <2>2 DEF BatchIs
      <3>2. f + 1 \in Nat \ {0} /\ f + 1 <= e + 1 /\ e \in 0 .. e /\ 1 <= f + 1
        BY <3>1
      <3>3. QED BY <3>1, <3>2, PartIsSource
    <2>4. Expand(s) = MapOf(MeaningF, q) \o MenuOf(p)
      <3>1. Expand(s) = (MapOf(MeaningF, q) \o MenuOf(p)) \o MapOf(MeaningF, SubSeq(s, e + 1, e))
        BY <2>2, ExpandBatch
      <3>2. SubSeq(s, e + 1, e) = <<>>
        <4>1. e \in 0 .. Len(s)
          BY <2>3
        <4>2. QED BY <4>1, NoPart
      <3>3. MapOf(MeaningF, <<>>) = <<>>
        BY MapOfNothing
      <3> DEFINE x == MapOf(MeaningF, q) \o MenuOf(p)
      <3>4. x \in Seq(Ins)
        BY <2>3, MenuIsIns, PartsAreIns, ConcatProperties
      <3> HIDE DEF x
      <3>5. x \o <<>> = x
        BY <3>4
      <3>6. QED BY <3>1, <3>2, <3>3, <3>5 DEF x
    <2> DEFINE u == MapOf(ShownF, p)
               g == <<<<"HALT">>>>
               v == MapOf(AskedF, p)
               x == MapOf(MeaningF, q)
    <2>5. u \in Seq(Ins) /\ v \in Seq(Ins) /\ x \in Seq(Ins) /\ g \in Seq(Ins)
      <3>1. g \in Seq(Ins)
        BY DEF Ins
      <3>2. QED BY <2>3, <3>1, PartsAreIns
    <2>6. h \in Word /\ Codes(R, h, g)
      <3>1. h \in Word /\ <<h, <<"HALT">>>> \in R
        BY HaltReading DEF CoversHalt
      <3> HIDE DEF h
      <3>2. QED BY <3>1, CodesOne
    <2> HIDE DEF p, q, h
    <2>7. Codes(R, m.pre, u) /\ Codes(R, m.post, v) /\ Codes(R, m.out, x)
      BY <2>2 DEF p, q
    <2>8. MenuOf(p) = (u \o g) \o v
      BY DEF MenuOf
    <2> HIDE DEF u, g, v, x
    <2>9. Codes(R, m.pre \o h, u \o g) /\ m.pre \o h \in Word /\ u \o g \in Seq(Ins)
      BY <1>1, <2>5, <2>6, <2>7, CodesConcat, ConcatIsWord, ConcatProperties
    <2>10. Codes(R, (m.pre \o h) \o m.post, (u \o g) \o v)
           /\ (m.pre \o h) \o m.post \in Word /\ (u \o g) \o v \in Seq(Ins)
      <3> DEFINE y == m.pre \o h
                 z == u \o g
      <3>1. Codes(R, y, z) /\ y \in Word /\ z \in Seq(Ins)
        BY <2>9
      <3> HIDE DEF y, z
      <3>2. Codes(R, y \o m.post, z \o v) /\ y \o m.post \in Word /\ z \o v \in Seq(Ins)
        BY <1>1, <2>5, <2>7, <3>1, CodesConcat, ConcatIsWord, ConcatProperties
      <3>3. QED BY <3>2 DEF y, z
    <2>11. Codes(R, m.out \o ((m.pre \o h) \o m.post), x \o ((u \o g) \o v))
      <3> DEFINE y == (m.pre \o h) \o m.post
                 z == (u \o g) \o v
      <3>1. Codes(R, y, z) /\ y \in Word /\ z \in Seq(Ins)
        BY <2>10
      <3> HIDE DEF y, z
      <3>2. Codes(R, m.out \o y, x \o z)
        BY <1>1, <2>5, <2>7, <3>1, CodesConcat
      <3>3. QED BY <3>2 DEF y, z
    <2>12. Codes(R, n.out, Expand(s))
      BY <2>1, <2>4, <2>8, <2>11 DEF x
    <2>13. WrittenAt(R, n, s, f, k)
      BY <2>1, <2>2, <2>12 DEF WrittenAt
    <2>14. AsmCodes(R, n, s)
      BY <2>13 DEF AsmCodes
    <2>15. QED BY <2>1, <2>12, <2>14 DEF n
  <1>5. QED BY <1>1, <1>3, <1>4

\* A line of one instruction.
LEMMA SingleLineAssembled ==
  ASSUME NEW R, NEW m \in AsmType, NEW s \in Seq(Line), AsmCodes(R, m, s), ~m.inMenu,
         NEW l \in Line, l.code \in DOMAIN OpcodeIndex, parseOne(l) # Absent, Covers(R, l),
         NEW n \in AsmType, n.pre = m.pre, n.post = m.post, n.inMenu = m.inMenu,
         n.out = m.out \o parseOne(l)
  PROVE  AsmCodes(R, n, Append(s, l))
  <1> DEFINE c == parseOne(l)
             e == Len(s)
             a == Append(s, l)
  <1>1. l.code \notin BatchCode
    BY DEF OpcodeIndex, BatchCode
  <1>2. c \in Word /\ <<c, Meaning(l)>> \in R
    BY <1>1, LineIsWord DEF Covers
  <1>3. m.out \in Word
    BY DEF AsmType
  <1>4. PICK f \in Nat, k \in Nat : WrittenAt(R, m, s, f, k)
    BY DEF AsmCodes
  <1>5. BatchIs(s, f, k) /\ Codes(R, m.out, Expand(s))
    BY <1>4 DEF WrittenAt
  <1>6. Meaning(l) \in Ins /\ Expand(s) \in Seq(Ins)
    <2>1. Meaning(l) \in Ins
      BY DEF Ins
    <2>2. QED BY <1>5, <2>1, ExpandIsIns
  <1> HIDE DEF c
  <1>7. Codes(R, n.out, Expand(a))
    <2>1. Codes(R, m.out \o c, Expand(s) \o <<Meaning(l)>>)
      BY <1>2, <1>3, <1>5, <1>6, CodesMore
    <2>2. Expand(a) = Expand(s) \o <<Meaning(l)>>
      BY <1>1, <1>5, ExpandAppend
    <2>3. QED BY <2>1, <2>2 DEF c
  <1>8. BatchIs(a, f, k)
    BY <1>1, <1>5, BatchOfSingle
  <1>9. SubSeq(a, f + 1, k) = SubSeq(s, f + 1, k)
    <2>1. f + 1 \in Nat \ {0} /\ f + 1 <= Len(s) + 1 /\ k \in 0 .. Len(s) /\ f + 1 <= k + 1
      BY <1>5 DEF BatchIs
    <2>2. QED BY <2>1, PartsOfAppend
  <1> HIDE DEF a
  <1>10. WrittenAt(R, n, a, f, k)
    BY <1>4, <1>7, <1>8, <1>9 DEF WrittenAt
  <1>11. QED BY <1>10 DEF AsmCodes, a

\* A source that has lines has instructions.
LEMMA ExpandIsSome ==
  ASSUME NEW s \in Seq(Line), NEW f, NEW k, BatchIs(s, f, k), s # <<>>
  PROVE  Expand(s) # <<>>
  <1>1. f \in 0 .. Len(s) /\ k \in f .. Len(s) /\ Len(s) \in Nat \ {0}
    BY DEF BatchIs
  <1>2. CASE f = k
    <2>1. MapFacts(MeaningF, Line, s)
      BY MapIsSeq
    <2>2. Len(MapOf(MeaningF, s)) = Len(s)
      BY <2>1 DEF MapFacts
    <2>3. Expand(s) = MapOf(MeaningF, s)
      BY <1>2, ExpandNone
    <2>4. Len(Expand(s)) # 0
      BY <1>1, <2>2, <2>3
    <2>5. QED BY <2>4
  <1>3. CASE f < k
    <2> DEFINE menu == SubSeq(s, f + 1, k)
               pre == SubSeq(s, 1, f)
               post == SubSeq(s, k + 1, Len(s))
    <2>1. Expand(s) = (MapOf(MeaningF, pre) \o MenuOf(menu)) \o MapOf(MeaningF, post)
      BY <1>3, ExpandBatch
    <2>2. pre \in Seq(Line) /\ menu \in Seq(Line) /\ post \in Seq(Line)
      BY <1>1, <1>3, PartIsSource
    <2> HIDE DEF pre, menu, post
    <2> DEFINE x == MapOf(MeaningF, pre)
               u == MapOf(ShownF, menu)
               h == <<<<"HALT">>>>
               v == MapOf(AskedF, menu)
               z == MapOf(MeaningF, post)
    <2>3. x \in Seq(Ins) /\ u \in Seq(Ins) /\ v \in Seq(Ins) /\ z \in Seq(Ins) /\ h \in Seq(Ins)
          /\ Len(h) = 1
      <3>1. h \in Seq(Ins) /\ Len(h) = 1
        BY DEF Ins
      <3>2. QED BY <2>2, <3>1, PartsAreIns
    <2>4. MenuOf(menu) = (u \o h) \o v
      BY DEF MenuOf
    <2> HIDE DEF x, u, h, v, z
    <2> DEFINE w == u \o h
    <2>5. w \in Seq(Ins) /\ Len(w) = Len(u) + 1
      <3>1. w \in Seq(Ins) /\ Len(w) = Len(u) + Len(h)
        BY <2>3, ConcatProperties
      <3>2. QED BY <2>3, <3>1
    <2> HIDE DEF w
    <2>6. w \o v \in Seq(Ins) /\ Len(w \o v) = (Len(u) + 1) + Len(v)
      <3>1. w \o v \in Seq(Ins) /\ Len(w \o v) = Len(w) + Len(v)
        BY <2>3, <2>5, ConcatProperties
      <3>2. QED BY <2>5, <3>1
    <2> DEFINE y == w \o v
    <2>7. y \in Seq(Ins) /\ Len(y) = (Len(u) + 1) + Len(v)
      BY <2>6
    <2> HIDE DEF y
    <2>8. x \o y \in Seq(Ins) /\ Len(x \o y) = Len(x) + Len(y)
      BY <2>3, <2>7, ConcatProperties
    <2>9. Len((x \o y) \o z) = (Len(x) + Len(y)) + Len(z)
      BY <2>3, <2>8, ConcatProperties
    <2>10. Len(u) \in Nat /\ Len(v) \in Nat /\ Len(x) \in Nat /\ Len(z) \in Nat
      BY <2>3, LenProperties
    <2>11. Len((x \o y) \o z) # 0
      BY <2>7, <2>9, <2>10
    <2>12. Expand(s) = (x \o y) \o z
      BY <2>1, <2>4 DEF w, x, y, z
    <2>13. QED BY <2>11, <2>12
  <1>4. QED BY <1>1, <1>2, <1>3

-----------------------------------------------------------------------------
(* What the assembler has written, at every step.                          *)

Covered(R, s) == \A i \in 1 .. Len(s) : Covers(R, s[i])

\* A whole source.
Complies(R, m, s) ==
  Codes(R, m.out, Expand(s)) /\ Expand(s) \in Seq(Ins) /\ Expand(s) # <<>>

\* As long as every line is covered, what is written is what the source stands for.
WrittenInv(R) ==
  Covered(R, src) => /\ phase = "asm" => AsmCodes(R, asm, src)
                     /\ phase \in {"stored", "parse", "ok", "error", "panic"}
                          => Complies(R, asm, src)

\* The lines before the last are covered too.
LEMMA CoveredBefore ==
  ASSUME NEW R, NEW s \in Seq(Line), NEW l \in Line, Covered(R, Append(s, l))
  PROVE  Covered(R, s) /\ Covers(R, l)
  <1> DEFINE a == Append(s, l)
  <1>1. Len(s) \in Nat /\ Len(a) = Len(s) + 1 /\ a[Len(s) + 1] = l
        /\ \A i \in 1 .. Len(s) : a[i] = s[i]
    OBVIOUS
  <1>2. \A i \in 1 .. Len(a) : Covers(R, a[i])
    BY DEF Covered
  <1> HIDE DEF a
  <1>3. Covers(R, l)
    <2>1. Len(s) + 1 \in 1 .. Len(a)
      BY <1>1
    <2>2. Covers(R, a[Len(s) + 1])
      BY <1>2, <2>1
    <2>3. QED BY <1>1, <2>2
  <1>4. ASSUME NEW i \in 1 .. Len(s) PROVE Covers(R, s[i])
    <2>1. i \in 1 .. Len(a)
      BY <1>1
    <2>2. Covers(R, a[i])
      BY <1>2, <2>1
    <2>3. QED BY <1>1, <2>2
  <1>5. QED BY <1>3, <1>4 DEF Covered

\* It is so at the start.
LEMMA WrittenInit ==
  ASSUME NEW R, Init
  PROVE  WrittenInv(R)
  <1>1. phase = "asm" /\ src = <<>>
    BY DEF Init
  <1>2. asm.pre = <<>> /\ asm.post = <<>> /\ asm.out = <<>> /\ asm.inMenu = FALSE
    BY DEF Init
  <1>3. AsmCodes(R, asm, <<>>)
    BY <1>2, NothingAssembled
  <1>4. QED BY <1>1, <1>3 DEF WrittenInv

\* Every line keeps it.
LEMMA WrittenAssemble ==
  ASSUME NEW R, CoversHalt(R), BytecodeTypeOK, WrittenInv(R), NEW l \in Line, Assemble(l)
  PROVE  WrittenInv(R)'
  <1> SUFFICES ASSUME Covered(R, src')
               PROVE  /\ phase' = "asm" => AsmCodes(R, asm', src')
                      /\ phase' \notin {"stored", "parse", "ok", "error", "panic"}
    BY DEF WrittenInv
  <1>1. src' = Append(src, l) /\ phase = "asm" /\ src \in Seq(Line) /\ asm \in AsmType
    BY DEF Assemble, Running, BytecodeTypeOK, AsmType
  <1>2. Covered(R, src) /\ Covers(R, l)
    BY <1>1, CoveredBefore
  <1>3. AsmCodes(R, asm, src)
    BY <1>1, <1>2 DEF WrittenInv
  <1>4. CASE AsmBatch(l)
    <2>1. l.code \in BatchCode /\ asm' = MenuAdd(asm, l)
          /\ phase' = IF Adds(l) THEN "asm" ELSE "refused"
      BY <1>4 DEF AsmBatch
    <2>2. asm.pre = <<>> \/ asm.inMenu
      BY <2>1 DEF Assemble, OneBatch
    <2>3. Adds(l) => AsmCodes(R, MenuAdd(asm, l), Append(src, l))
      BY <1>1, <1>2, <1>3, <2>1, <2>2, BatchLineAssembled
    <2>4. QED BY <1>1, <2>1, <2>3
  <1>5. CASE AsmOne(l)
    <2> DEFINE m == MenuExit(asm)
    <2>1. l.code \in DOMAIN OpcodeIndex
          /\ asm' = [m EXCEPT !.out = IF parseOne(l) = Absent THEN @ ELSE @ \o parseOne(l)]
          /\ phase' = IF parseOne(l) = Absent THEN "refused" ELSE "asm"
      BY <1>5 DEF AsmOne
    <2>2. m \in AsmType /\ AsmCodes(R, m, src) /\ m.inMenu = FALSE
      BY <1>1, <1>3, ExitIsTyped, ExitAssembled
    <2> HIDE DEF m
    <2>3. ASSUME parseOne(l) # Absent PROVE AsmCodes(R, asm', Append(src, l))
      <3>1. asm' = [m EXCEPT !.out = @ \o parseOne(l)]
        BY <2>1, <2>3
      <3>2. parseOne(l) \in Word
        BY <2>1, <2>3, LineIsWord
      <3>3. m.out \o parseOne(l) \in Word
        BY <2>2, <3>2, ConcatIsWord DEF AsmType
      <3>4. asm' \in AsmType /\ asm'.pre = m.pre /\ asm'.post = m.post
            /\ asm'.inMenu = m.inMenu /\ asm'.out = m.out \o parseOne(l)
        BY <2>2, <3>1, <3>3 DEF AsmType
      <3> DEFINE n == asm'
      <3>5. n \in AsmType /\ n.pre = m.pre /\ n.post = m.post
            /\ n.inMenu = m.inMenu /\ n.out = m.out \o parseOne(l)
        BY <3>4
      <3> HIDE DEF n
      <3>6. AsmCodes(R, n, Append(src, l))
        BY <1>1, <1>2, <2>1, <2>2, <2>3, <3>5, SingleLineAssembled
      <3>7. QED BY <3>6 DEF n
    <2>4. QED BY <1>1, <2>1, <2>3
  <1>6. QED BY <1>4, <1>5 DEF Assemble

\* So does every other step.
LEMMA WrittenNext ==
  ASSUME NEW R, CoversHalt(R), BytecodeTypeOK, WrittenInv(R), [Next]_vars
  PROVE  WrittenInv(R)'
  <1>1. ASSUME NEW l \in Line, Assemble(l) PROVE WrittenInv(R)'
    BY <1>1, WrittenAssemble
  <1>2. CASE Finish
    <2>1. src' = src /\ asm' = MenuExit(asm) /\ phase' = "stored" /\ phase = "asm" /\ src # <<>>
          /\ asm \in AsmType /\ src \in Seq(Line)
      BY <1>2 DEF Finish, Running, BytecodeTypeOK, AsmType
    <2>2. ASSUME Covered(R, src) PROVE Complies(R, MenuExit(asm), src)
      <3>1. AsmCodes(R, asm, src)
        BY <2>1, <2>2 DEF WrittenInv
      <3>2. Codes(R, MenuExit(asm).out, Expand(src))
        BY <2>1, <3>1, ExitAssembled
      <3>3. PICK f \in Nat, k \in Nat : BatchIs(src, f, k)
        BY <3>1 DEF AsmCodes, WrittenAt
      <3>4. Expand(src) \in Seq(Ins) /\ Expand(src) # <<>>
        BY <2>1, <3>3, ExpandIsIns, ExpandIsSome
      <3>5. QED BY <3>2, <3>4 DEF Complies
    <2>3. QED BY <2>1, <2>2 DEF WrittenInv
  <1>3. ASSUME NEW n \in 0 .. Len(asm.out), Load(n) PROVE WrittenInv(R)'
    <2>1. src' = src /\ asm' = asm /\ phase = "stored" /\ phase' = "parse"
      BY <1>3 DEF Load, Running
    <2>2. QED BY <2>1 DEF WrittenInv
  <1>4. CASE ParseNext
    <2>1. src' = src /\ asm' = asm /\ phase = "parse" /\ phase' # "asm"
      BY <1>4 DEF ParseNext, Running
    <2>2. QED BY <2>1 DEF WrittenInv
  <1>5. CASE UNCHANGED vars
    BY <1>5 DEF vars, WrittenInv
  <1>6. QED BY <1>1, <1>2, <1>3, <1>4, <1>5 DEF Next

-----------------------------------------------------------------------------
(* What is listed of instructions.                                         *)

\* The elements of a sequence with one more before it.
LEMMA ConsElements ==
  ASSUME NEW S, NEW u \in S, NEW x \in Seq(S), NEW z, z = <<u>> \o x,
         NEW i \in Nat, i <= Len(x)
  PROVE  z[i + 1] = IF i = 0 THEN u ELSE x[i]
  <1> DEFINE y == <<u>>
             j == i + 1
  <1>1. y \in Seq(S) /\ Len(y) = 1 /\ y[1] = u /\ z = y \o x
    OBVIOUS
  <1>2. Len(x) \in Nat
    OBVIOUS
  <1> HIDE DEF y
  <1>3. j \in 1 .. Len(y) + Len(x) /\ (j <= Len(y) <=> i = 0) /\ j - Len(y) = i /\ (i = 0 => j = 1)
    BY <1>1, <1>2
  <1> HIDE DEF j
  <1>4. z[j] = IF j <= Len(y) THEN y[j] ELSE x[j - Len(y)]
    BY <1>1, <1>3, ConcatProperties
  <1>5. z[j] = IF i = 0 THEN u ELSE x[i]
    BY <1>1, <1>3, <1>4
  <1>6. QED BY <1>5 DEF j

\* A beginning with one element more.
LEMMA OneMore ==
  ASSUME NEW S, NEW E \in Seq(S), NEW n \in 0 .. Len(E), n + 1 <= Len(E)
  PROVE  Append(SubSeq(E, 1, n), E[n + 1]) = SubSeq(E, 1, n + 1)
  <1> DEFINE x == SubSeq(E, 1, n)
             z == Append(x, E[n + 1])
             y == SubSeq(E, 1, n + 1)
  <1>1. x \in Seq(S) /\ Len(x) = n /\ E[n + 1] \in S /\ \A i \in 1 .. n : x[i] = E[i]
    OBVIOUS
  <1>2. y \in Seq(S) /\ Len(y) = n + 1 /\ \A i \in 1 .. n + 1 : y[i] = E[i]
    OBVIOUS
  <1> HIDE DEF x, y
  <1>3. z \in Seq(S) /\ Len(z) = n + 1 /\ z[n + 1] = E[n + 1] /\ \A i \in 1 .. n : z[i] = x[i]
    <2>1. z \in Seq(S) /\ Len(z) = Len(x) + 1 /\ z[Len(x) + 1] = E[n + 1]
          /\ \A i \in 1 .. Len(x) : z[i] = x[i]
      BY <1>1, AppendProperties
    <2>2. QED BY <1>1, <2>1
  <1> HIDE DEF z
  <1>4. ASSUME NEW i \in 1 .. n + 1 PROVE z[i] = y[i]
    <2>1. CASE i = n + 1
      BY <1>2, <1>3, <2>1
    <2>2. CASE i # n + 1
      <3>1. i \in 1 .. n
        BY <2>2
      <3>2. QED BY <1>1, <1>2, <1>3, <3>1
    <2>3. QED BY <2>1, <2>2
  <1>5. z = y
    BY <1>2, <1>3, <1>4, SameSeq
  <1>6. QED BY <1>5 DEF x, y, z

\* g flattens the first n of ws.
Flattens(g, ws, n) == g = [i \in 1 .. n |-> IF i = 1 THEN ws[i] ELSE g[i - 1] \o ws[i]]

\* There is one that does.
LEMMA FlattenExists ==
  ASSUME NEW ws, NEW n \in Nat
  PROVE  \E g : Flattens(g, ws, n)
  <1> DEFINE T == {k \in Nat : ~ \E g : Flattens(g, ws, k)}
  <1>1. SUFFICES ASSUME T # {} PROVE FALSE
    OBVIOUS
  <1>2. PICK k \in T : \A j \in T : k <= j
    <2>1. T \subseteq Nat
      OBVIOUS
    <2> HIDE DEF T
    <2>2. QED BY <1>1, <2>1, SmallestNumber
  <1>3. k # 0
    <2> DEFINE h == [j \in 1 .. 0 |-> ws[j]]
    <2>1. h = [j \in 1 .. 0 |-> IF j = 1 THEN ws[j] ELSE h[j - 1] \o ws[j]]
      OBVIOUS
    <2> HIDE DEF h
    <2>2. Flattens(h, ws, 0)
      BY <2>1 DEF Flattens
    <2>3. QED BY <2>2
  <1>4. k - 1 \in Nat /\ k - 1 \notin T /\ k \in Nat
    BY <1>2, <1>3
  <1>5. PICK g : Flattens(g, ws, k - 1)
    BY <1>4
  <1> DEFINE next == IF k = 1 THEN ws[k] ELSE g[k - 1] \o ws[k]
             h    == [j \in 1 .. k |-> IF j = k THEN next ELSE g[j]]
  <1>6. ASSUME NEW j \in 1 .. k
        PROVE  h[j] = IF j = 1 THEN ws[j] ELSE h[j - 1] \o ws[j]
    <2>1. CASE j = k
      <3>1. h[j] = next
        BY <2>1
      <3>2. j # 1 => h[j - 1] = g[j - 1]
        BY <1>4, <2>1
      <3> HIDE DEF h
      <3>3. QED BY <2>1, <3>1, <3>2
    <2>2. CASE j # k
      <3>1. j \in 1 .. k - 1
        BY <1>4, <2>2
      <3>2. g[j] = IF j = 1 THEN ws[j] ELSE g[j - 1] \o ws[j]
        BY <1>5, <3>1 DEF Flattens
      <3>3. h[j] = g[j] /\ (j # 1 => h[j - 1] = g[j - 1])
        BY <1>4, <3>1
      <3> HIDE DEF h
      <3>4. QED BY <3>2, <3>3
    <2>3. QED BY <2>1, <2>2
  <1>7. h = [j \in 1 .. k |-> h[j]]
    OBVIOUS
  <1> HIDE DEF h
  <1>8. Flattens(h, ws, k)
    BY <1>6, <1>7 DEF Flattens
  <1>9. QED BY <1>2, <1>8

\* The arguments that a parser has read are a sequence.
IsArgs(r) == r.st = "ok" => \E S : r.val \in Seq(S)

\* So it is for every parser.
LEMMA ArgsAreSeq ==
  ASSUME NEW op, NEW s
  PROVE  IsArgs(ParseArgs(op, s))
  <1>1. ASSUME NEW r, NEW n, IsArgs(r) PROVE IsArgs(And(r, n))
    <2> SUFFICES ASSUME r.st = "ok", n.st = "ok" PROVE IsArgs(And(r, n))
      BY <1>1 DEF And, IsArgs
    <2>1. PICK S : r.val \in Seq(S)
      BY <1>1 DEF IsArgs
    <2> DEFINE T == S \cup {n.val}
    <2>2. r.val \in Seq(T) /\ n.val \in T
      BY <2>1, WiderSeq
    <2> HIDE DEF T
    <2>3. Append(r.val, n.val) \in Seq(T)
      BY <2>2, AppendProperties
    <2>4. And(r, n).val = Append(r.val, n.val)
      BY DEF And, Read
    <2>5. QED BY <2>3, <2>4 DEF IsArgs
  <1>2. ASSUME NEW r, IsArgs(r)
        PROVE  IsArgs(AndSym(r)) /\ IsArgs(AndSize(r)) /\ IsArgs(AndMode(r))
    BY <1>1, <1>2 DEF AndSym, AndSize, AndMode
  <1>3. IsArgs(parseNoArg(s))
    <2>1. parseNoArg(s).val = <<>> /\ <<>> \in Seq({})
      BY DEF parseNoArg, Read
    <2>2. QED BY <2>1 DEF IsArgs
  <1>4. IsArgs(parseSym(s)) /\ IsArgs(parseSigs(s))
    BY <1>2, <1>3 DEF parseSym, parseSigs
  <1>5. IsArgs(parseTwoSyms(s)) /\ IsArgs(parseSymLen(s))
    BY <1>2, <1>4 DEF parseTwoSyms, parseSymLen
  <1>6. IsArgs(parseSymSig(s))
    BY <1>2, <1>5 DEF parseSymSig
  <1>7. QED BY <1>3, <1>4, <1>5, <1>6 DEF ParseArgs

\* What is written of an instruction is what is seen of it.
LEMMA WrittenShows ==
  ASSUME NEW op, NEW a, NEW S, a \in Seq(S)
  PROVE  Written(op, a) = Shows(<<op>> \o a)
  <1> DEFINE T == S \cup {op}
             z == <<op>> \o a
  <1>1. a \in Seq(T) /\ op \in T /\ Len(a) \in Nat
    BY WiderSeq
  <1>2. z = <<op>> \o a /\ 0 \in Nat /\ 0 <= Len(a)
    BY <1>1
  <1> HIDE DEF T, z
  <1>3. z[0 + 1] = op
    BY <1>1, <1>2, ConsElements
  <1>4. z[1] = op
    BY <1>3
  <1>5. QED BY <1>4 DEF Written, Shows, z

\* What is seen of each instruction, and the listing of the first n of E.
Pieces(E) == [i \in DOMAIN E |-> Shows(E[i])]
ListedTo(E, n) ==
  IF n = 0 THEN <<>> ELSE (CHOOSE g : Flattens(g, Pieces(E), Len(E)))[n]

\* One more.
LEMMA ListedNext ==
  ASSUME NEW S, NEW E \in Seq(S), NEW n \in Nat, n + 1 <= Len(E), ListedTo(E, n) \in Seq(S)
  PROVE  ListedTo(E, n + 1) = ListedTo(E, n) \o Shows(E[n + 1])
  <1> DEFINE g == CHOOSE h : Flattens(h, Pieces(E), Len(E))
             k == n + 1
  <1>1. Len(E) \in Nat /\ k \in 1 .. Len(E) /\ DOMAIN E = 1 .. Len(E) /\ k # 0 /\ k - 1 = n
        /\ (k = 1 <=> n = 0) /\ E[k] \in S
    OBVIOUS
  <1>2. Flattens(g, Pieces(E), Len(E))
    BY <1>1, FlattenExists
  <1>3. ListedTo(E, k) = g[k] /\ ListedTo(E, n) = IF n = 0 THEN <<>> ELSE g[n]
    BY <1>1 DEF ListedTo
  <1> HIDE DEF g, k
  <1>4. g[k] = IF k = 1 THEN Pieces(E)[k] ELSE g[k - 1] \o Pieces(E)[k]
    BY <1>1, <1>2 DEF Flattens
  <1>5. Pieces(E)[k] = Shows(E[k])
    BY <1>1 DEF Pieces
  <1>6. Shows(E[k]) \in Seq(S) /\ <<>> \o Shows(E[k]) = Shows(E[k])
    <2>1. Shows(E[k]) \in Seq(S)
      BY <1>1 DEF Shows
    <2>2. QED BY <2>1
  <1>7. ListedTo(E, k) = ListedTo(E, n) \o Shows(E[k])
    <2>1. CASE n = 0
      BY <1>1, <1>3, <1>4, <1>5, <1>6, <2>1
    <2>2. CASE n # 0
      BY <1>1, <1>3, <1>4, <1>5, <2>2
    <2>3. QED BY <2>1, <2>2
  <1>8. QED BY <1>7 DEF k

\* It is a sequence of them.
LEMMA ListedIsSeq ==
  ASSUME NEW S, NEW E \in Seq(S), NEW m \in 0 .. Len(E)
  PROVE  ListedTo(E, m) \in Seq(S)
  <1> DEFINE T == {k \in 0 .. Len(E) : ListedTo(E, k) \notin Seq(S)}
  <1>1. SUFFICES ASSUME T # {} PROVE FALSE
    OBVIOUS
  <1>2. PICK k \in T : \A j \in T : k <= j
    <2>1. T \subseteq Nat
      OBVIOUS
    <2> HIDE DEF T
    <2>2. QED BY <1>1, <2>1, SmallestNumber
  <1>3. k # 0
    <2>1. ListedTo(E, 0) = <<>> /\ <<>> \in Seq(S)
      BY DEF ListedTo
    <2>2. QED BY <1>2, <2>1
  <1> DEFINE n == k - 1
  <1>4. n \in Nat /\ n + 1 <= Len(E) /\ n \notin T /\ n \in 0 .. Len(E) /\ n + 1 = k
        /\ n + 1 \in 1 .. Len(E)
    BY <1>2, <1>3
  <1> HIDE DEF n
  <1>5. ListedTo(E, n) \in Seq(S)
    BY <1>4
  <1>6. ListedTo(E, n + 1) = ListedTo(E, n) \o Shows(E[n + 1])
    BY <1>4, <1>5, ListedNext
  <1>7. Shows(E[n + 1]) \in Seq(S)
    <2>1. E[n + 1] \in S
      BY <1>4
    <2>2. QED BY <2>1 DEF Shows
  <1>8. ListedTo(E, n + 1) \in Seq(S)
    BY <1>5, <1>6, <1>7, ConcatProperties
  <1>9. QED BY <1>2, <1>4, <1>8

\* The listing of all is the listing.
LEMMA ListedAll ==
  ASSUME NEW S, NEW E \in Seq(S), E # <<>>
  PROVE  ListedTo(E, Len(E)) = Listing(E)
  <1> DEFINE n == Len(E)
             ws == Pieces(E)
             g == CHOOSE h : Flattens(h, ws, n)
  <1>1. n \in Nat /\ n # 0 /\ DOMAIN E = 1 .. n
    OBVIOUS
  <1>2. ws \in Seq(Seq(S)) /\ Len(ws) = n
    <2>1. \A i \in 1 .. n : Shows(E[i]) \in Seq(S)
      BY <1>1 DEF Shows
    <2>2. ws \in [1 .. n -> Seq(S)]
      BY <1>1, <2>1 DEF Pieces
    <2> HIDE DEF ws, n
    <2>3. QED BY <1>1, <2>2
  <1>3. Listing(E) = FlattenSeq(ws)
    BY DEF Listing, Pieces
  <1> HIDE DEF ws
  <1>4. FlattenSeq(ws) = g[n]
    BY <1>1, <1>2 DEF FlattenSeq, Flattens
  <1>5. ListedTo(E, n) = g[n]
    BY <1>1 DEF ListedTo, ws
  <1>6. QED BY <1>3, <1>4, <1>5

\* t begins with s.
Starts(s, t) == Len(s) <= Len(t) /\ \A i \in 1 .. Len(s) : s[i] = t[i]

\* The listing of some is the beginning of the listing of more.
LEMMA ListedStarts ==
  ASSUME NEW S, NEW E \in Seq(S), NEW n \in 0 .. Len(E), NEW m \in n .. Len(E)
  PROVE  Starts(ListedTo(E, n), ListedTo(E, m))
  <1> DEFINE T == {k \in n .. Len(E) : ~Starts(ListedTo(E, n), ListedTo(E, k))}
  <1>1. SUFFICES ASSUME T # {} PROVE FALSE
    OBVIOUS
  <1>2. PICK k \in T : \A j \in T : k <= j
    <2>1. T \subseteq Nat
      OBVIOUS
    <2> HIDE DEF T
    <2>2. QED BY <1>1, <2>1, SmallestNumber
  <1>3. ListedTo(E, n) \in Seq(S)
    BY ListedIsSeq
  <1>4. k # n
    <2>1. Starts(ListedTo(E, n), ListedTo(E, n))
      BY <1>3 DEF Starts
    <2>2. QED BY <1>2, <2>1
  <1> DEFINE l == k - 1
  <1>5. l \in n .. Len(E) /\ l \notin T /\ l \in 0 .. Len(E) /\ l \in Nat /\ l + 1 = k
        /\ l + 1 <= Len(E) /\ l + 1 \in 1 .. Len(E)
    BY <1>2, <1>4
  <1> HIDE DEF l
  <1> DEFINE x == ListedTo(E, n)
             y == ListedTo(E, l)
             z == Shows(E[l + 1])
  <1>6. y \in Seq(S) /\ x \in Seq(S) /\ z \in Seq(S)
    <2>1. E[l + 1] \in S
      BY <1>5
    <2>2. z \in Seq(S)
      BY <2>1 DEF Shows
    <2>3. QED BY <1>3, <1>5, <2>2, ListedIsSeq
  <1>7. ListedTo(E, k) = y \o z
    BY <1>5, <1>6, ListedNext
  <1>8. Starts(x, y)
    BY <1>5
  <1>9. Starts(x, y \o z) => FALSE
    BY <1>2, <1>7
  <1> HIDE DEF x, y, z
  <1>10. Len(y \o z) = Len(y) + Len(z) /\ \A i \in 1 .. Len(y) : (y \o z)[i] = y[i]
    BY <1>6, ConcatProperties
  <1>11. Len(x) \in Nat /\ Len(y) \in Nat /\ Len(z) \in Nat
    BY <1>6
  <1> DEFINE w == y \o z
  <1>12. Len(w) = Len(y) + Len(z) /\ \A i \in 1 .. Len(y) : w[i] = y[i]
    BY <1>10
  <1> HIDE DEF w
  <1>13. Starts(x, w)
    BY <1>8, <1>11, <1>12 DEF Starts
  <1>14. QED BY <1>9, <1>13 DEF w

\* A beginning is a prefix.
LEMMA StartsIsPrefix ==
  ASSUME NEW S, NEW x \in Seq(S), NEW t \in Seq(S), Starts(x, t)
  PROVE  IsPrefix(x, t)
  <1> DEFINE n == Len(x)
             q == SubSeq(t, 1, n)
  <1>1. n \in Nat /\ Len(t) \in Nat /\ n <= Len(t) /\ \A i \in 1 .. n : x[i] = t[i]
    BY DEF Starts
  <1>2. q \in Seq(S) /\ Len(q) = n /\ \A i \in 1 .. n : q[i] = t[i]
    BY <1>1
  <1>3. SubSeq(x, 1, Len(x)) = x
    OBVIOUS
  <1> HIDE DEF q
  <1>4. \A i \in 1 .. Len(x) : x[i] = q[i]
    BY <1>1, <1>2
  <1>5. q = x
    BY <1>2, <1>4, SameSeq
  <1>6. QED BY <1>1, <1>3, <1>5 DEF IsPrefix, q

\* What can all be seen is listed as it is.
LEMMA ListedSame ==
  ASSUME NEW S, NEW E \in Seq(S), NEW m \in 0 .. Len(E),
         \A i \in 1 .. Len(E) : E[i][1] # "NOOP"
  PROVE  ListedTo(E, m) = SubSeq(E, 1, m)
  <1> DEFINE T == {k \in 0 .. Len(E) : ListedTo(E, k) # SubSeq(E, 1, k)}
  <1>1. SUFFICES ASSUME T # {} PROVE FALSE
    OBVIOUS
  <1>2. PICK k \in T : \A j \in T : k <= j
    <2>1. T \subseteq Nat
      OBVIOUS
    <2> HIDE DEF T
    <2>2. QED BY <1>1, <2>1, SmallestNumber
  <1>3. k # 0
    <2>1. ListedTo(E, 0) = <<>> /\ SubSeq(E, 1, 0) = <<>>
      BY DEF ListedTo
    <2>2. QED BY <1>2, <2>1
  <1> DEFINE n == k - 1
  <1>4. n \in Nat /\ n + 1 <= Len(E) /\ n \notin T /\ n \in 0 .. Len(E) /\ n + 1 = k
        /\ n + 1 \in 1 .. Len(E)
    BY <1>2, <1>3
  <1> HIDE DEF n
  <1>5. ListedTo(E, n) = SubSeq(E, 1, n) /\ ListedTo(E, n) \in Seq(S)
    BY <1>4, ListedIsSeq
  <1>6. ListedTo(E, n + 1) = ListedTo(E, n) \o Shows(E[n + 1])
    BY <1>4, <1>5, ListedNext
  <1> DEFINE y == ListedTo(E, n)
             e == E[n + 1]
  <1>7. Shows(e) = <<e>> /\ e \in S /\ y \in Seq(S)
    BY <1>4, <1>5 DEF Shows
  <1> HIDE DEF y, e
  <1>8. y \o <<e>> = Append(y, e)
    BY <1>7, AppendIsConcat
  <1>9. ListedTo(E, n + 1) = Append(SubSeq(E, 1, n), E[n + 1])
    BY <1>5, <1>6, <1>7, <1>8 DEF y, e
  <1>10. Append(SubSeq(E, 1, n), E[n + 1]) = SubSeq(E, 1, n + 1)
    BY <1>4, OneMore
  <1>11. QED BY <1>2, <1>4, <1>9, <1>10

-----------------------------------------------------------------------------
(* What the disassembler has read of it, at every step.                    *)

\* What the disassembler has read of out, the bytes of the instructions E: f says what
\* is left of out before each of them, and n of them are read.
ReadAt(R, out, E, ls, f, n) ==
  /\ f \in [1 .. Len(E) + 1 -> Word] /\ n \in 0 .. Len(E)
  /\ f[1] = out /\ f[Len(E) + 1] = <<>>
  /\ \A i \in 1 .. Len(E) : \E c \in Word : <<c, E[i]>> \in R /\ f[i] = c \o f[i + 1]
  /\ ls = ListedTo(E, n)

\* Some of them, and what is left begins as the rest does.
SomeRead(R, out, E, ls, w, ph) ==
  \E f \in [1 .. Len(E) + 1 -> Word], n \in 0 .. Len(E) :
    ReadAt(R, out, E, ls, f, n) /\ (ph = "parse" => Begins(w, f[n + 1]))

\* Pairs of bytes and what any beginning of them is read as.
Meant == {p \in Word \X Ins : ReadsAs(p[1], p[2])}

\* What a turn of ParseAll does.
LEMMA TurnIs ==
  ASSUME ParseNext
  PROVE  /\ phase = "parse" /\ UNCHANGED <<src, asm, code>>
         /\ b' = Parsed(b).rest
         /\ lines' = IF Parsed(b).st = "ok" THEN lines \o Shows(<<opSplit(b).val>> \o Parsed(b).val)
                     ELSE lines
         /\ phase' = IF Parsed(b).st = "panic" THEN "panic"
                     ELSE IF opSplit(b).st = "error" THEN "error"
                     ELSE IF Parsed(b).rest = <<>> THEN "ok" ELSE "parse"
  <1> DEFINE op == opSplit(b).val
             v == Parsed(b).val
  <1>1. lines' = IF Parsed(b).st = "ok" THEN lines \o Written(op, v) ELSE lines
    BY DEF ParseNext, Parsed
  <1>2. Parsed(b).st = "ok" => Written(op, v) = Shows(<<op>> \o v)
    <2> SUFFICES ASSUME Parsed(b).st = "ok" PROVE Written(op, v) = Shows(<<op>> \o v)
      OBVIOUS
    <2>1. Parsed(b) = ParseArgs(op, opSplit(b).rest)
      BY DEF Parsed
    <2>2. IsArgs(Parsed(b))
      BY <2>1, ArgsAreSeq
    <2>3. PICK S : v \in Seq(S)
      BY <2>2 DEF IsArgs
    <2> HIDE DEF op, v
    <2>4. QED BY <2>3, WrittenShows
  <1>3. QED BY <1>1, <1>2 DEF ParseNext, Running, Parsed

\* A parser that fails leaves nothing.
FailsEmpty(r) == r.st = "ok" \/ r.rest = <<>>

\* So do all parsers of arguments.
LEMMA ArgsFailEmpty ==
  ASSUME NEW op, NEW s
  PROVE  FailsEmpty(ParseArgs(op, s))
  <1>1. ASSUME NEW t
        PROVE  FailsEmpty(instructionSplit(t)) /\ FailsEmpty(intSplit(t)) /\ FailsEmpty(modeSplit(t))
    BY DEF FailsEmpty, instructionSplit, intSplit, modeSplit, Fails, Read
  <1>2. ASSUME NEW r, NEW n, FailsEmpty(r), FailsEmpty(n) PROVE FailsEmpty(And(r, n))
    BY <1>2 DEF FailsEmpty, And, Read
  <1>3. ASSUME NEW r, FailsEmpty(r)
        PROVE  FailsEmpty(AndSym(r)) /\ FailsEmpty(AndSize(r)) /\ FailsEmpty(AndMode(r))
    BY <1>1, <1>2, <1>3 DEF AndSym, AndSize, AndMode
  <1>4. FailsEmpty(parseNoArg(s))
    BY DEF FailsEmpty, parseNoArg, Read
  <1>5. FailsEmpty(parseSym(s)) /\ FailsEmpty(parseSigs(s))
    BY <1>3, <1>4 DEF parseSym, parseSigs
  <1>6. FailsEmpty(parseTwoSyms(s)) /\ FailsEmpty(parseSymLen(s))
    BY <1>3, <1>5 DEF parseTwoSyms, parseSymLen
  <1>7. FailsEmpty(parseSymSig(s))
    BY <1>3, <1>6 DEF parseSymSig
  <1>8. QED BY <1>4, <1>5, <1>6, <1>7 DEF ParseArgs

\* A turn that reads no instruction is the last.
LEMMA FailedRest ==
  ASSUME NEW s \in Word, Parsed(s).st # "ok"
  PROVE  Parsed(s).st = "panic" \/ opSplit(s).st = "error" \/ Parsed(s).rest = <<>>
  <1>1. CASE opSplit(s).st = "error"
    BY <1>1
  <1>2. CASE opSplit(s).st # "error"
    <2> DEFINE o == opSplit(s)
    <2>1. o.st = "ok"
      BY <1>2, OpcodeReads
    <2>2. Parsed(s) = ParseArgs(o.val, o.rest)
      BY <2>1 DEF Parsed
    <2>3. FailsEmpty(ParseArgs(o.val, o.rest))
      BY ArgsFailEmpty
    <2>4. QED BY <2>2, <2>3 DEF FailsEmpty
  <1>3. QED BY <1>1, <1>2

\* A turn reads the next of them or none.
LEMMA SomeReadNext ==
  ASSUME NEW R, R \subseteq Meant, BytecodeTypeOK, ParseNext, NEW E \in Seq(Ins),
         SomeRead(R, asm.out, E, lines, b, "parse")
  PROVE  SomeRead(R, asm.out, E, lines', b', phase')
  <1>1. PICK f \in [1 .. Len(E) + 1 -> Word], n \in 0 .. Len(E) :
          ReadAt(R, asm.out, E, lines, f, n) /\ Begins(b, f[n + 1])
    BY DEF SomeRead
  <1>2. Len(E) \in Nat /\ b \in Word
    BY DEF BytecodeTypeOK
  <1>3. CASE Parsed(b).st # "ok"
    <2>1. lines' = lines
      BY <1>3, TurnIs
    <2>2. phase' # "parse"
      BY <1>2, <1>3, FailedRest, TurnIs
    <2>3. QED BY <1>1, <2>1, <2>2 DEF SomeRead
  <1>4. CASE Parsed(b).st = "ok"
    <2>1. n # Len(E)
      <3> SUFFICES ASSUME n = Len(E) PROVE FALSE
        OBVIOUS
      <3>1. Begins(b, <<>>)
        BY <1>1 DEF ReadAt
      <3>2. b = <<>>
        <4>1. PICK u \in Word : <<>> = b \o u
          BY <3>1 DEF Begins
        <4>2. b \in Seq(Byte) /\ u \in Seq(Byte)
          BY <1>2 DEF Word
        <4>3. Len(b \o u) = Len(b) + Len(u)
          BY <4>2, ConcatProperties
        <4>4. Len(b) \in Nat /\ Len(u) \in Nat /\ Len(<<>>) = 0
          BY <4>2, LenProperties
        <4>5. Len(b) = 0
          <5>1. Len(b) + Len(u) = 0
            BY <4>1, <4>3, <4>4
          <5>2. QED BY <4>4, <5>1
        <4>6. QED BY <4>2, <4>5
      <3>3. opSplit(b).st = "error"
        BY <3>2 DEF opSplit, Read
      <3>4. QED BY <1>4, <3>3 DEF Parsed
    <2>2. n + 1 \in 1 .. Len(E) /\ n + 2 \in 1 .. Len(E) + 1 /\ n + 1 \in 0 .. Len(E)
          /\ (n + 1) + 1 = n + 2
      BY <1>2, <2>1
    <2>3. PICK c \in Word : <<c, E[n + 1]>> \in R /\ f[n + 1] = c \o f[n + 2]
      BY <1>1, <2>2 DEF ReadAt
    <2>4. ReadsAs(c, E[n + 1]) /\ f[n + 2] \in Word
      BY <2>2, <2>3 DEF Meant
    <2>5. Begins(b, c \o f[n + 2])
      BY <1>1, <2>3
    <2>6. opSplit(b).st = "ok" /\ <<opSplit(b).val>> \o Parsed(b).val = E[n + 1]
          /\ Begins(Parsed(b).rest, f[n + 2])
      BY <1>4, <2>4, <2>5 DEF ReadsAs
    <2>7. lines' = lines \o Shows(E[n + 1]) /\ b' = Parsed(b).rest
      BY <1>4, <2>6, TurnIs
    <2>8. ListedTo(E, n) \o Shows(E[n + 1]) = ListedTo(E, n + 1)
      BY <1>2, <2>2, ListedIsSeq, ListedNext
    <2>9. ReadAt(R, asm.out, E, lines', f, n + 1)
      BY <1>1, <2>2, <2>7, <2>8 DEF ReadAt
    <2>10. SomeRead(R, asm.out, E, lines', b', phase')
      BY <2>2, <2>6, <2>7, <2>9 DEF SomeRead
    <2>11. QED BY <2>10
  <1>5. QED BY <1>3, <1>4

\* The phases in which the disassembler has been given the bytecode.
Opened == {"parse", "ok", "error", "panic"}

\* Before the disassembler starts there is nothing of it; then it has read some of the
\* instructions that the source stands for.
PartInv(R) ==
  Covered(R, src) => /\ phase \in {"asm", "stored"} => lines = <<>>
                     /\ phase \in Opened => SomeRead(R, asm.out, Expand(src), lines, b, phase)

\* The disassembler starts with a beginning of the bytecode.
LEMMA PartLoad ==
  ASSUME NEW R, BytecodeTypeOK, WrittenInv(R), PartInv(R), NEW n \in 0 .. Len(asm.out), Load(n)
  PROVE  PartInv(R)'
  <1>1. /\ src' = src /\ asm' = asm /\ lines' = lines /\ phase = "stored" /\ phase' = "parse"
        /\ b' = SubSeq(asm.out, 1, n) /\ asm.out \in Word
    BY DEF Load, Running, BytecodeTypeOK
  <1> SUFFICES ASSUME Covered(R, src)
               PROVE  SomeRead(R, asm.out, Expand(src), lines, b', "parse")
    BY <1>1 DEF PartInv
  <1>2. lines = <<>> /\ Complies(R, asm, src)
    BY <1>1 DEF PartInv, WrittenInv
  <1> DEFINE E == Expand(src)
  <1>3. Codes(R, asm.out, E) /\ E \in Seq(Ins)
    BY <1>2 DEF Complies
  <1> HIDE DEF E
  <1>4. PICK f \in [1 .. Len(E) + 1 -> Word] :
          /\ f[1] = asm.out /\ f[Len(E) + 1] = <<>>
          /\ \A i \in 1 .. Len(E) : \E c \in Word : <<c, E[i]>> \in R /\ f[i] = c \o f[i + 1]
    BY <1>3 DEF Codes
  <1>5. ListedTo(E, 0) = <<>> /\ 0 \in 0 .. Len(E)
    BY <1>3 DEF ListedTo
  <1>6. ReadAt(R, asm.out, E, lines, f, 0)
    BY <1>2, <1>4, <1>5 DEF ReadAt
  <1>7. Begins(b', f[0 + 1])
    BY <1>1, <1>4, BeginsCut
  <1>8. SomeRead(R, asm.out, E, lines, b', "parse")
    BY <1>5, <1>6, <1>7 DEF SomeRead
  <1>9. QED BY <1>8 DEF E

\* Every step keeps it.
LEMMA PartNext ==
  ASSUME NEW R, R \subseteq Meant, BytecodeTypeOK, WrittenInv(R), PartInv(R), [Next]_vars
  PROVE  PartInv(R)'
  <1>1. ASSUME NEW l \in Line, Assemble(l) PROVE PartInv(R)'
    <2>1. src' = Append(src, l) /\ phase = "asm" /\ lines' = lines /\ src \in Seq(Line)
      BY <1>1 DEF Assemble, Running, BytecodeTypeOK
    <2>2. phase' \notin Opened
      BY <1>1 DEF Assemble, AsmBatch, AsmOne, Opened
    <2>3. Covered(R, src') => Covered(R, src)
      BY <2>1, CoveredBefore
    <2>4. QED BY <2>1, <2>2, <2>3 DEF PartInv
  <1>2. CASE Finish
    <2>1. src' = src /\ phase = "asm" /\ lines' = lines /\ phase' = "stored"
      BY <1>2 DEF Finish, Running
    <2>2. QED BY <2>1 DEF PartInv, Opened
  <1>3. ASSUME NEW n \in 0 .. Len(asm.out), Load(n) PROVE PartInv(R)'
    BY <1>3, PartLoad
  <1>4. CASE ParseNext
    <2>1. src' = src /\ asm' = asm /\ phase = "parse"
      BY <1>4, TurnIs
    <2>2. phase' \notin {"asm", "stored"}
      BY <1>4, TurnIs
    <2>3. ASSUME Covered(R, src)
          PROVE  SomeRead(R, asm.out, Expand(src), lines', b', phase')
      <3>1. Expand(src) \in Seq(Ins)
        BY <2>1, <2>3 DEF WrittenInv, Complies
      <3>2. SomeRead(R, asm.out, Expand(src), lines, b, "parse")
        BY <2>1, <2>3 DEF PartInv, Opened
      <3>3. QED BY <1>4, <3>1, <3>2, SomeReadNext
    <2>4. QED BY <2>1, <2>2, <2>3 DEF PartInv
  <1>5. CASE UNCHANGED vars
    BY <1>5 DEF vars, PartInv
  <1>6. QED BY <1>1, <1>2, <1>3, <1>4, <1>5 DEF Next

\* What a turn reads of any beginning of what was written.
LEMMA MeantCovers ==
  /\ CoversHalt(Meant)
  /\ \A l \in Line : Proper(l) => Covers(Meant, l)
  <1>1. CoversHalt(Meant)
    <2> DEFINE c == NewLine("HALT", <<>>)
    <2>1. c \in Word /\ ReadsAs(c, <<"HALT">>)
      BY HaltReading
    <2> HIDE DEF c
    <2>2. <<"HALT">> \in Ins
      BY DEF Ins
    <2>3. <<c, <<"HALT">>>> \in Meant
      BY <2>1, <2>2 DEF Meant
    <2>4. QED BY <2>3 DEF CoversHalt, c
  <1>2. ASSUME NEW c, NEW i \in Ins, NEW l, Reading(l, c, i) PROVE <<c, i>> \in Meant
    BY <1>2 DEF Reading, Meant
  <1>3. ASSUME NEW l \in Line, Proper(l) PROVE Covers(Meant, l)
    <2>1. Meaning(l) \in Ins /\ Shown(l) \in Ins /\ Asked(l) \in Ins
      BY DEF Ins
    <2>2. CASE l.code \in BatchCode
      <3>1. Adds(l) => /\ Reading(l, Label(l.code, MenuItem(l)), Shown(l))
                       /\ Reading(l, Target(l.code, MenuItem(l)), Asked(l))
        BY <1>3, <2>2, BatchReading
      <3>2. QED BY <1>2, <2>1, <2>2, <3>1 DEF Covers
    <2>3. CASE l.code \notin BatchCode
      <3>1. Single(l)
        BY <1>3, <2>3, LineAssumption DEF Single
      <3>2. parseOne(l) # Absent => Reading(l, parseOne(l), Meaning(l))
        BY <3>1, SingleReading
      <3>3. QED BY <1>2, <2>1, <2>3, <3>2 DEF Covers
    <2>4. QED BY <2>2, <2>3
  <1>4. QED BY <1>1, <1>3

\* Whatever the end that bytecode lost, ParseAll (src/vm/debug.go:168) lists of it the
\* first of the instructions that the lines and the batch of the source stand for, and
\* no other, if every line has the arguments that are documented for it. Of a NOOP, for
\* which it has no case, it lists nothing.
THEOREM PrefixIsRead ==
  ASSUME \A l \in Line : Proper(l)
  PROVE  Spec => []PrefixRead
  <1>1. /\ CoversHalt(Meant)
        /\ \A l \in Line : Covers(Meant, l)
    BY MeantCovers
  <1>2. Init => BytecodeTypeOK /\ WrittenInv(Meant) /\ PartInv(Meant)
    <2>1. Init => BytecodeTypeOK
      BY InitTypeOK
    <2>2. Init => WrittenInv(Meant)
      BY WrittenInit
    <2>3. Init => PartInv(Meant)
      BY DEF Init, PartInv, Opened
    <2>4. QED BY <2>1, <2>2, <2>3
  <1>3. BytecodeTypeOK /\ WrittenInv(Meant) /\ PartInv(Meant) /\ [Next]_vars
          => BytecodeTypeOK' /\ WrittenInv(Meant)' /\ PartInv(Meant)'
    <2>1. SUFFICES ASSUME BytecodeTypeOK, WrittenInv(Meant), PartInv(Meant), [Next]_vars
                   PROVE  BytecodeTypeOK' /\ WrittenInv(Meant)' /\ PartInv(Meant)'
      OBVIOUS
    <2>2. BytecodeTypeOK'
      BY <2>1, NextTypeOK
    <2>3. WrittenInv(Meant)'
      BY <1>1, <2>1, WrittenNext
    <2>4. PartInv(Meant)'
      BY <2>1, PartNext
    <2>5. QED BY <2>2, <2>3, <2>4
  <1>4. BytecodeTypeOK /\ WrittenInv(Meant) /\ PartInv(Meant) => PrefixRead
    <2> SUFFICES ASSUME BytecodeTypeOK, WrittenInv(Meant), PartInv(Meant),
                        phase \in Ended \ {"refused"}
                 PROVE  IsPrefix(lines, Listing(Expand(src)))
      BY DEF PrefixRead
    <2> DEFINE E == Expand(src)
    <2>1. Covered(Meant, src)
      <3>1. \A i \in 1 .. Len(src) : src[i] \in Line
        BY DEF BytecodeTypeOK
      <3>2. QED BY <1>1, <3>1 DEF Covered
    <2>2. phase \in Opened
      BY DEF Ended, Opened
    <2>3. E \in Seq(Ins) /\ E # <<>>
      BY <2>1, <2>2 DEF WrittenInv, Complies, Opened
    <2>4. SomeRead(Meant, asm.out, E, lines, b, phase)
      BY <2>1, <2>2 DEF PartInv
    <2> HIDE DEF E
    <2>5. PICK n \in 0 .. Len(E) : lines = ListedTo(E, n)
      BY <2>4 DEF SomeRead, ReadAt
    <2>6. Len(E) \in n .. Len(E) /\ Len(E) \in 0 .. Len(E)
      BY <2>3
    <2> DEFINE x == ListedTo(E, n)
               t == ListedTo(E, Len(E))
    <2>7. Starts(x, t) /\ x \in Seq(Ins) /\ t \in Seq(Ins)
      BY <2>3, <2>6, ListedStarts, ListedIsSeq
    <2>8. t = Listing(E)
      BY <2>3, ListedAll
    <2> HIDE DEF x, t
    <2>9. IsPrefix(x, t)
      BY <2>7, StartsIsPrefix
    <2>10. QED BY <2>5, <2>8, <2>9 DEF E, x
  <1>5. QED BY <1>2, <1>3, <1>4, PTL DEF Spec

-----------------------------------------------------------------------------
(* All of it.                                                              *)

\* All that was written is there: what is left is the instructions that are not read
\* yet, and the disassembler stops after the last of them.
AllRead(panics, R, out, E, ls, w, ph) ==
  \E f \in [1 .. Len(E) + 1 -> Word], n \in 0 .. Len(E) :
    /\ ReadAt(R, out, E, ls, f, n)
    /\ ph = "parse" => n < Len(E) /\ w = f[n + 1]
    /\ ph = "ok" => n = Len(E)
    /\ ph # "error" /\ (ph = "panic" => panics)

\* Pairs of bytes and an instruction that is read of them, or not at all if that panics.
MeantWhole(panics) == {p \in Meant : p[1] # <<>> /\ ReadsWhole(panics, p[1])}

\* Something before anything is something.
LEMMA ConcatIsSome ==
  ASSUME NEW x \in Word, x # <<>>, NEW y \in Word
  PROVE  x \o y # <<>>
  <1>1. x \in Seq(Byte) /\ y \in Seq(Byte)
    BY DEF Word
  <1>2. Len(x \o y) = Len(x) + Len(y)
    BY <1>1, ConcatProperties
  <1>3. Len(x) \in Nat \ {0} /\ Len(y) \in Nat
    BY <1>1
  <1>4. Len(x \o y) # 0
    BY <1>2, <1>3
  <1>5. QED BY <1>4

\* A turn reads the next of them.
LEMMA AllReadNext ==
  ASSUME NEW panics, NEW R, R \subseteq MeantWhole(panics), BytecodeTypeOK, ParseNext,
         NEW E \in Seq(Ins), AllRead(panics, R, asm.out, E, lines, b, "parse")
  PROVE  AllRead(panics, R, asm.out, E, lines', b', phase')
  <1>1. PICK f \in [1 .. Len(E) + 1 -> Word], n \in 0 .. Len(E) :
          ReadAt(R, asm.out, E, lines, f, n) /\ n < Len(E) /\ b = f[n + 1]
    BY DEF AllRead
  <1>2. Len(E) \in Nat
    OBVIOUS
  <1>3. n + 1 \in 1 .. Len(E) /\ n + 2 \in 1 .. Len(E) + 1 /\ n + 1 \in 0 .. Len(E)
        /\ (n + 1) + 1 = n + 2
    BY <1>1, <1>2
  <1>4. PICK c \in Word : <<c, E[n + 1]>> \in R /\ f[n + 1] = c \o f[n + 2]
    BY <1>1, <1>3 DEF ReadAt
  <1> DEFINE t == f[n + 2]
  <1>5. ReadsAs(c, E[n + 1]) /\ t \in Word /\ ReadsWhole(panics, c)
    BY <1>3, <1>4 DEF MeantWhole, Meant
  <1> HIDE DEF t
  <1>6. b = c \o t
    BY <1>1, <1>4 DEF t
  <1>7. \/ Parsed(b).st = "ok" /\ Parsed(b).rest = t
        \/ panics /\ Parsed(b).st = "panic"
    BY <1>5, <1>6 DEF ReadsWhole
  <1>8. CASE Parsed(b).st = "panic"
    <2>1. lines' = lines /\ phase' = "panic"
      BY <1>8, TurnIs
    <2>2. panics
      BY <1>7, <1>8
    <2>3. QED BY <1>1, <2>1, <2>2 DEF AllRead
  <1>9. CASE Parsed(b).st = "ok" /\ Parsed(b).rest = t
    <2>1. Begins(b, c \o t)
      BY <1>5, <1>6, ConcatIsWord, BeginsWhole
    <2>2. opSplit(b).st = "ok" /\ <<opSplit(b).val>> \o Parsed(b).val = E[n + 1]
      BY <1>5, <1>9, <2>1 DEF ReadsAs
    <2>3. /\ lines' = lines \o Shows(E[n + 1]) /\ b' = t
          /\ phase' = IF t = <<>> THEN "ok" ELSE "parse"
      BY <1>9, <2>2, TurnIs
    <2>4. ListedTo(E, n) \o Shows(E[n + 1]) = ListedTo(E, n + 1)
      BY <1>2, <1>3, ListedIsSeq, ListedNext
    <2>5. ReadAt(R, asm.out, E, lines', f, n + 1)
      BY <1>1, <1>3, <2>3, <2>4 DEF ReadAt
    <2>6. t = <<>> <=> n + 1 = Len(E)
      <3>1. CASE n + 1 = Len(E)
        <4>1. t = f[Len(E) + 1]
          BY <1>3, <3>1 DEF t
        <4>2. QED BY <1>1, <3>1, <4>1 DEF ReadAt
      <3>2. CASE n + 1 # Len(E)
        <4>1. n + 2 \in 1 .. Len(E) /\ (n + 2) + 1 \in 1 .. Len(E) + 1
          BY <1>1, <1>2, <3>2
        <4>2. PICK d \in Word : <<d, E[n + 2]>> \in R /\ f[n + 2] = d \o f[(n + 2) + 1]
          BY <1>1, <4>1 DEF ReadAt
        <4>3. d # <<>> /\ f[(n + 2) + 1] \in Word
          BY <4>1, <4>2 DEF MeantWhole
        <4>4. t # <<>>
          BY <4>2, <4>3, ConcatIsSome DEF t
        <4>5. QED BY <3>2, <4>4
      <3>3. QED BY <3>1, <3>2
    <2>7. /\ phase' = "parse" => n + 1 < Len(E) /\ b' = f[(n + 1) + 1]
          /\ phase' = "ok" => n + 1 = Len(E)
          /\ phase' # "error" /\ phase' # "panic"
      <3>1. phase' = "parse" => n + 1 < Len(E)
        BY <1>2, <1>3, <2>3, <2>6
      <3>2. b' = f[(n + 1) + 1]
        BY <1>3, <2>3 DEF t
      <3>3. QED BY <2>3, <2>6, <3>1, <3>2
    <2>8. QED BY <1>3, <2>5, <2>7 DEF AllRead
  <1>10. QED BY <1>7, <1>8, <1>9

\* What of it is read while all of the bytecode is there.
WholeInv(panics, R) ==
  Covered(R, src) /\ phase \in Opened /\ code = asm.out
    => AllRead(panics, R, asm.out, Expand(src), lines, b, phase)

\* The disassembler starts with all of it.
LEMMA WholeLoad ==
  ASSUME NEW panics, NEW R, BytecodeTypeOK, WrittenInv(R), PartInv(R),
         NEW k \in 0 .. Len(asm.out), Load(k)
  PROVE  WholeInv(panics, R)'
  <1>1. /\ src' = src /\ asm' = asm /\ lines' = lines /\ phase = "stored" /\ phase' = "parse"
        /\ b' = code'
    BY DEF Load, Running
  <1> SUFFICES ASSUME Covered(R, src), code' = asm.out
               PROVE  AllRead(panics, R, asm.out, Expand(src), lines, b', "parse")
    BY <1>1 DEF WholeInv
  <1>2. lines = <<>> /\ Complies(R, asm, src)
    BY <1>1 DEF PartInv, WrittenInv
  <1> DEFINE E == Expand(src)
  <1>3. Codes(R, asm.out, E) /\ E \in Seq(Ins) /\ E # <<>>
    BY <1>2 DEF Complies
  <1> HIDE DEF E
  <1>4. PICK f \in [1 .. Len(E) + 1 -> Word] :
          /\ f[1] = asm.out /\ f[Len(E) + 1] = <<>>
          /\ \A i \in 1 .. Len(E) : \E c \in Word : <<c, E[i]>> \in R /\ f[i] = c \o f[i + 1]
    BY <1>3 DEF Codes
  <1>5. ListedTo(E, 0) = <<>> /\ 0 \in 0 .. Len(E) /\ 0 < Len(E)
    BY <1>3 DEF ListedTo
  <1>6. ReadAt(R, asm.out, E, lines, f, 0)
    BY <1>2, <1>4, <1>5 DEF ReadAt
  <1>7. b' = f[0 + 1]
    BY <1>1, <1>4
  <1>8. AllRead(panics, R, asm.out, E, lines, b', "parse")
    BY <1>5, <1>6, <1>7 DEF AllRead
  <1>9. QED BY <1>8 DEF E

\* Every step keeps it.
LEMMA WholeNext ==
  ASSUME NEW panics, NEW R, R \subseteq MeantWhole(panics), BytecodeTypeOK,
         WrittenInv(R), PartInv(R), WholeInv(panics, R), [Next]_vars
  PROVE  WholeInv(panics, R)'
  <1>1. ASSUME NEW l \in Line, Assemble(l) PROVE WholeInv(panics, R)'
    <2>1. phase' \notin Opened
      BY <1>1 DEF Assemble, AsmBatch, AsmOne, Opened
    <2>2. QED BY <2>1 DEF WholeInv
  <1>2. CASE Finish
    <2>1. phase' \notin Opened
      BY <1>2 DEF Finish, Opened
    <2>2. QED BY <2>1 DEF WholeInv
  <1>3. ASSUME NEW n \in 0 .. Len(asm.out), Load(n) PROVE WholeInv(panics, R)'
    BY <1>3, WholeLoad
  <1>4. CASE ParseNext
    <2>1. src' = src /\ asm' = asm /\ code' = code /\ phase = "parse"
      BY <1>4, TurnIs
    <2>2. ASSUME Covered(R, src), code = asm.out
          PROVE  AllRead(panics, R, asm.out, Expand(src), lines', b', phase')
      <3>1. Expand(src) \in Seq(Ins)
        BY <2>1, <2>2 DEF WrittenInv, Complies
      <3>2. AllRead(panics, R, asm.out, Expand(src), lines, b, "parse")
        BY <2>1, <2>2 DEF WholeInv, Opened
      <3>3. QED BY <1>4, <3>1, <3>2, AllReadNext
    <2>3. QED BY <2>1, <2>2 DEF WholeInv
  <1>5. CASE UNCHANGED vars
    BY <1>5 DEF vars, WholeInv
  <1>6. QED BY <1>1, <1>2, <1>3, <1>4, <1>5 DEF Next

\* At the end all of it is read.
LEMMA WholeIsRead ==
  ASSUME NEW panics, NEW R, NEW E \in Seq(Ins), E # <<>>, NEW out, NEW ls, NEW w,
         AllRead(panics, R, out, E, ls, w, "ok")
  PROVE  ls = Listing(E)
  <1>1. PICK f \in [1 .. Len(E) + 1 -> Word], n \in 0 .. Len(E) :
          ReadAt(R, out, E, ls, f, n) /\ n = Len(E)
    BY DEF AllRead
  <1>2. ls = ListedTo(E, Len(E))
    BY <1>1 DEF ReadAt
  <1>3. QED BY <1>2, ListedAll

\* The pairs of a line that is read as a whole.
LEMMA WholeCovers ==
  ASSUME NEW panics
  PROVE  /\ CoversHalt(MeantWhole(panics))
         /\ \A l \in Line : Proper(l) /\ Filled(l) /\ (panics \/ ~Longest(l))
              => Covers(MeantWhole(panics), l)
  <1> DEFINE R == MeantWhole(panics)
  <1>1. CoversHalt(R)
    <2> DEFINE c == NewLine("HALT", <<>>)
    <2>1. c \in Word /\ c # <<>> /\ ReadsWhole(panics, c)
      BY HaltReading
    <2>2. <<c, <<"HALT">>>> \in Meant
      BY MeantCovers DEF CoversHalt
    <2> HIDE DEF c
    <2>3. <<c, <<"HALT">>>> \in R
      BY <2>1, <2>2 DEF MeantWhole
    <2> HIDE DEF R
    <2>4. QED BY <2>3 DEF CoversHalt, c
  <1>2. ASSUME NEW c, NEW i \in Ins, NEW l, Reading(l, c, i), Filled(l), panics \/ ~Longest(l)
        PROVE  <<c, i>> \in R
    <2>1. c \in Word /\ c # <<>> /\ ReadsAs(c, i) /\ ReadsWhole(panics, c)
      BY <1>2 DEF Reading
    <2>2. QED BY <2>1 DEF Meant, MeantWhole
  <1> HIDE DEF R
  <1>3. ASSUME NEW l \in Line, Proper(l), Filled(l), panics \/ ~Longest(l) PROVE Covers(R, l)
    <2>1. Meaning(l) \in Ins /\ Shown(l) \in Ins /\ Asked(l) \in Ins
      BY DEF Ins
    <2>2. CASE l.code \in BatchCode
      <3>1. Adds(l) => /\ Reading(l, Label(l.code, MenuItem(l)), Shown(l))
                       /\ Reading(l, Target(l.code, MenuItem(l)), Asked(l))
        BY <1>3, <2>2, BatchReading
      <3>2. QED BY <1>2, <1>3, <2>1, <2>2, <3>1 DEF Covers
    <2>3. CASE l.code \notin BatchCode
      <3>1. Single(l)
        BY <1>3, <2>3, LineAssumption DEF Single
      <3>2. parseOne(l) # Absent => Reading(l, parseOne(l), Meaning(l))
        BY <3>1, SingleReading
      <3>3. QED BY <1>2, <1>3, <2>1, <2>3, <3>2 DEF Covers
    <2>4. QED BY <2>2, <2>3
  <1>4. QED BY <1>1, <1>3 DEF R

ReadInv(panics, R) == BytecodeTypeOK /\ WrittenInv(R) /\ PartInv(R) /\ WholeInv(panics, R)

\* The four together are inductive.
LEMMA ReadInvInductive ==
  ASSUME NEW panics, NEW R, R \subseteq MeantWhole(panics), CoversHalt(R)
  PROVE  /\ Init => ReadInv(panics, R)
         /\ ReadInv(panics, R) /\ [Next]_vars => ReadInv(panics, R)'
  <1>1. ASSUME Init PROVE ReadInv(panics, R)
    <2>1. BytecodeTypeOK
      BY <1>1, InitTypeOK
    <2>2. WrittenInv(R)
      BY <1>1, WrittenInit
    <2>3. PartInv(R) /\ WholeInv(panics, R)
      BY <1>1 DEF Init, PartInv, WholeInv, Opened
    <2>4. QED BY <2>1, <2>2, <2>3 DEF ReadInv
  <1>2. ASSUME ReadInv(panics, R), [Next]_vars PROVE ReadInv(panics, R)'
    <2>1. BytecodeTypeOK /\ WrittenInv(R) /\ PartInv(R) /\ WholeInv(panics, R)
      BY <1>2 DEF ReadInv
    <2>2. R \subseteq Meant
      BY DEF MeantWhole
    <2>3. BytecodeTypeOK'
      BY <1>2, <2>1, NextTypeOK
    <2>4. WrittenInv(R)'
      BY <1>2, <2>1, WrittenNext
    <2>5. PartInv(R)'
      BY <1>2, <2>1, <2>2, PartNext
    <2>6. WholeInv(panics, R)'
      BY <1>2, <2>1, WholeNext
    <2>7. QED BY <2>3, <2>4, <2>5, <2>6 DEF ReadInv
  <1>3. QED BY <1>1, <1>2

\* What the assembler (src/asm/asm.go, src/asm/menu.go) writes is listed by ParseAll
\* (src/vm/debug.go:168) as the lines and the expansion of the batch, all of them in
\* their order but for NOOPs, and nothing else, if every line has the arguments that are documented
\* for it, none of them empty, and no symbol of the source has the greatest length.
THEOREM WrittenIsRead ==
  ASSUME \A l \in Line : Proper(l) /\ Filled(l)
  PROVE  Spec => []ReadAsWritten
  <1> DEFINE R == MeantWhole(FALSE)
  <1>1. R \subseteq MeantWhole(FALSE) /\ CoversHalt(R)
        /\ \A l \in Line : ~Longest(l) => Covers(R, l)
    BY WholeCovers
  <1> HIDE DEF R
  <1>2. /\ Init => ReadInv(FALSE, R)
        /\ ReadInv(FALSE, R) /\ [Next]_vars => ReadInv(FALSE, R)'
    BY <1>1, ReadInvInductive
  <1>3. ReadInv(FALSE, R) => ReadAsWritten
    <2> SUFFICES ASSUME ReadInv(FALSE, R), phase \in Ended \ {"refused"}, code = asm.out,
                        \A i \in DOMAIN src : ~Longest(src[i])
                 PROVE  phase = "ok" /\ lines = Listing(Expand(src))
      BY DEF ReadAsWritten
    <2> DEFINE E == Expand(src)
    <2>1. Covered(R, src)
      <3>1. \A i \in 1 .. Len(src) : src[i] \in Line /\ ~Longest(src[i])
        BY DEF ReadInv, BytecodeTypeOK
      <3>2. QED BY <1>1, <3>1 DEF Covered
    <2>2. phase \in Opened /\ phase # "parse"
      BY DEF Ended, Opened
    <2>3. E \in Seq(Ins) /\ E # <<>>
      BY <2>1, <2>2 DEF ReadInv, WrittenInv, Complies, Opened
    <2>4. AllRead(FALSE, R, asm.out, E, lines, b, phase)
      BY <2>1, <2>2 DEF ReadInv, WholeInv
    <2> HIDE DEF E
    <2>5. phase = "ok"
      BY <2>2, <2>4 DEF AllRead, Opened
    <2>6. lines = Listing(E)
      BY <2>3, <2>4, <2>5, WholeIsRead
    <2>7. QED BY <2>5, <2>6 DEF E
  <1>4. QED BY <1>2, <1>3, PTL DEF Spec

-----------------------------------------------------------------------------
(* What is printed is assembled again.                                     *)

\* f has what is left of a word before each of the first n of ws.
Leaves(f, ws, n) ==
  \A i \in 1 .. n : ws[i] \in Word /\ f[i + 1] \in Word /\ f[i] = ws[i] \o f[i + 1]

\* What g has flattened up to i comes before what f has left after it.
Before(g, f, w, i) == g[i] \in Word /\ g[i] \o f[i + 1] = w

\* What is flattened so far comes before the rest.
LEMMA FlattenBefore ==
  ASSUME NEW n \in Nat, NEW ws, NEW w, NEW f, f[1] = w, Leaves(f, ws, n),
         NEW g, Flattens(g, ws, n), NEW k \in 1 .. n
  PROVE  Before(g, f, w, k)
  <1> DEFINE T == {i \in 1 .. n : ~Before(g, f, w, i)}
  <1>1. SUFFICES ASSUME T # {} PROVE FALSE
    OBVIOUS
  <1>2. PICK i \in T : \A j \in T : i <= j
    <2>1. T \subseteq Nat
      OBVIOUS
    <2> HIDE DEF T
    <2>2. QED BY <1>1, <2>1, SmallestNumber
  <1>3. i \in 1 .. n /\ g[i] = IF i = 1 THEN ws[i] ELSE g[i - 1] \o ws[i]
    BY <1>2 DEF Flattens
  <1>4. ws[i] \in Word /\ f[i] = ws[i] \o f[i + 1] /\ f[i + 1] \in Word
    BY <1>3 DEF Leaves
  <1>5. CASE i = 1
    BY <1>2, <1>3, <1>4, <1>5 DEF Before
  <1>6. CASE i # 1
    <2>1. i - 1 \in 1 .. n /\ i - 1 \notin T /\ (i - 1) + 1 = i
      BY <1>2, <1>3, <1>6
    <2>2. g[i - 1] \in Word /\ g[i - 1] \o f[i] = w
      BY <2>1 DEF Before
    <2> DEFINE x == g[i - 1]
               y == ws[i]
               z == f[i + 1]
    <2>3. x \in Word /\ y \in Word /\ z \in Word
      BY <1>4, <2>2
    <2>4. g[i] = x \o y /\ w = x \o (y \o z)
      BY <1>3, <1>4, <1>6, <2>2
    <2> HIDE DEF x, y, z
    <2>5. (x \o y) \o z = x \o (y \o z)
      BY ONLY <2>3, Regroup
    <2>6. g[i] \in Word /\ g[i] \o z = w
      BY <2>3, <2>4, <2>5, ConcatIsWord
    <2>7. QED BY <1>2, <2>6 DEF Before, z
  <1>7. QED BY <1>5, <1>6

\* A flattened sequence is the word that its elements make up.
LEMMA FlattenIs ==
  ASSUME NEW ws \in Seq(Word), ws # <<>>, NEW w \in Word,
         NEW f, f[1] = w, f[Len(ws) + 1] = <<>>,
         Leaves(f, ws, Len(ws))
  PROVE  FlattenSeq(ws) = w
  <1> DEFINE n == Len(ws)
             g == CHOOSE h : Flattens(h, ws, n)
  <1>1. n \in Nat /\ n # 0 /\ \A i \in 1 .. n : ws[i] \in Word
    OBVIOUS
  <1>2. Flattens(g, ws, n)
    BY <1>1, FlattenExists
  <1>3. FlattenSeq(ws) = g[n]
    BY <1>1 DEF FlattenSeq, Flattens
  <1> HIDE DEF g, n
  <1>4. f[n + 1] = <<>> /\ Leaves(f, ws, n)
    BY DEF n
  <1>5. n \in 1 .. n
    BY <1>1
  <1>6. g[n] \in Word /\ g[n] \o f[n + 1] = w
    <2>1. Before(g, f, w, n)
      BY <1>1, <1>2, <1>4, <1>5, FlattenBefore
    <2>2. QED BY <2>1 DEF Before
  <1>7. g[n] \o <<>> = g[n]
    BY <1>6 DEF Word
  <1>8. QED BY <1>3, <1>4, <1>6, <1>7

\* Two lines with the same arguments are written as the same bytes.
LEMMA SameIsWrittenSame ==
  ASSUME NEW a, NEW l, a.code = l.code, a.sym = l.sym, a.size = l.size, a.flag = l.flag,
         a.sel = l.sel
  PROVE  parseOne(a) = parseOne(l)
  BY DEF parseOne, parseTwoSym, parseTwoSymReverse, parseSig, parseSized, parseFlagged

\* An instruction whose "*" the assembler would move.
Swaps(m) == m[1] # "MOUT" /\ m[2] = Wild /\ m[3] # Wild /\ \A n \in Number : Decimal[n] # m[3]

\* Two words that are written one after the other.
LEMMA TwoFit ==
  ASSUME NEW v, Fits(v), NEW w, Fits(w), NEW op \in DOMAIN OpcodeIndex
  PROVE  Then(writeOpcode(op), Then(writeSym(v), writeSym(w)))
           = writeOpcode(op) \o (Counted(v) \o Counted(w))
  <1>1. writeSym(v) = Counted(v) /\ writeSym(w) = Counted(w)
        /\ Counted(v) \in Word /\ Counted(w) \in Word
    BY CountedIsWord
  <1>2. Counted(v) \o Counted(w) \in Word /\ writeOpcode(op) \in Word
    BY <1>1, ConcatIsWord, OpcodeIsWord
  <1>3. Absent \notin Word
    BY BytecodeAssumption
  <1>4. Then(writeSym(v), writeSym(w)) = Counted(v) \o Counted(w)
    BY <1>1, <1>3 DEF Then
  <1>5. QED BY <1>2, <1>3, <1>4 DEF Then

\* An instruction of two symbols is printed as a line that is written as it was.
LEMMA TwoSymRewritten ==
  ASSUME NEW l, NEW c, NEW m, TwoSymLine(l, c, m), ~Swaps(m)
  PROVE  parseOne(Printed(m)) = c
  <1>1. PICK op \in TwoSyms, v \in Word, w \in Word :
          /\ Fits(v) /\ Fits(w)
          /\ c = writeOpcode(op) \o (Counted(v) \o Counted(w))
          /\ m = <<op, v, w>>
    BY DEF TwoSymLine
  <1>2. m[1] = op /\ m[2] = v /\ m[3] = w
    BY <1>1
  <1>3. op \in {"INCMP", "MOUT", "MNEXT", "MPREV"} /\ op \in DOMAIN OpcodeIndex
    BY DEF TwoSyms, OpcodeIndex
  <1>4. Absent \notin Word /\ Absent \notin Number
    BY BytecodeAssumption
  <1> DEFINE no == {n \in Number : Decimal[n] = w}
             d == CHOOSE n \in no : TRUE
             a == Arg(op, v, d, Absent, Absent, Absent)
             e == Arg(op, v, Absent, Absent, w, Absent)
  <1>5. Printed(m) = IF no # {} THEN a ELSE e
    BY <1>2, <1>3 DEF Printed
  <1>6. CASE no # {}
    <2>1. d \in Number /\ Decimal[d] = w
      BY <1>6
    <2>2. a.code = op /\ a.sym = v /\ a.size = d /\ a.flag = Absent /\ a.sel = Absent
      BY DEF Arg
    <2> HIDE DEF d, a, no
    <2>3. a.size # Absent /\ a.sym # Absent /\ a.code # "LOAD"
      BY <1>3, <1>4, <2>1, <2>2
    <2>4. parseOne(a) = Then(writeOpcode(op), parseTwoSym(a))
      BY <2>2, <2>3 DEF parseOne
    <2>5. parseTwoSym(a) = Then(writeSym(v), writeSym(w))
      BY <2>1, <2>2, <2>3 DEF parseTwoSym
    <2>6. parseOne(a) = c
      BY <1>1, <1>3, <2>4, <2>5, TwoFit
    <2>7. QED BY <1>5, <1>6, <2>6
  <1>7. CASE no = {}
    <2>1. e.code = op /\ e.sym = v /\ e.size = Absent /\ e.flag = Absent /\ e.sel = w
      BY DEF Arg
    <2> HIDE DEF e, a
    <2>2. e.sel # Absent
      BY <1>4, <2>1
    <2>3. parseOne(e) = Then(writeOpcode(op),
                             IF op = "MOUT" THEN parseTwoSymReverse(e) ELSE parseTwoSym(e))
      BY <2>1, <2>2 DEF parseOne
    <2>4. parseTwoSymReverse(e) = Then(writeSym(v), writeSym(w))
      BY <2>1 DEF parseTwoSymReverse
    <2>5. parseTwoSym(e) = IF v = Wild THEN Then(writeSym(w), writeSym(v))
                           ELSE Then(writeSym(v), writeSym(w))
      BY <2>1 DEF parseTwoSym
    <2>6. op # "MOUT" /\ v = Wild => w = Wild
      BY <1>2, <1>7 DEF Swaps
    <2>7. parseOne(e) = Then(writeOpcode(op), Then(writeSym(v), writeSym(w)))
      BY <2>3, <2>4, <2>5, <2>6
    <2>8. parseOne(e) = c
      BY <1>1, <1>3, <2>7, TwoFit
    <2>9. QED BY <1>5, <1>7, <2>8
  <1>8. QED BY <1>6, <1>7

\* A line of one instruction with two symbols is one.
LEMMA SingleIsTwoSymLine ==
  ASSUME NEW l, Single(l), parseOne(l) # Absent, l.code \in TwoSyms
  PROVE  TwoSymLine(l, parseOne(l), Meaning(l)) /\ ~Swaps(Meaning(l))
  <1>1. parseOne(l) = writeOpcode(l.code) \o Args(l) /\ Args(l) # Absent
    <2>1. parseOne(l) = Then(writeOpcode(l.code), Args(l))
      BY DEF parseOne, Args
    <2>2. QED BY <2>1, ThenIsWritten
  <1>2. l.sym # Absent /\ l.flag = Absent /\ l.code # "LOAD" /\ (l.sel # Absent <=> l.size = Absent)
        /\ l.sym \in Word /\ l.size \in Number \cup {Absent}
    <2>1. l.code \notin {"CATCH", "CROAK", "LOAD"}
      BY DEF TwoSyms
    <2>2. QED BY <2>1, SingleIsTyped, LineAssumption DEF Single
  <1>3. Args(l) = IF l.sel # Absent
                  THEN IF l.code = "MOUT" THEN parseTwoSymReverse(l) ELSE parseTwoSym(l)
                  ELSE parseTwoSym(l)
    BY <1>2 DEF Args
  <1> DEFINE p == Selects(l)[1]
             q == Selects(l)[2]
  <1>4. /\ Fits(p) /\ Fits(q)
        /\ Args(l) = Counted(p) \o Counted(q)
        /\ Given(l) = <<p, q>>
        /\ Filled(l) => p # <<>> /\ q # <<>>
        /\ Filled(l) /\ ~Longest(l) => Readable(p) /\ Readable(q)
    BY <1>1, <1>3, TwoSymsWritten
  <1>5. l.size = Absent /\ l.sym # Wild => p = l.sym
    BY DEF Selects
  <1>6. l.size = Absent /\ l.sym = Wild => q = Wild
    BY DEF Selects
  <1>7. l.size # Absent => q = Decimal[l.size]
    BY DEF Selects
  <1> HIDE DEF p, q
  <1>8. p \in Word /\ q \in Word
    BY <1>4 DEF Fits
  <1>9. Meaning(l) = <<l.code, p, q>>
    <2>1. Meaning(l) = <<l.code>> \o <<p, q>>
      BY <1>4 DEF Meaning
    <2>2. QED BY <2>1, ConsTwo
  <1> DEFINE c == parseOne(l)
             m == Meaning(l)
  <1>10. c = writeOpcode(l.code) \o (Counted(p) \o Counted(q))
    BY <1>1, <1>4
  <1> HIDE DEF c, m
  <1>11. TwoSymLine(l, c, m)
    BY <1>4, <1>8, <1>9, <1>10 DEF TwoSymLine, m
  <1>12. ~Swaps(m)
    <2>1. m[2] = p /\ m[3] = q
      BY <1>9 DEF m
    <2>2. CASE l.size # Absent
      BY <1>2, <1>7, <2>1, <2>2 DEF Swaps
    <2>3. CASE l.size = Absent
      BY <1>5, <1>6, <2>1, <2>3 DEF Swaps
    <2>4. QED BY <2>2, <2>3
  <1>13. QED BY <1>11, <1>12 DEF c, m

\* Instructions that are printed as what is written as they were.
Rewritten(c, m) == parseOne(Printed(m)) = c

\* A HALT is.
LEMMA HaltRewritten == Rewritten(NewLine("HALT", <<>>), <<"HALT">>)
  <1> DEFINE a == Arg("HALT", Absent, Absent, Absent, Absent, Absent)
  <1>1. Printed(<<"HALT">>) = a
    BY DEF Printed
  <1>2. a.code = "HALT" /\ a.sym = Absent /\ a.size = Absent /\ a.sel = Absent
    BY DEF Arg
  <1> HIDE DEF a
  <1>3. <<>> # Absent /\ writeOpcode("HALT") # Absent
    <2>1. <<>> \in Word /\ writeOpcode("HALT") \in Word
      BY OpcodeIsWord DEF Word, OpcodeIndex
    <2>2. QED BY <2>1, BytecodeAssumption
  <1>4. parseOne(a) = writeOpcode("HALT") \o <<>>
    BY <1>2, <1>3 DEF parseOne, Then
  <1>5. QED BY <1>1, <1>4 DEF Rewritten, NewLine

\* The instructions of a batch are.
LEMMA BatchRewritten ==
  ASSUME NEW l \in Line, l.code \in BatchCode, Adds(l), Proper(l), Rewritable(l)
  PROVE  /\ Rewritten(Label(l.code, MenuItem(l)), Shown(l))
         /\ Rewritten(Target(l.code, MenuItem(l)), Asked(l))
  <1>1. l.code \in {"DOWN", "UP", "NEXT", "PREVIOUS"}
    BY DEF BatchCode
  <1>2. /\ l.code = "DOWN" => l.sym # Wild
        /\ l.code \in {"NEXT", "PREVIOUS"} => l.sel # Wild
    BY DEF Rewritable
  <1>3. ~Swaps(Shown(l))
    <2>1. Shown(l)[1] = "MOUT" \/ (l.code \in {"NEXT", "PREVIOUS"} /\ Shown(l)[2] = Display(l))
      BY <1>1 DEF Shown
    <2>2. l.code \in {"NEXT", "PREVIOUS"} => Display(l) = l.sel
      BY DEF Display
    <2>3. QED BY <1>2, <2>1, <2>2 DEF Swaps
  <1>4. ~Swaps(Asked(l))
    <2>1. Asked(l)[2] \in {NodeUp, NodeNext, NodePrevious}
          \/ (l.code = "DOWN" /\ Asked(l)[2] = l.sym)
      BY <1>1 DEF Asked
    <2>2. Asked(l)[2] # Wild
      BY <1>2, <2>1, BytecodeAssumption
    <2>3. QED BY <2>2 DEF Swaps
  <1>5. QED BY <1>3, <1>4, BatchIsTwoSymLine, TwoSymRewritten DEF Rewritten

\* What an instruction of none to three arguments has for elements.
LEMMA ElementsOfThree ==
  ASSUME NEW o, NEW u, NEW v, NEW w
  PROVE  /\ (<<o>> \o <<u>>)[1] = o /\ (<<o>> \o <<u>>)[2] = u
         /\ (<<o>> \o <<u, v>>)[1] = o /\ (<<o>> \o <<u, v>>)[2] = u /\ (<<o>> \o <<u, v>>)[3] = v
         /\ (<<o>> \o <<u, v, w>>)[1] = o /\ (<<o>> \o <<u, v, w>>)[2] = u
         /\ (<<o>> \o <<u, v, w>>)[3] = v /\ (<<o>> \o <<u, v, w>>)[4] = w
         /\ (<<o>> \o <<>>)[1] = o
  <1> DEFINE S == {o, u, v, w}
             x == <<u, v, w>>
             y == <<u>>
             z == <<u, v>>
             n == <<>>
             p == <<o>> \o x
             q == <<o>> \o y
             r == <<o>> \o z
             t == <<o>> \o n
  <1>1. /\ y \in Seq(S) /\ Len(y) = 1 /\ y[1] = u
        /\ z \in Seq(S) /\ Len(z) = 2 /\ z[1] = u /\ z[2] = v
        /\ x \in Seq(S) /\ Len(x) = 3 /\ x[1] = u /\ x[2] = v /\ x[3] = w
        /\ n \in Seq(S) /\ Len(n) = 0 /\ o \in S
    OBVIOUS
  <1>2. p = <<o>> \o x /\ q = <<o>> \o y /\ r = <<o>> \o z /\ t = <<o>> \o n
    OBVIOUS
  <1> HIDE DEF S, y, z, x, n, p, q, r, t
  <1>3. p[0 + 1] = o /\ q[0 + 1] = o /\ r[0 + 1] = o /\ t[0 + 1] = o
    BY <1>1, <1>2, ConsElements
  <1>4. q[1 + 1] = u
    BY <1>1, <1>2, ConsElements
  <1>5. r[1 + 1] = u /\ r[2 + 1] = v
    BY <1>1, <1>2, ConsElements
  <1>6. p[1 + 1] = u /\ p[2 + 1] = v /\ p[3 + 1] = w
    BY <1>1, <1>2, ConsElements
  <1>7. p[1] = o /\ q[1] = o /\ r[1] = o /\ t[1] = o
    BY <1>3
  <1>8. q[2] = u /\ r[2] = u /\ r[3] = v /\ p[2] = u /\ p[3] = v /\ p[4] = w
    BY <1>4, <1>5, <1>6
  <1>9. QED BY <1>7, <1>8 DEF p, q, r, t, x, y, z, n

\* A line of its own is printed with the arguments it had.
LEMMA SinglePrinted ==
  ASSUME NEW l, Single(l), l.code \notin TwoSyms, Rewritable(l)
  PROVE  parseOne(Printed(Meaning(l))) = parseOne(l)
  <1>1. /\ l.sym # Absent <=> l.code \in {"CATCH", "LOAD", "RELOAD", "MAP", "MOVE"}
        /\ l.size # Absent <=> l.code \in {"CATCH", "CROAK", "LOAD"}
        /\ l.flag # Absent <=> l.code \in {"CATCH", "CROAK"}
        /\ l.sel = Absent
    BY SingleIsTyped DEF Single, Proper
  <1>2. l.flag # Absent => l.flag = IF l.flag > 0 THEN 1 ELSE 0
    BY DEF Rewritable
  <1>3. l.code \notin {"INCMP", "MOUT", "MNEXT", "MPREV"}
    BY DEF TwoSyms
  <1> DEFINE m == Meaning(l)
             a == Printed(m)
             sg == l.flag > 0
  <1>4. CASE l.code = "CATCH"
    <2>1. m = <<l.code>> \o <<l.sym, l.size, sg>>
      BY <1>4 DEF Meaning, Given
    <2> HIDE DEF m, sg
    <2>2. m[1] = l.code /\ m[2] = l.sym /\ m[3] = l.size /\ m[4] = sg
      BY <2>1, ElementsOfThree
    <2>3. a = Arg(l.code, l.sym, l.size, IF sg THEN 1 ELSE 0, Absent, Absent)
      BY <1>4, <2>2 DEF Printed
    <2>4. a.code = l.code /\ a.sym = l.sym /\ a.size = l.size /\ a.flag = (IF sg THEN 1 ELSE 0)
          /\ a.sel = Absent
      BY <2>3 DEF Arg
    <2>5. a.flag = l.flag
      BY <1>1, <1>2, <1>4, <2>4 DEF sg
    <2> HIDE DEF a
    <2>6. QED BY <1>1, <2>4, <2>5, SameIsWrittenSame DEF m, a
  <1>5. CASE l.code = "CROAK"
    <2>1. m = <<l.code>> \o <<l.size, sg>>
      BY <1>5 DEF Meaning, Given
    <2> HIDE DEF m, sg
    <2>2. m[1] = l.code /\ m[2] = l.size /\ m[3] = sg
      BY <2>1, ElementsOfThree
    <2>3. a = Arg(l.code, Absent, l.size, IF sg THEN 1 ELSE 0, Absent, Absent)
      BY <1>5, <2>2 DEF Printed
    <2>4. a.code = l.code /\ a.sym = Absent /\ a.size = l.size /\ a.flag = (IF sg THEN 1 ELSE 0)
          /\ a.sel = Absent
      BY <2>3 DEF Arg
    <2>5. a.flag = l.flag /\ l.sym = Absent
      BY <1>1, <1>2, <1>5, <2>4 DEF sg
    <2> HIDE DEF a
    <2>6. QED BY <1>1, <2>4, <2>5, SameIsWrittenSame DEF m, a
  <1>6. CASE l.code = "LOAD"
    <2>1. m = <<l.code>> \o <<l.sym, l.size>>
      BY <1>6 DEF Meaning, Given
    <2> HIDE DEF m
    <2>2. m[1] = l.code /\ m[2] = l.sym /\ m[3] = l.size
      BY <2>1, ElementsOfThree
    <2>3. a = Arg(l.code, l.sym, l.size, Absent, Absent, Absent)
      BY <1>6, <2>2 DEF Printed
    <2>4. a.code = l.code /\ a.sym = l.sym /\ a.size = l.size /\ a.flag = Absent /\ a.sel = Absent
      BY <2>3 DEF Arg
    <2>5. l.flag = Absent
      BY <1>1, <1>6
    <2> HIDE DEF a
    <2>6. QED BY <1>1, <2>4, <2>5, SameIsWrittenSame DEF m, a
  <1>7. CASE l.code \in {"RELOAD", "MAP", "MOVE"}
    <2>1. m = <<l.code>> \o <<l.sym>>
      BY <1>7 DEF Meaning, Given
    <2> HIDE DEF m
    <2>2. m[1] = l.code /\ m[2] = l.sym
      BY <2>1, ElementsOfThree
    <2>3. a = Arg(l.code, l.sym, Absent, Absent, Absent, Absent)
      BY <1>7, <2>2 DEF Printed
    <2>4. a.code = l.code /\ a.sym = l.sym /\ a.size = Absent /\ a.flag = Absent /\ a.sel = Absent
      BY <2>3 DEF Arg
    <2>5. l.flag = Absent /\ l.size = Absent
      BY <1>1, <1>7
    <2> HIDE DEF a
    <2>6. QED BY <1>1, <2>4, <2>5, SameIsWrittenSame DEF m, a
  <1>8. CASE l.code \notin {"CATCH", "CROAK", "LOAD", "RELOAD", "MAP", "MOVE"}
    <2>1. m = <<l.code>> \o <<>>
      BY <1>3, <1>8 DEF Meaning, Given
    <2> HIDE DEF m
    <2>2. m[1] = l.code
      BY <2>1, ElementsOfThree
    <2>3. a = Arg(l.code, Absent, Absent, Absent, Absent, Absent)
      BY <1>3, <1>8, <2>2 DEF Printed
    <2>4. a.code = l.code /\ a.sym = Absent /\ a.size = Absent /\ a.flag = Absent /\ a.sel = Absent
      BY <2>3 DEF Arg
    <2>5. l.flag = Absent /\ l.size = Absent /\ l.sym = Absent
      BY <1>1, <1>8
    <2> HIDE DEF a
    <2>6. QED BY <1>1, <2>4, <2>5, SameIsWrittenSame DEF m, a
  <1>9. QED BY <1>4, <1>5, <1>6, <1>7, <1>8

\* Pairs of bytes and an instruction that is printed, as what is written as them.
MeantBack == {p \in MeantWhole(TRUE) : Rewritten(p[1], p[2]) /\ p[2][1] # "NOOP"}

\* An instruction begins with its code.
LEMMA FirstIsCode ==
  ASSUME NEW l, l.code \notin BatchCode, l.code \in DOMAIN OpcodeIndex
  PROVE  Meaning(l)[1] = l.code
  <1>1. CASE l.code = "CATCH"
    BY <1>1, ElementsOfThree DEF Meaning, Given
  <1>2. CASE l.code = "CROAK"
    BY <1>2, ElementsOfThree DEF Meaning, Given
  <1>3. CASE l.code = "LOAD"
    BY <1>3, ElementsOfThree DEF Meaning, Given
  <1>4. CASE l.code \in {"RELOAD", "MAP", "MOVE"}
    BY <1>4, ElementsOfThree DEF Meaning, Given
  <1>5. CASE l.code \in {"INCMP", "MOUT", "MNEXT", "MPREV"}
    <2>1. Meaning(l) = <<l.code>> \o Selects(l)
      BY <1>5 DEF Meaning, Given
    <2>2. PICK u, v : Selects(l) = <<u, v>>
      BY DEF Selects
    <2>3. QED BY <2>1, <2>2, ElementsOfThree
  <1>6. CASE l.code \in {"NOOP", "HALT", "MSINK"}
    BY <1>6, ElementsOfThree DEF Meaning, Given
  <1>7. QED BY <1>1, <1>2, <1>3, <1>4, <1>5, <1>6 DEF OpcodeIndex

\* The pairs of a line are among them.
LEMMA BackCovers ==
  /\ CoversHalt(MeantBack)
  /\ \A l \in Line : Proper(l) /\ Filled(l) /\ Rewritable(l) /\ l.code # "NOOP"
       => Covers(MeantBack, l)
  <1>1. CoversHalt(MeantWhole(TRUE))
        /\ \A l \in Line : Proper(l) /\ Filled(l) => Covers(MeantWhole(TRUE), l)
    BY WholeCovers
  <1>2. ASSUME NEW c, NEW i, <<c, i>> \in MeantWhole(TRUE), Rewritten(c, i), i[1] # "NOOP"
        PROVE  <<c, i>> \in MeantBack
    BY <1>2 DEF MeantBack
  <1>3. CoversHalt(MeantBack)
    <2>1. <<"HALT">>[1] # "NOOP"
      OBVIOUS
    <2>2. QED BY <1>1, <1>2, <2>1, HaltRewritten DEF CoversHalt
  <1>4. ASSUME NEW l \in Line, Proper(l), Filled(l), Rewritable(l), l.code # "NOOP"
        PROVE  Covers(MeantBack, l)
    <2>1. Covers(MeantWhole(TRUE), l)
      BY <1>1, <1>4
    <2>2. CASE l.code \in BatchCode
      <3>1. Shown(l)[1] # "NOOP"
        BY DEF Shown
      <3>2. Asked(l)[1] # "NOOP"
        BY DEF Asked
      <3>3. QED BY <1>2, <1>4, <2>1, <2>2, <3>1, <3>2, BatchRewritten DEF Covers
    <2>3. CASE l.code \notin BatchCode
      <3>1. Single(l)
        BY <1>4, <2>3, LineAssumption DEF Single
      <3>2. parseOne(l) # Absent => Rewritten(parseOne(l), Meaning(l))
        <4>1. CASE l.code \in TwoSyms
          BY <3>1, <4>1, SingleIsTwoSymLine, TwoSymRewritten DEF Rewritten
        <4>2. CASE l.code \notin TwoSyms
          BY <1>4, <3>1, <4>2, SinglePrinted DEF Rewritten
        <4>3. QED BY <4>1, <4>2
      <3>3. Meaning(l)[1] # "NOOP"
        <4>1. l.code \in DOMAIN OpcodeIndex
          BY <2>3, LineAssumption
        <4>2. QED BY <1>4, <2>3, <4>1, FirstIsCode
      <3>4. QED BY <1>2, <2>1, <2>3, <3>2, <3>3 DEF Covers
    <2>4. QED BY <2>2, <2>3
  <1>5. QED BY <1>3, <1>4

\* All that is read is written as the same bytes again.
LEMMA AllReadIsBack ==
  ASSUME NEW E \in Seq(Ins), E # <<>>, NEW out \in Word, NEW ls, NEW w,
         AllRead(TRUE, MeantBack, out, E, ls, w, "ok")
  PROVE  Assembled(ls) = out
  <1>1. PICK f \in [1 .. Len(E) + 1 -> Word], n \in 0 .. Len(E) :
          ReadAt(MeantBack, out, E, ls, f, n) /\ n = Len(E)
    BY DEF AllRead
  <1>2. ls = E
    <2>1. \A i \in 1 .. Len(E) : E[i][1] # "NOOP"
      BY <1>1 DEF ReadAt, MeantBack
    <2>2. ListedTo(E, n) = SubSeq(E, 1, n)
      BY <2>1, ListedSame
    <2>3. ls = SubSeq(E, 1, Len(E))
      BY <1>1, <2>2 DEF ReadAt
    <2>4. QED BY <2>3
  <1> DEFINE ws == [i \in DOMAIN E |-> parseOne(Printed(E[i]))]
  <1>3. Len(E) \in Nat /\ Len(E) # 0 /\ DOMAIN E = 1 .. Len(E)
    OBVIOUS
  <1>4. ASSUME NEW i \in 1 .. Len(E)
        PROVE  ws[i] \in Word /\ f[i + 1] \in Word /\ f[i] = ws[i] \o f[i + 1]
    <2>1. PICK c \in Word : <<c, E[i]>> \in MeantBack /\ f[i] = c \o f[i + 1]
      BY <1>1 DEF ReadAt
    <2>2. ws[i] = c
      <3>1. Rewritten(c, E[i])
        BY <2>1 DEF MeantBack
      <3>2. QED BY <1>3, <3>1 DEF Rewritten
    <2>3. i + 1 \in 1 .. Len(E) + 1
      BY <1>3
    <2> HIDE DEF ws
    <2>4. QED BY <2>1, <2>2, <2>3
  <1>5. ws \in Seq(Word) /\ Len(ws) = Len(E) /\ ws # <<>>
    <2>1. ws \in [1 .. Len(E) -> Word]
      BY <1>3, <1>4
    <2>2. DOMAIN ws = 1 .. Len(E)
      BY <1>3
    <2> HIDE DEF ws
    <2>3. ws \in Seq(Word) /\ Len(ws) = Len(E)
      BY <1>3, <2>1, <2>2
    <2>4. QED BY <1>3, <2>3
  <1>6. Assembled(E) = FlattenSeq(ws)
    BY DEF Assembled
  <1> HIDE DEF ws
  <1>7. f[1] = out /\ f[Len(ws) + 1] = <<>>
    BY <1>1, <1>5 DEF ReadAt
  <1>8. Leaves(f, ws, Len(ws))
    BY <1>4, <1>5 DEF Leaves
  <1>9. FlattenSeq(ws) = out
    BY <1>5, <1>7, <1>8, FlattenIs
  <1>10. QED BY <1>2, <1>6, <1>9

\* What ParseAll (src/vm/debug.go:168) prints of all that the assembler (src/asm/asm.go,
\* src/asm/menu.go) wrote is assembled to the same bytes, if every line has the
\* arguments that are documented for it, none of them empty, a mode is 0 or 1, no batch
\* has "*" for what the assembler would take for a selector, and no line is a NOOP.
THEOREM ReadReassembles ==
  ASSUME \A l \in Line : Proper(l) /\ Filled(l) /\ Rewritable(l)
  PROVE  Spec => []Reassembles
  <1> DEFINE R == MeantBack
  <1>1. /\ R \subseteq MeantWhole(TRUE) /\ CoversHalt(R)
        /\ \A l \in Line : l.code # "NOOP" => Covers(R, l)
    BY BackCovers DEF MeantBack
  <1>2. /\ Init => ReadInv(TRUE, R)
        /\ ReadInv(TRUE, R) /\ [Next]_vars => ReadInv(TRUE, R)'
    BY <1>1, ReadInvInductive
  <1>3. ReadInv(TRUE, R) => Reassembles
    <2> SUFFICES ASSUME ReadInv(TRUE, R), phase = "ok", code = asm.out,
                        \A i \in DOMAIN src : src[i].code # "NOOP"
                 PROVE  Assembled(lines) = code
      BY DEF Reassembles
    <2> DEFINE E == Expand(src)
    <2>1. Covered(R, src)
      <3>1. \A i \in 1 .. Len(src) : src[i] \in Line /\ src[i].code # "NOOP"
        BY DEF ReadInv, BytecodeTypeOK
      <3>2. QED BY <1>1, <3>1 DEF Covered
    <2>2. E \in Seq(Ins) /\ E # <<>>
      BY <2>1 DEF ReadInv, WrittenInv, Complies, Opened
    <2>3. AllRead(TRUE, R, asm.out, E, lines, b, "ok")
      BY <2>1 DEF ReadInv, WholeInv, Opened
    <2>4. asm.out \in Word
      BY DEF ReadInv, BytecodeTypeOK
    <2> HIDE DEF E
    <2>5. QED BY <2>2, <2>3, <2>4, AllReadIsBack
  <1> HIDE DEF R
  <1>4. QED BY <1>2, <1>3, PTL DEF Spec
=============================================================================
