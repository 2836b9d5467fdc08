------------------------------ MODULE Bytecode ------------------------------
(***************************************************************************)
(* Bytecode, from assembly code and back: the assembler (src/asm/asm.go)   *)
(* with its batch instructions (src/asm/menu.go), the encoding that the    *)
(* vm writes itself and reads (src/vm/vm.go), and the disassembler         *)
(* (src/vm/debug.go).                                                      *)
(*                                                                         *)
(* A byte is a number below Base, 256 in the code; every length the code   *)
(* keeps in a byte wraps at Base. A word is the sequence of its bytes.     *)
(* Splitting the text of a line into words and numbers is the work of an   *)
(* external parser: a line is what its grammar gives, an Arg (asm.go:28).  *)
(***************************************************************************)
EXTENDS Integers, Sequences, SequencesExt

CONSTANTS Base,      \* values of a byte
          Wild,       \* the word for the selector "*"
          NodeUp, NodeNext, NodePrevious,  \* the words "_", ">" and "<"
          Number,    \* numbers in assembly code
          Decimal,   \* from numbers to words: strconv.FormatUint
          Absent,    \* an argument that is not there
          Line,      \* lines of assembly code
          MaxLines,  \* bound: lines of one source
          Cut        \* whether bytecode may lose bytes at its end

Byte == 0 .. Base - 1

VARIABLES src,    \* history: the lines read
          asm,    \* the assembler: [out, inMenu, pre, post]
          phase,  \* "asm", "parse", or how it ended
          code,   \* bytecode as it was handed to the disassembler
          b,      \* what the disassembler has left of it
          lines   \* what the disassembler has written

vars == <<src, asm, phase, code, b, lines>>

Ended == {"refused", "ok", "error", "panic"}

OpcodeIndex == [NOOP |-> 0, CATCH |-> 1, CROAK |-> 2, LOAD |-> 3, RELOAD |-> 4,
                MAP |-> 5, MOVE |-> 6, HALT |-> 7, INCMP |-> 8, MSINK |-> 9,
                MOUT |-> 10, MNEXT |-> 11, MPREV |-> 12]

BatchCode == {"DOWN", "UP", "NEXT", "PREVIOUS"}

Arg(op, sym, size, flag, sel, desc) ==
  [code |-> op, sym |-> sym, size |-> size, flag |-> flag, sel |-> sel, desc |-> desc]

Word == Seq(Byte)

\* A line has the arguments its instruction asks for. (The assembler dereferences
\* the others without a test.)
Complete(l) ==
  IF l.code \in BatchCode
  THEN l.sel # Absent /\ (l.desc # Absent \/ l.size = Absent => l.sym # Absent)
  ELSE /\ l.sel # Absent => l.sym # Absent
       /\ l.size # Absent /\ l.sym = Absent => l.flag # Absent

ASSUME BytecodeAssumption ==
  /\ Base \in Nat /\ Base > 4
  /\ {Wild, NodeUp, NodeNext, NodePrevious} \subseteq Word
  /\ Wild \notin {NodeUp, NodeNext, NodePrevious}
  /\ Number \subseteq 0 .. Base * Base * Base * Base - 1
  /\ Decimal \in [Number -> Word]
  /\ \A w \in {Wild, NodeUp, NodeNext, NodePrevious} \cup {Decimal[n] : n \in Number} :
       Len(w) \in 1 .. Base - 2
  /\ Absent \notin Number \cup Byte \cup Word
  /\ MaxLines \in Nat /\ Cut \in BOOLEAN

ASSUME LineAssumption ==
  \A l \in Line : /\ l.code \in DOMAIN OpcodeIndex \cup BatchCode
                  /\ {l.sym, l.sel, l.desc} \subseteq Word \cup {Absent}
                  /\ l.size \in Number \cup {Absent}
                  /\ l.flag \in Byte \cup {Absent}
                  /\ Complete(l)

-----------------------------------------------------------------------------
(* Writing bytecode.                                                       *)

writeOpcode(op) == <<OpcodeIndex[op] \div Base, OpcodeIndex[op] % Base>>

\* A string as NewLine writes it.
Text(s) == <<Len(s) % Base>> \o s

\* An instruction as the vm, the engine and the batches write it.
NewLine(op, args) == writeOpcode(op) \o args

\* Mutant: the length is not tested.
writeSym_AnyLength(s) == <<Len(s)>> \o s

\* Absent is an error.
writeSym(s) == IF Len(s) > Base - 1 THEN Absent ELSE <<Len(s)>> \o s

\* One thing after another, without an error in either.
Then(p, q) == IF p = Absent \/ q = Absent THEN Absent ELSE p \o q

Power == <<1, Base, Base * Base, Base * Base * Base>>

\* The bytes that n takes: math.Log2(n) / 8 + 1.
numSize(n) == IF n < Power[2] THEN 1 ELSE IF n < Power[3] THEN 2
              ELSE IF n < Power[4] THEN 3 ELSE 4

\* The size byte and the big-endian bytes; zero has one of them too.
writeSize(n) ==
  LET sz == numSize(n)
  IN  <<sz>> \o [i \in 1 .. sz |-> (n \div Power[sz - i + 1]) % Base]

-----------------------------------------------------------------------------
(* The assembler: one line.                                                *)

\* A selector that is a number is written in decimal; the selector "*" goes last
\* wherever it stands.
parseTwoSym(a) ==
  IF a.size # Absent THEN Then(writeSym(a.sym), writeSym(Decimal[a.size]))
  ELSE IF a.sym = Wild THEN Then(writeSym(a.sel), writeSym(a.sym))
  ELSE Then(writeSym(a.sym), writeSym(a.sel))

parseTwoSymReverse(a) == Then(writeSym(a.sym), writeSym(a.sel))

parseSig(a)     == Then(Then(writeSym(a.sym), writeSize(a.size)), <<a.flag>>)
parseSized(a)   == Then(writeSym(a.sym), writeSize(a.size))
parseFlagged(a) == writeSize(a.size) \o <<a.flag>>

\* The error of a last symbol that is too long is dropped.
parseOne(a) ==
  LET args == IF a.sel # Absent
              THEN IF a.code = "MOUT" THEN parseTwoSymReverse(a) ELSE parseTwoSym(a)
              ELSE IF a.size # Absent
              THEN IF a.sym = Absent THEN parseFlagged(a)
                   ELSE IF a.flag # Absent THEN parseSig(a)
                   ELSE IF a.code = "LOAD" THEN parseSized(a)
                   ELSE parseTwoSym(a)
              ELSE IF a.sym = Absent \/ writeSym(a.sym) = Absent THEN <<>>
              ELSE writeSym(a.sym)
  IN  Then(writeOpcode(a.code), args)

-----------------------------------------------------------------------------
(* The assembler: batch instructions.                                      *)

\* Mutant: a display text of its own is not looked for.
MenuItem_NoDesc(a) ==
  [target  |-> IF a.size # Absent THEN a.sym ELSE Absent,
   choice  |-> IF a.size # Absent THEN Decimal[a.size] ELSE a.sym,
   display |-> a.sel]

\* MenuAdd: what is the target, the choice and the display depends on which
\* arguments there are.
MenuItem(a) ==
  [target  |-> IF a.desc # Absent \/ a.size # Absent THEN a.sym ELSE Absent,
   choice  |-> IF a.desc # Absent THEN a.sel
               ELSE IF a.size # Absent THEN Decimal[a.size] ELSE a.sym,
   display |-> IF a.desc # Absent THEN a.desc ELSE a.sel]

\* MenuProcessor.Add refuses a target for what goes nowhere.
Adds(a) == MenuItem(a).target # Absent => a.code = "DOWN"

Label(op, i) == NewLine(CASE op = "NEXT"     -> "MNEXT"
                            [] op = "PREVIOUS" -> "MPREV"
                            [] OTHER             -> "MOUT", Text(i.display) \o Text(i.choice))

\* A DOWN without a target has an empty one.
Target(op, i) == NewLine("INCMP", Text(CASE op = "UP"       -> NodeUp
                                           [] op = "NEXT"     -> NodeNext
                                           [] op = "PREVIOUS" -> NodePrevious
                                           [] OTHER ->
                                                IF i.target = Absent THEN <<>> ELSE i.target)
                                    \o Text(i.choice))

\* The items of a batch are kept as the code that ToLines makes of them, before and
\* after the HALT.
MenuAdd(m, a) ==
  [m EXCEPT !.inMenu = TRUE,
            !.pre = @ \o Label(a.code, MenuItem(a)), !.post = @ \o Target(a.code, MenuItem(a))]

\* Mutant: no HALT between what is shown and what is asked.
ToLines_NoHalt(m) == m.pre \o m.post

ToLines(m) == m.pre \o NewLine("HALT", <<>>) \o m.post

\* The items stay: a second batch writes those of the first again.
MenuExit(m) ==
  IF m.inMenu THEN [m EXCEPT !.inMenu = FALSE, !.out = @ \o ToLines(m)] ELSE m

-----------------------------------------------------------------------------
(* Reading bytecode. What is read comes with the rest, [st, val, rest];    *)
(* where the code slices past the end of its buffer, st is "panic".        *)

Read(st, v, rest) == [st |-> st, val |-> v, rest |-> rest]
Fails(st) == Read(st, Absent, <<>>)
From(s, n) == SubSeq(s, n, Len(s))

\* Mutant: a HALT stays where it is.
opSplit_KeepsHalt(s) ==
  IF Len(s) < 2 \/ s[1] * Base + s[2] > OpcodeIndex["MPREV"] THEN Read("error", Absent, s)
  ELSE IF s[1] * Base + s[2] = OpcodeIndex["HALT"] THEN Read("ok", "HALT", s)
  ELSE Read("ok", CHOOSE op \in DOMAIN OpcodeIndex : OpcodeIndex[op] = s[1] * Base + s[2],
            From(s, 3))

opSplit(s) ==
  IF Len(s) < 2 \/ s[1] * Base + s[2] > OpcodeIndex["MPREV"] THEN Read("error", Absent, s)
  ELSE Read("ok", CHOOSE op \in DOMAIN OpcodeIndex : OpcodeIndex[op] = s[1] * Base + s[2],
            From(s, 3))

\* The end of the symbol is computed in a byte: 1 + sz of a symbol of the greatest
\* length is 0, and the slice ends before it begins. The test of the length leaves
\* out the length byte.
instructionSplit(s) ==
  IF s = <<>> \/ s[1] = 0 \/ Len(s) < s[1] THEN Fails("error")
  ELSE IF (s[1] + 1) % Base = 0 \/ Len(s) < s[1] + 1 THEN Fails("panic")
  ELSE Read("ok", SubSeq(s, 2, s[1] + 1), From(s, s[1] + 2))

\* Mutant: the bytes go to the front of the four.
BigEndian_AtFront(d) ==
  LET at(i) == IF 5 - i <= Len(d) THEN d[5 - i] * Power[i] ELSE 0
  IN  IF Len(d) > 4 THEN 0 ELSE at(1) + at(2) + at(3) + at(4)

\* The bytes d as a big-endian number of four, d at its end. More than four are 0,
\* for 4 - l wraps and no byte is copied.
BigEndian(d) ==
  LET at(i) == IF i <= Len(d) THEN d[Len(d) - i + 1] * Power[i] ELSE 0
  IN  IF Len(d) > 4 THEN 0 ELSE at(1) + at(2) + at(3) + at(4)

intSplit(s) ==
  IF s = <<>> THEN Fails("panic")
  ELSE IF Len(s) < s[1] + 1 THEN Fails("panic")
  ELSE Read("ok", BigEndian(SubSeq(s, 2, s[1] + 1)), From(s, s[1] + 2))

modeSplit(s) == IF s = <<>> THEN Fails("error") ELSE Read("ok", s[1] > 0, Tail(s))

\* The next argument, after those read before.
And(r, next) ==
  IF r.st # "ok" THEN r
  ELSE IF next.st # "ok" THEN next ELSE Read("ok", Append(r.val, next.val), next.rest)

AndSym(r)  == And(r, instructionSplit(r.rest))
AndSize(r) == And(r, intSplit(r.rest))
AndMode(r) == And(r, modeSplit(r.rest))

parseNoArg(s)   == Read("ok", <<>>, s)
parseSym(s)     == AndSym(parseNoArg(s))
parseTwoSyms(s) == AndSym(parseSym(s))
parseSymLen(s)  == AndSize(parseSym(s))
parseSymSig(s)  == AndMode(parseSymLen(s))
parseSigs(s)    == AndMode(AndSize(parseNoArg(s)))

\* The arguments of op: ParseCatch to ParseMOut.
ParseArgs(op, s) ==
  CASE op = "CATCH"                                -> parseSymSig(s)
    [] op = "CROAK"                                -> parseSigs(s)
    [] op = "LOAD"                                 -> parseSymLen(s)
    [] op \in {"RELOAD", "MAP", "MOVE"}            -> parseSym(s)
    [] op \in {"INCMP", "MOUT", "MNEXT", "MPREV"}  -> parseTwoSyms(s)
    [] OTHER                                       -> parseNoArg(s)

-----------------------------------------------------------------------------
(* The steps: the loop of asm.Parse, then the loop of ParseAll.            *)

Running(p) == phase = p

AsmBatch(l) ==
  /\ l.code \in BatchCode
  /\ asm' = MenuAdd(asm, l)
  /\ phase' = IF Adds(l) THEN "asm" ELSE "refused"

AsmOne(l) ==
  /\ l.code \in DOMAIN OpcodeIndex
  /\ asm' = [MenuExit(asm) EXCEPT !.out = IF parseOne(l) = Absent THEN @ ELSE @ \o parseOne(l)]
  /\ phase' = IF parseOne(l) = Absent THEN "refused" ELSE "asm"

\* One batch of a source: its instructions stand together (instructions.texi:167
\* asks for more, that they stand at the end).
OneBatch(l) == l.code \in BatchCode => asm.pre = <<>> \/ asm.inMenu

Assemble(l) ==
  /\ Running("asm") /\ Len(src) < MaxLines /\ OneBatch(l)
  /\ src' = Append(src, l)
  /\ AsmBatch(l) \/ AsmOne(l)
  /\ UNCHANGED <<code, b, lines>>

\* The assembler is done, and what it wrote is stored.
Finish ==
  /\ Running("asm") /\ src # <<>>
  /\ asm' = MenuExit(asm)
  /\ phase' = "stored"
  /\ code' = MenuExit(asm).out
  /\ UNCHANGED <<src, b, lines>>

\* The disassembler gets all of it, or what is left.
Load(n) ==
  /\ Running("stored")
  /\ n = Len(asm.out) \/ Cut
  /\ phase' = "parse"
  /\ code' = SubSeq(asm.out, 1, n) /\ b' = code'
  /\ UNCHANGED <<src, asm, lines>>

\* What a default handler leaves for flush to write, an instruction and its arguments.
\* No case of ParseAll is for NOOP, so nobody leaves anything of it.
Written(op, args) == IF op = "NOOP" THEN <<>> ELSE <<<<op>> \o args>>

\* Mutant: an instruction whose arguments do not parse is written all the same.
ParseNext_Writes ==
  LET o == opSplit(b)
      r == IF o.st = "ok" THEN ParseArgs(o.val, o.rest) ELSE o
  IN  /\ Running("parse")
      /\ b' = r.rest
      /\ lines' = IF o.st = "ok" /\ r.st # "panic"
                  THEN lines \o Written(o.val, IF r.st = "ok" THEN r.val ELSE <<>>) ELSE lines
      /\ phase' = IF r.st = "panic" THEN "panic"
                  ELSE IF o.st = "error" THEN "error"
                  ELSE IF r.rest = <<>> THEN "ok" ELSE "parse"
      /\ UNCHANGED <<src, asm, code>>

\* One turn of ParseAll. An error of the arguments is lost, for the error variable of
\* the case is not the one that is tested: nothing is written, nothing is left to
\* parse, and the loop ends without an error.
ParseNext ==
  LET o == opSplit(b)
      r == IF o.st = "ok" THEN ParseArgs(o.val, o.rest) ELSE o
  IN  /\ Running("parse")
      /\ b' = r.rest
      /\ lines' = IF r.st = "ok" THEN lines \o Written(o.val, r.val) ELSE lines
      /\ phase' = IF r.st = "panic" THEN "panic"
                  ELSE IF o.st = "error" THEN "error"
                  ELSE IF r.rest = <<>> THEN "ok" ELSE "parse"
      /\ UNCHANGED <<src, asm, code>>

Init == /\ src = <<>> /\ lines = <<>> /\ code = <<>> /\ b = <<>>
        /\ asm = [out |-> <<>>, inMenu |-> FALSE, pre |-> <<>>, post |-> <<>>]
        /\ phase = "asm"

Next == \/ \E l \in Line : Assemble(l)
        \/ Finish
        \/ \E n \in 0 .. Len(asm.out) : Load(n)
        \/ ParseNext

Spec == Init /\ [][Next]_vars

-----------------------------------------------------------------------------
(* What must hold of it.                                                   *)

\* Every byte written is one, and the disassembler is somewhere in the code.
BytecodeTypeOK ==
  /\ src \in Seq(Line)
  /\ asm \in [out : Word, inMenu : BOOLEAN, pre : Word, post : Word]
  /\ code \in Word /\ b \in Word
  /\ phase \in {"asm", "stored", "parse"} \cup Ended

\* What a line means, by the table of instructions (instructions.texi:63).
Selects(a) == IF a.size # Absent THEN <<a.sym, Decimal[a.size]>>
              ELSE IF a.sym = Wild THEN <<a.sel, Wild>> ELSE <<a.sym, a.sel>>

Given(a) == CASE a.code = "CATCH" -> <<a.sym, a.size, a.flag > 0>>
              [] a.code = "CROAK" -> <<a.size, a.flag > 0>>
              [] a.code = "LOAD"  -> <<a.sym, a.size>>
              [] a.code \in {"RELOAD", "MAP", "MOVE"} -> <<a.sym>>
              [] a.code \in {"INCMP", "MOUT", "MNEXT", "MPREV"} -> Selects(a)
              [] OTHER -> <<>>
Meaning(a) == <<a.code>> \o Given(a)

Meanings(s) == [i \in DOMAIN s |-> Meaning(s[i])]

\* The expansion of batch instructions, by the table of instructions.texi:181.
Choice(a) == IF a.size # Absent THEN Decimal[a.size]
             ELSE IF a.code = "DOWN" THEN a.sel ELSE a.sym
Display(a) == IF a.code = "DOWN" /\ a.size = Absent THEN a.desc ELSE a.sel

Shown(a) == <<CASE a.code = "NEXT" -> "MNEXT" [] a.code = "PREVIOUS" -> "MPREV"
                [] OTHER -> "MOUT", Display(a), Choice(a)>>
Asked(a) == <<"INCMP", CASE a.code = "DOWN" -> a.sym [] a.code = "UP" -> NodeUp
                         [] a.code = "NEXT" -> NodeNext [] OTHER -> NodePrevious, Choice(a)>>

Expand(s) ==
  LET batch == {i \in DOMAIN s : s[i].code \in BatchCode}
      first == CHOOSE i \in batch : \A j \in batch : i <= j
      last  == CHOOSE i \in batch : \A j \in batch : i >= j
      menu  == SubSeq(s, first, last)
  IN  IF batch = {} THEN Meanings(s)
      ELSE Meanings(SubSeq(s, 1, first - 1))
             \o [i \in DOMAIN menu |-> Shown(menu[i])]
             \o <<<<"HALT">>>>
             \o [i \in DOMAIN menu |-> Asked(menu[i])]
             \o Meanings(SubSeq(s, last + 1, Len(s)))

TwoSyms == {"INCMP", "MOUT", "MNEXT", "MPREV"}

\* A line with exactly the arguments that its instruction is documented to have, in
\* their order: a target for every DOWN and either a numeric selector or a text of its
\* own, no text "*". A word that the assembler writes without a test fits its length
\* byte. (The assembler asks for none of it.) NOOP, which is not in the list, has none.
Proper(l) ==
  IF l.code \in BatchCode
  THEN Adds(l) => /\ \A s \in {l.sym, l.sel, l.desc} \ {Absent} : Len(s) < Base
                  /\ l.code = "DOWN" => l.sym # Absent
                  /\ l.desc # Absent <=> l.code = "DOWN" /\ l.size = Absent
  ELSE /\ l.sym # Absent <=> l.code \in {"CATCH", "LOAD", "RELOAD", "MAP", "MOVE"} \cup TwoSyms
       /\ l.code \in {"CATCH", "CROAK", "LOAD"} => l.size # Absent
       /\ l.size # Absent => l.code \in {"CATCH", "CROAK", "LOAD"} \cup TwoSyms
       /\ l.flag # Absent <=> l.code \in {"CATCH", "CROAK"}
       /\ l.sel # Absent <=> l.code \in TwoSyms /\ l.size = Absent
       /\ l.code \in {"RELOAD", "MAP", "MOVE"} => Len(l.sym) < Base
       /\ l.code = "MOUT" /\ l.sel # Absent => l.sym # Wild

\* No word of it is empty.
Filled(l) == <<>> \notin {l.sym, l.sel, l.desc}

\* What is printed of it is written as the same bytes: a mode is 0 or 1, and no "*" stands
\* where the assembler would move it behind the selector.
Rewritable(l) == /\ l.flag \in {0, 1, Absent}
                 /\ l.code = "DOWN" => l.sym # Wild
                 /\ l.code \in {"NEXT", "PREVIOUS"} => l.sel # Wild

\* A symbol of the greatest length that can be written cannot be read.
Longest(l) == \E s \in {l.sym, l.sel, l.desc} \ {Absent} : Len(s) = Base - 1

\* What can be seen of instructions in a listing: a NOOP leaves nothing.
Shows(i)    == IF i[1] = "NOOP" THEN <<>> ELSE <<i>>
Listing(is) == FlattenSeq([n \in DOMAIN is |-> Shows(is[n])])

\* The bytecode of a source is read as the instructions its lines and the expansion
\* of its batch stand for, in their order, whatever bytes they are made of
\* (cookbook.texi:46, 88 and 136: exactly the same bytecode), NOOPs passed over.
ReadAsWritten ==
  /\ phase \in Ended \ {"refused"}
  /\ code = asm.out
  /\ \A i \in DOMAIN src : ~Longest(src[i])
  => phase = "ok" /\ lines = Listing(Expand(src))

\* Bytecode that lost its end is read as the first of its instructions: what is cut
\* off never turns into another instruction.
PrefixRead ==
  phase \in Ended \ {"refused"} => IsPrefix(lines, Listing(Expand(src)))

\* What the disassembler prints for an instruction, as the grammar reads it again: a
\* selector of digits is a number.
Printed(l) ==
  LET sel == l[3]
      no  == {n \in Number : Decimal[n] = sel}
  IN  CASE l[1] = "CATCH" -> Arg(l[1], l[2], l[3], IF l[4] THEN 1 ELSE 0, Absent, Absent)
        [] l[1] = "CROAK" -> Arg(l[1], Absent, l[2], IF l[3] THEN 1 ELSE 0, Absent, Absent)
        [] l[1] = "LOAD"  -> Arg(l[1], l[2], l[3], Absent, Absent, Absent)
        [] l[1] \in {"RELOAD", "MAP", "MOVE"} -> Arg(l[1], l[2], Absent, Absent, Absent, Absent)
        [] l[1] \in {"INCMP", "MOUT", "MNEXT", "MPREV"} ->
             IF no # {} THEN Arg(l[1], l[2], CHOOSE n \in no : TRUE, Absent, Absent, Absent)
             ELSE Arg(l[1], l[2], Absent, Absent, sel, Absent)
        [] OTHER -> Arg(l[1], Absent, Absent, Absent, Absent, Absent)

Assembled(ls) == FlattenSeq([i \in DOMAIN ls |-> parseOne(Printed(ls[i]))])

\* Disassembled code assembles to the same bytes (debug.go:151), unless the source has a
\* NOOP, of which nothing is written.
Reassembles ==
  /\ phase = "ok" /\ code = asm.out
  /\ \A i \in DOMAIN src : src[i].code # "NOOP"
  => Assembled(lines) = code

\* Every turn takes at least an opcode off the code, so ParseAll ends, for bytecode of
\* any length and damage.
Consumes == [][Running("parse") => phase' \in Ended \/ Len(b') <= Len(b) - 2]_vars
=============================================================================
