--------------------------------- MODULE Vm ---------------------------------
(***************************************************************************)
(* The virtual machine, vm.Vm (src/vm/runner.go): it executes the bytecode *)
(* of nodes against the session state (StateOps) and the cache (CacheOps). *)
(* One action is one turn of the loop of Run: the flag handling at its     *)
(* head, one instruction, and the checks after it (runErrCheck,            *)
(* runDeadCheck). A client feeds it inputs as engine.exec does.            *)
(*                                                                         *)
(* Bytecode is a sequence of instruction records; titles and labels are    *)
(* left out. The page keeps what is mapped, not how it is laid out.        *)
(***************************************************************************)
EXTENDS CacheOps, StateOps

CONSTANTS Catch,     \* the node "_catch"
          Root,      \* the entry node
          Code,      \* node -> its bytecode; partial: a node may have none
          Lost,      \* nodes whose bytecode a retrieval may fail to find
          Ext,       \* symbol -> the results its external function may give
          LangCode,  \* contents that name a language
          Selector,  \* menu selectors
          Input,     \* what clients send
          Wildcard,  \* the selector "*"
          None,      \* no selector, no sink
          MaxIdx     \* bound: no input is given at a page above this one

Target == Node \cup {"_", ">", "<", "^", "."}

\* Bytecode that parses, as the assembler and NewLine write it.
Instruction ==
  [op : {"CATCH"}, node : Target, flag : Flag, set : BOOLEAN]
    \cup [op : {"CROAK"}, flag : Flag, set : BOOLEAN]
    \cup [op : {"LOAD"}, sym : Key, size : Nat]
    \cup [op : {"RELOAD", "MAP"}, sym : Key]
    \cup [op : {"MOVE"}, node : Target]
    \cup [op : {"INCMP"}, node : Target, sel : Selector \cup {Wildcard}]
    \cup [op : {"MOUT", "MNEXT", "MPREV"}, sel : Selector]
    \cup [op : {"MSINK", "HALT"}]

\* What an external function may return. It may name any flag.
Result ==
  [fail : {FALSE}, found : {TRUE}, content : Value, set : SUBSET Flag, reset : SUBSET Flag]
    \cup [fail : {TRUE}, found : BOOLEAN]

ASSUME VmAssumption ==
  /\ {Catch, Root} \subseteq Node
  /\ Catch \notin {"_", ">", "<", "^", "."}
  /\ DOMAIN Code \subseteq Node
  /\ \A n \in DOMAIN Code : Code[n] \in Seq(Instruction)
  /\ DOMAIN Ext \subseteq Key
  /\ \A k \in DOMAIN Ext : Ext[k] \subseteq Result
  /\ None \notin Key
  /\ Wildcard \notin Input
  /\ NoInput \notin Input
  /\ MaxIdx \in Nat

VARIABLES st,    \* *state.State
          ca,    \* *cache.Cache
          pg,    \* *render.Page: [mapped, sink, err]
          mn,    \* *render.Menu: [items, next, prev, sink]
          run,   \* the call of Run: [pc, b, err]
          home,  \* history: cached symbol -> path it was loaded at
          hits   \* history: INCMP matches since the last input

vars == <<st, ca, pg, mn, run, home, hits>>

-----------------------------------------------------------------------------
(* Instructions.                                                           *)

CATCH(node, flag, set) == [op |-> "CATCH", node |-> node, flag |-> flag, set |-> set]
CROAK(flag, set) == [op |-> "CROAK", flag |-> flag, set |-> set]
LOAD(sym, size) == [op |-> "LOAD", sym |-> sym, size |-> size]
RELOAD(sym) == [op |-> "RELOAD", sym |-> sym]
MAP(sym) == [op |-> "MAP", sym |-> sym]
MOVE(node) == [op |-> "MOVE", node |-> node]
INCMP(node, sel) == [op |-> "INCMP", node |-> node, sel |-> sel]
MOUT(sel) == [op |-> "MOUT", sel |-> sel]
MNEXT(sel) == [op |-> "MNEXT", sel |-> sel]
MPREV(sel) == [op |-> "MPREV", sel |-> sel]
MSINK == [op |-> "MSINK"]
HALT == [op |-> "HALT"]

-----------------------------------------------------------------------------
(* A machine state o = [st, ca, pg, mn, b, err] in the middle of a turn.   *)

Ok(o) == [o EXCEPT !.err = "ok"]
Fails(o, why) == [o EXCEPT !.err = why]

NewMenu == [items |-> {}, next |-> None, prev |-> None, sink |-> FALSE]
NewPage == [mapped |-> NewMap, sink |-> None, err |-> FALSE]

\* Page.Reset keeps the error to be shown, Menu.Reset the browse options.
PageReset(p) == [p EXCEPT !.mapped = NewMap, !.sink = None]
MenuReset(m) == [m EXCEPT !.items = {}, !.sink = FALSE]

\* Mutant: the menu of the node left is kept.
FreshPage_KeepsMenu(o) == [o EXCEPT !.pg = PageReset(@)]

\* Vm.Reset: a new menu on a reset page.
FreshPage(o) == [o EXCEPT !.pg = PageReset(@), !.mn = NewMenu]

\* Mutant: a level is freed for the first node too.
Rewind_FreesTop(o) ==
  IF Len(o.st.path) <= 1 THEN o
  ELSE [o EXCEPT !.st.path = SubSeq(@, 1, 1),
                 !.st.idx  = 0,
                 !.ca      = PopN(@, Len(o.st.path))]

\* Up to the first node of the path, freeing one cache level per node left.
Rewind(o) ==
  IF Len(o.st.path) <= 1 THEN o
  ELSE [o EXCEPT !.st.path = SubSeq(@, 1, 1),
                 !.st.idx  = 0,
                 !.ca      = PopN(@, Len(o.st.path) - 1)]

\* Mutant: the cache level is not freed on the way up.
Ascend_KeepsLevel(o) == [o EXCEPT !.st = Up(@)]

Ascend(o) == [o EXCEPT !.st = Up(@), !.ca = Pop(@)]
Descend(o, node) == [o EXCEPT !.st = Down(@, node), !.ca = Push(@)]

\* applyTarget: a relative target, or a node to descend into.
ApplyTarget(o, t) ==
  CASE t = "_" -> IF o.st.path = <<>> THEN Fails(o, "fail") ELSE Ascend(o)
    [] t = ">" -> IF o.st.path = <<>> THEN Fails(o, "fail")
                  ELSE [o EXCEPT !.st = NextIdx(@)]
    [] t = "<" -> IF o.st.path = <<>> THEN Fails(o, "fail")
                  ELSE IF AtFirstIdx(o.st) THEN Fails(o, "index")
                  ELSE [o EXCEPT !.st = PreviousIdx(@)]
    [] t = "^" -> Rewind(o)
    [] t = "." -> o
    [] OTHER   -> IF DownPanics(o.st, t) THEN Fails(o, "panic") ELSE Descend(o, t)

\* rs.GetCode: up is FALSE when the store does not answer.
HasCode(node, up) == node \in DOMAIN Code /\ (up \/ node \notin Lost)
CodeHere(o, up) == HasCode(Where(o.st), up)

-----------------------------------------------------------------------------
(* One operator per opcode: o before it (bytecode already past it) to o    *)
(* after it. i is the instruction, up the answer of the code store and r   *)
(* the result of the external function.                                    *)

\* The code of the node reached follows what is left of the current one.
AppendCode(o, up) ==
  IF CodeHere(o, up) THEN [o EXCEPT !.b = @ \o Code[Where(o.st)]]
  ELSE Fails(o, "fail")

RunMove(o, i, up) ==
  LET m == ApplyTarget(o, i.node) IN
  IF m.err # "ok" THEN m
  ELSE IF CodeHere(m, up) THEN FreshPage(AppendCode(m, up))
  ELSE Fails(m, "fail")

\* CATCH replaces the code and leaves page and menu as they are.
RunCatch(o, i, up) ==
  LET m == ApplyTarget(o, i.node) IN
  IF ~MatchFlag(o.st, i.flag, i.set) THEN o
  ELSE IF m.err # "ok" THEN m
  ELSE IF CodeHere(m, up) THEN [m EXCEPT !.b = Code[Where(m.st)]]
  ELSE Fails(m, "fail")

\* CROAK empties the cache above its bottom frame; the path stays.
RunCroak(o, i) ==
  IF ~MatchFlag(o.st, i.flag, i.set) THEN o
  ELSE [FreshPage(o) EXCEPT !.ca = Reset(@), !.b = <<>>]

\* An unknown code leaves the language alone, the empty one unsets it.
SetLanguage(s, v) ==
  [s EXCEPT !.lang = IF v = Empty THEN NoLang ELSE IF v \in LangCode THEN v ELSE @]

\* refresh, after the function returned: flags, then the language.
Refreshed(s, r) ==
  LET f == [s EXCEPT !.flags = (@ \ (r.reset \cap Writeable))
                                 \cup (r.set \cap Writeable)]
  IN  IF "LANG" \in f.flags THEN SetLanguage(f, r.content) ELSE f

\* The results of refresh(sym): a symbol may have no function.
Missing == [fail |-> TRUE, found |-> FALSE]
Results(sym) == IF sym \in DOMAIN Ext THEN Ext[sym] ELSE {Missing}

\* The function is missing, or it returned an error.
RefreshFails(o, r) ==
  [o EXCEPT !.err = "fail", !.st = IF r.found THEN SetFlag(@, "LOADFAIL") ELSE @]

RunLoad(o, i, r) ==
  IF FrameOf(o.ca, i.sym) # 0 THEN o
  ELSE IF r.fail THEN RefreshFails(o, r)
  ELSE LET lim == i.size % U16 IN
       [o EXCEPT !.st  = Refreshed(@, r),
                 !.ca  = Add(@, i.sym, r.content, lim),
                 !.err = IF AddOutcome(o.ca, i.sym, r.content, lim) \in {"ok", "dup"}
                         THEN "ok" ELSE "fail"]

\* Page.Map: a second sink is refused, a symbol mapped again is read again.
MapSym(o, k) ==
  IF FrameOf(o.ca, k) = 0 \/ k \notin DOMAIN o.ca.sizes THEN Fails(o, "fail")
  ELSE LET isSink == o.ca.sizes[k] = 0 IN
       IF isSink /\ o.pg.sink \notin {None, k} THEN Fails(o, "fail")
       ELSE [o EXCEPT !.pg.mapped = Put(@, k, Get(o.ca, k)),
                      !.pg.sink   = IF isSink THEN k ELSE @]

RunMap(o, i) == MapSym(o, i.sym)

\* Mutant: the page keeps the value read before.
RunReload_NoMap(o, i, r) ==
  IF r.fail THEN RefreshFails(o, r)
  ELSE [o EXCEPT !.st = Refreshed(@, r), !.ca = Update(@, i.sym, r.content)]

\* A failing Update is ignored.
RunReload(o, i, r) ==
  IF r.fail THEN RefreshFails(o, r)
  ELSE MapSym([o EXCEPT !.st = Refreshed(@, r),
                        !.ca = Update(@, i.sym, r.content)], i.sym)

Have(o) == "INMATCH" \in o.st.flags
Reading(o) == "READIN" \in o.st.flags

\* Mutant: the wildcard is tried although another selector matched.
Matches_AfterMatch(o, i) == i.sel \in {Wildcard, o.st.input}

\* The wildcard is tried only while nothing has matched.
Matches(o, i) == (i.sel = Wildcard /\ ~Have(o)) \/ i.sel = o.st.input

\* The match was made: go to the target. The page that "<" cannot leave is
\* an invalid input.
Follow(o, i, up) ==
  LET m == ApplyTarget([o EXCEPT !.st.flags = (@ \cup {"INMATCH"}) \ {"READIN"}], i.node)
  IN  IF m.err = "index" THEN [Ok(m) EXCEPT !.st = SetFlag(@, "READIN")]
      ELSE IF m.err # "ok" THEN m
      ELSE AppendCode(FreshPage(m), up)

\* After a match that led nowhere, input is ignored.
Ignored(o) == Have(o) /\ Reading(o)
Taken(o, i) == ~Ignored(o) /\ o.st.input # NoInput /\ Matches(o, i)

RunInCmp(o, i, up) ==
  LET s == IF Have(o) THEN o ELSE [o EXCEPT !.st = SetFlag(@, "READIN")] IN
  IF Ignored(o) THEN o
  ELSE IF o.st.input = NoInput THEN Fails(s, "fail")
  ELSE IF Taken(o, i) THEN Follow(s, i, up)
  ELSE s

\* Menu instructions; only selectors are kept.
RunMenu(o, i) ==
  CASE i.op = "MOUT"  -> [o EXCEPT !.mn.items = @ \cup {i.sel}]
    [] i.op = "MNEXT" -> [o EXCEPT !.mn.next = i.sel]
    [] i.op = "MPREV" -> [o EXCEPT !.mn.prev = i.sel]
    [] OTHER          -> [o EXCEPT !.mn.sink = TRUE]

-----------------------------------------------------------------------------
(* One turn of the loop.                                                   *)

\* The first turn after a HALT.
Wake(o) ==
  [o EXCEPT !.st.flags = @ \ {"WAIT", "INMATCH"}, !.pg = PageReset(@), !.mn = MenuReset(@)]

\* The flags before an instruction is looked at.
LoopHead(o) ==
  LET p == [o EXCEPT !.st.flags = (@ \ {"LANG"}) \cup {"DIRTY"}]
  IN  IF "WAIT" \in o.st.flags THEN Wake(p) ELSE p

\* Mutant: the error ends the run although it was an external function's.
ErrCheck_Returns(o) == IF o.err = "ok" THEN o ELSE [o EXCEPT !.pg.err = TRUE]

\* Mutant: the node is tried again instead of _catch.
ErrCheck_Retries(o) ==
  IF o.err = "ok" THEN o
  ELSE IF "LOADFAIL" \in o.st.flags
       THEN [Ok(o) EXCEPT !.pg.err = TRUE, !.b = <<MOVE(".")>>]
       ELSE [o EXCEPT !.pg.err = TRUE]

\* runErrCheck: with LOADFAIL set, and whatever the error, go to _catch.
ErrCheck(o) ==
  IF o.err = "ok" THEN o
  ELSE IF "LOADFAIL" \in o.st.flags
       THEN [Ok(o) EXCEPT !.pg.err = TRUE, !.b = <<MOVE(Catch)>>]
       ELSE [o EXCEPT !.pg.err = TRUE]

\* Mutant: code that runs out while no input is processed just ends.
DeadCheck_NoTerminate(o) ==
  IF "READIN" \notin o.st.flags \/ "TERMINATE" \in o.st.flags THEN o
  ELSE IF Where(o.st) \in {NoSym, Catch} THEN Fails(o, "fail")
  ELSE [o EXCEPT !.pg.err = TRUE, !.b = <<MOVE(Catch)>>]

\* Mutant: _catch is entered from _catch.
DeadCheck_CatchAgain(o) ==
  IF "READIN" \notin o.st.flags THEN [o EXCEPT !.st = SetFlag(@, "TERMINATE")]
  ELSE IF "TERMINATE" \in o.st.flags THEN o
  ELSE IF Where(o.st) = NoSym THEN Fails(o, "fail")
  ELSE [o EXCEPT !.pg.err = TRUE, !.b = <<MOVE(Catch)>>]

\* runDeadCheck, when no code is left: end, or take the input for invalid.
DeadCheck(o) ==
  IF "READIN" \notin o.st.flags THEN [o EXCEPT !.st = SetFlag(@, "TERMINATE")]
  ELSE IF "TERMINATE" \in o.st.flags THEN o
  ELSE IF Where(o.st) \in {NoSym, Catch} THEN Fails(o, "fail")
  ELSE [o EXCEPT !.pg.err = TRUE, !.b = <<MOVE(Catch)>>]

\* Everything after the instruction: its outcome as the next loop state.
Checked(o) ==
  LET e == ErrCheck(o) IN
  IF o.err = "panic" THEN o
  ELSE IF e.err = "ok" /\ e.b = <<>> THEN DeadCheck(e)
  ELSE e

Pc(o) == IF o.err = "panic" THEN "panic"
         ELSE IF o.err # "ok" \/ o.b = <<>> THEN "ret" ELSE "on"

\* The variables after a turn that ended in o at program counter pc.
Becomes(o, pc) ==
  /\ st' = o.st /\ ca' = o.ca /\ pg' = o.pg /\ mn' = o.mn
  /\ run' = [pc |-> pc, b |-> o.b, err |-> o.err]
  /\ home' = [k \in Cached(o.ca) |-> IF k \in DOMAIN home THEN home[k] ELSE st.path]

Turn(o) == \E c \in {Checked(o)} : Becomes(c, Pc(c))

\* The state in which the instruction at the head of the code is executed.
Current == LoopHead([st |-> st, ca |-> ca, pg |-> pg, mn |-> mn,
                     b |-> Tail(run.b), err |-> "ok"])

Instr == Head(run.b)
Terminated == "TERMINATE" \in st.flags
Executing(op) == run.pc = "on" /\ ~Terminated /\ run.b # <<>> /\ Instr.op = op

ExecMove == /\ Executing("MOVE")
            /\ \E up \in BOOLEAN : Turn(RunMove(Current, Instr, up))
            /\ UNCHANGED hits

ExecCatch == /\ Executing("CATCH")
             /\ \E up \in BOOLEAN : Turn(RunCatch(Current, Instr, up))
             /\ UNCHANGED hits

ExecCroak == Executing("CROAK") /\ Turn(RunCroak(Current, Instr)) /\ UNCHANGED hits

ExecLoad == /\ Executing("LOAD")
            /\ \E r \in Results(Instr.sym) : Turn(RunLoad(Current, Instr, r))
            /\ UNCHANGED hits

ExecReload == /\ Executing("RELOAD")
              /\ \E r \in Results(Instr.sym) : Turn(RunReload(Current, Instr, r))
              /\ UNCHANGED hits

ExecMap == Executing("MAP") /\ Turn(RunMap(Current, Instr)) /\ UNCHANGED hits

ExecInCmp ==
  /\ Executing("INCMP")
  /\ \E up \in BOOLEAN : Turn(RunInCmp(Current, Instr, up))
  /\ hits' = IF Taken(Current, Instr) THEN hits + 1 ELSE hits

ExecMenu == /\ run.pc = "on" /\ ~Terminated /\ run.b # <<>>
            /\ Instr.op \in {"MOUT", "MNEXT", "MPREV", "MSINK"}
            /\ Turn(RunMenu(Current, Instr))
            /\ UNCHANGED hits

\* HALT returns at once, with the code that is left.
ExecHalt == /\ Executing("HALT")
            /\ Becomes([Current EXCEPT !.st = SetFlag(@, "WAIT")], "ret")
            /\ UNCHANGED hits

\* TERMINATE is seen at the head of the loop: the rest of the code is dropped.
Bail == /\ run.pc = "on" /\ Terminated
        /\ run' = [pc |-> "ret", b |-> <<>>, err |-> "ok"]
        /\ UNCHANGED <<st, ca, pg, mn, home, hits>>

VmStep == \/ ExecMove \/ ExecCatch \/ ExecCroak \/ ExecLoad \/ ExecReload
          \/ ExecMap \/ ExecInCmp \/ ExecMenu \/ ExecHalt \/ Bail

-----------------------------------------------------------------------------
(* The client: an input at a time, each run to its return, the code that   *)
(* is left kept in the state (engine.exec and engine.setCode).             *)

Idle == [pc |-> "off", b |-> <<>>, err |-> "ok"]

Init == /\ st = [NewState EXCEPT !.code = <<MOVE(Root)>>]
        /\ ca = NewCache
        /\ pg = NewPage
        /\ mn = NewMenu
        /\ run = Idle
        /\ home = [k \in {} |-> <<>>]
        /\ hits = 0

Exec(in) == /\ run.pc = "off"
            /\ st.code # <<>>
            /\ st.idx <= MaxIdx
            /\ st' = [st EXCEPT !.input = in, !.code = <<>>]
            /\ run' = [pc |-> "on", b |-> st.code, err |-> "ok"]
            /\ hits' = 0
            /\ UNCHANGED <<ca, pg, mn, home>>

\* After an error or a termination no code is kept.
Return == /\ run.pc = "ret"
          /\ st' = IF run.err = "ok" /\ ~Terminated
                   THEN [st EXCEPT !.code = run.b] ELSE st
          /\ run' = Idle
          /\ UNCHANGED <<ca, pg, mn, home, hits>>

Next == \/ \E in \in Input : Exec(in)
        \/ VmStep
        \/ Return

\* Run is a loop in one goroutine: it keeps taking steps until it returns.
Spec == Init /\ [][Next]_vars /\ WF_vars(VmStep)

-----------------------------------------------------------------------------
(* What must hold of it.                                                   *)

StateType ==
  [path : Seq(Node), idx : 0 .. (IdxMod - 1), flags : SUBSET Flag,
   input : Input \cup {NoInput}, lang : LangCode \cup {NoLang},
   code : Seq(Instruction)]
Page == [mapped : Frame, sink : Key \cup {None}, err : BOOLEAN]
Menu == [items : SUBSET Selector, next : Selector \cup {None},
         prev : Selector \cup {None}, sink : BOOLEAN]
Outcome == {"ok", "fail", "index", "panic"}

\* The components are well formed: the path is made of nodes, the page index
\* never leaves its width, there is always a cache frame, and all code that is
\* kept or run is a sequence of instructions.
TypeOK ==
  /\ st \in StateType
  /\ ca.frames \in Seq(Frame) \ {<<>>}
  /\ pg \in Page
  /\ mn \in Menu
  /\ run \in [pc : {"off", "on", "ret", "panic"}, b : Seq(Instruction), err : Outcome]
  /\ hits \in Nat

\* cache.texi:50 and 52: a symbol stays in the cache only while the node it was
\* loaded at is on the path; every way up, and CROAK, frees what lies below.
ScopeHeld ==
  /\ DOMAIN home = Cached(ca)
  /\ \A k \in DOMAIN home : IsPrefix(home[k], st.path)

\* cache.texi:50, the other half: a symbol is not lost while its node is on the
\* path, except to a CROAK.
ScopeKept ==
  [][\A k \in DOMAIN home :
       IsPrefix(home[k], st'.path) /\ ~(run.pc = "on" /\ Instr.op = "CROAK")
         => k \in DOMAIN home']_vars

\* A run that returns without error either waits at a HALT or has terminated,
\* never both: a client is never asked for input by a session that is over.
YieldReason ==
  run.pc = "ret" /\ run.err = "ok" =>
    /\ Terminated <=> "WAIT" \notin st.flags
    /\ Terminated => run.b = <<>>

\* instructions.texi:99: one input makes one INCMP move, whatever selectors the
\* node reached and the code that is left compare it with.
OneMovePerInput == hits <= 1

\* render.texi:20 and 68: what the page will show for a symbol is a symbol that
\* is loaded, with the value the cache holds now.
MappedIsCurrent ==
  \A k \in DOMAIN pg.mapped : k \in Cached(ca) /\ pg.mapped[k] = Get(ca, k)

\* instructions.texi:127: a menu entry offered to the client has an INCMP
\* waiting for it; no entry of an earlier page is left over.
MenuAnswerable ==
  run.pc = "ret" /\ "WAIT" \in st.flags =>
    \A sel \in mn.items :
      \E n \in DOMAIN run.b : run.b[n].op = "INCMP" /\ run.b[n].sel \in {sel, Wildcard}

\* exceptions.texi:37: an error of external code ends at _catch, not in an
\* error returned to the client.
LoadFailCaught ==
  run.err \in {"fail", "index"} /\ "LOADFAIL" \in st.flags =>
    run.b = <<>> /\ Where(st) \in {NoSym, Catch}

\* state.go:291 and 297: the two panics of Down are assertions that the path
\* neither outgrows its limit nor repeats its last node.
NoPanic == run.pc # "panic"

\* Every run returns: _catch, errors and rewinding never make the loop go on for ever.
Returns == (run.pc = "on") ~> (run.pc # "on")

-----------------------------------------------------------------------------
(* What some of these properties ask of the bytecode c of a node. Nothing  *)
(* in the code enforces it.                                                *)

Compares(c) == {j \in DOMAIN c : c[j].op = "INCMP"}
HaltBetween(c, i, j) == \E h \in DOMAIN c : i < h /\ h < j /\ c[h].op = "HALT"

\* A selector is compared once between two HALTs, and none after the wildcard.
ComparesOnce(c) ==
  \A i, j \in Compares(c) :
    i < j /\ c[i].sel \in {c[j].sel, Wildcard} => HaltBetween(c, i, j)

\* Input is asked for before it is compared.
AsksFirst(c) == \A j \in Compares(c) : HaltBetween(c, 0, j)

\* What may leave the node with the page of the node: CATCH keeps the page,
\* and a MOVE up that finds no code has freed a level before it fails.
LeavesPage(i) == i.op = "CATCH" \/ (i.op = "MOVE" /\ i.node \in {"_", "^"})

\* After i comes a HALT, and nothing that leaves before it.
Shown(c, i) ==
  \E h \in DOMAIN c : /\ i < h /\ c[h].op = "HALT"
                     /\ \A n \in DOMAIN c : i < n /\ n < h => ~LeavesPage(c[n])

\* What is mapped is shown before the node is left.
ShowsMapped(c) == \A i \in DOMAIN c : c[i].op \in {"MAP", "RELOAD"} => Shown(c, i)

\* After i comes a HALT, no CATCH before it, and an INCMP for sel behind it.
Answered(c, i, sel) ==
  \E h \in DOMAIN c, j \in Compares(c) :
    /\ i < h /\ h < j /\ c[h].op = "HALT" /\ c[j].sel \in {sel, Wildcard}
    /\ \A n \in DOMAIN c : i < n /\ n < h => c[n].op # "CATCH"

\* A menu entry has an INCMP behind the HALT that shows it.
AnswersMenu(c) == \A i \in DOMAIN c : c[i].op = "MOUT" => Answered(c, i, c[i].sel)

=============================================================================
