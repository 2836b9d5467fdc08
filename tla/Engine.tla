------------------------------- MODULE Engine -------------------------------
(***************************************************************************)
(* The engine, engine.DefaultEngine (src/engine/db.go), around the vm: it  *)
(* opens a session, runs the first function, feeds an input to the vm,     *)
(* keeps the code that is left, writes the output and saves the session.   *)
(* A process may be lost at any moment, and with it everything but what    *)
(* persist.Persister (src/persist/persist.go) has stored.                  *)
(*                                                                         *)
(* The steps of Vm are the steps of a run inside Exec. Rendering is a      *)
(* choice: a page, nothing (a blank template), or an error.                *)
(***************************************************************************)
EXTENDS Vm

CONSTANTS Configs,    \* the deployments that are looked at
          ConfigLang, \* Config.Language, NoLang for ""
          FirstSym,   \* the node and symbol "_first"
          BadInput,   \* inputs vm.ValidInput refuses
          NoSession   \* nothing stored

ASSUME EngineAssumption ==
  /\ \A c \in Configs :
       /\ {c.persisted, c.resetOnEmpty, c.resetRoot} \subseteq BOOLEAN
       /\ c.first \subseteq {r \in Result : r.found}
       /\ c.dbFails \subseteq {"get", "put", "again"}
  /\ ConfigLang \in LangCode \cup {NoLang}
  /\ FirstSym \in (Node \cap Key) \ {Root, Catch}
  /\ FirstSym \notin DOMAIN Code
  /\ BadInput \subseteq Input

VARIABLES conf,   \* the deployment, the same for all its engines
          eng,    \* the engine: [ready, initd, execd, exiting, exit]
          store,  \* the session stored: [st, ca, home], or NoSession
          reply,  \* what Exec returned last
          out     \* what Flush wrote last: [page, exit]

engineVars == <<st, ca, pg, mn, run, home, hits, conf, eng, store, reply, out>>

Persisted         == conf.persisted     \* is there a persister?
ResetOnEmptyInput == conf.resetOnEmpty  \* Config.ResetOnEmptyInput
ResetRoot         == conf.resetRoot     \* Config.ResetRoot
First             == conf.first         \* results of the first function, {} if it is not set
DbFails           == conf.dbFails       \* the database calls that may fail

\* ready: state and cache are set in the engine; the rest are its fields.
NewEng == [ready |-> FALSE, initd |-> FALSE, execd |-> FALSE,
           exiting |-> FALSE, exit |-> Empty]

NoHome == [k \in {} |-> <<>>]

\* A call in progress: the engine's own view of everything it may change.
Here == [st |-> st, ca |-> ca, pg |-> pg, mn |-> mn, home |-> home, eng |-> eng,
         store |-> store, reply |-> "on", out |-> out]

Returned(x) == x.reply # "on"
Answer(x, r) == [x EXCEPT !.reply = r]

\* What the call leaves behind when it goes on to run b, or returns. Only the first
\* function loads a symbol before the run, at a node of its own.
Leaves(x, r) ==
  /\ st' = x.st /\ ca' = x.ca /\ pg' = x.pg /\ mn' = x.mn
  /\ home' = [k \in Cached(x.ca) |-> IF k \in DOMAIN x.home THEN x.home[k]
                                    ELSE Append(x.st.path, FirstSym)]
  /\ eng' = x.eng /\ store' = x.store /\ reply' = x.reply /\ out' = x.out
  /\ run' = r /\ conf' = conf

-----------------------------------------------------------------------------
(* The stored session.                                                     *)

\* The latest input is not serialized. home is history.
Image(x) == [st |-> [x.st EXCEPT !.input = NoInput], ca |-> x.ca, home |-> x.home]

Restored(x) == [x EXCEPT !.st = x.store.st, !.ca = x.store.ca, !.home = x.store.home]

\* Config.Language is used for a state that has none.
Configured(s) ==
  IF s.lang = NoLang /\ ConfigLang # NoLang
  THEN SetFlag([s EXCEPT !.lang = ConfigLang], "LANG") ELSE s

\* ensurePersist: whatever the reason a session cannot be loaded, the new one
\* is saved in its place and loaded. fails: the database calls that fail.
Opened(x, fails) ==
  IF x.store # NoSession /\ "get" \notin fails THEN Restored(x)
  ELSE IF "put" \in fails THEN Answer(x, "error")
  ELSE LET y == [x EXCEPT !.store = Image(x)] IN
       IF "again" \in fails THEN Answer(y, "error") ELSE y

\* prepare, of an engine that is not initialised: state, cache and a new vm.
\* A second attempt finds them set both in the persister and the engine.
Prepared(x, fails) ==
  IF x.eng.initd THEN x
  ELSE IF Persisted /\ x.eng.ready THEN Answer(x, "error")
  ELSE LET y == [x EXCEPT !.st = Configured(@), !.pg = NewPage, !.mn = NewMenu,
                          !.eng.ready = TRUE]
       IN  IF Persisted THEN Opened(y, fails) ELSE y

-----------------------------------------------------------------------------
(* Output and reset.                                                       *)

\* Mutant: the loop stops at the first node.
AllUp_StopsAtTop(x) ==
  [x EXCEPT !.st.path = SubSeq(@, 1, 1), !.st.idx = 0, !.ca = PopN(@, Len(x.st.path) - 1)]

\* Mutant: a cache level is kept.
AllUp_KeepsLevel(x) ==
  [x EXCEPT !.st.path = <<>>, !.st.idx = 0, !.ca = PopN(@, Len(x.st.path) - 1)]

\* The loop of reset: up and pop once for every node.
AllUp(x) == [x EXCEPT !.st.path = <<>>, !.st.idx = 0, !.ca = PopN(@, Len(x.st.path))]

\* reset fails without effect on an empty path. Restart finds the path empty.
EngineReset(x) ==
  IF x.st.path = <<>> THEN x
  ELSE LET y == AllUp(x)
           s == Restart(y.st)
       IN  [y EXCEPT !.ca = IF ResetRoot THEN Pop(@) ELSE @,
                     !.st = [s EXCEPT !.flags = @ \ {"TERMINATE", "DIRTY", "LOADFAIL"}]]

Rendering == {"page", "blank", "fail"}

\* vm.Render has something to render.
Shows(x) == "DIRTY" \in x.st.flags /\ x.st.path # <<>>

\* Flush. An error counts only if there is no exit text to write instead, and
\* then an ended session is not reset.
Flushed(x, how) ==
  LET failed == Shows(x) /\ how = "fail"
      y      == [x EXCEPT !.st = ResetFlag(@, "DIRTY")]
      z      == [y EXCEPT !.out = [page |-> Shows(x) /\ how = "page", exit |-> x.eng.exit]]
  IN  IF ~x.eng.execd THEN Answer(x, "error")
      ELSE IF failed /\ x.eng.exit = Empty THEN Answer(y, "error")
      ELSE IF x.eng.exiting THEN [EngineReset(z) EXCEPT !.eng.exiting = FALSE]
      ELSE z

\* prepare, first part: output nobody fetched is discarded.
Discarded(x, how) ==
  LET y == IF x.eng.execd THEN [Flushed(x, how) EXCEPT !.out = x.out] ELSE x
  IN  IF Returned(y) THEN y
      ELSE [y EXCEPT !.eng.execd = FALSE, !.eng.exit = Empty, !.eng.exiting = FALSE]

-----------------------------------------------------------------------------
(* The first function runs on a vm of its own, whose nodes have no code, at *)
(* a node and a cache level of its own. o is that vm's machine state.       *)

FirstVm(x) == [st |-> Down(x.st, FirstSym), ca |-> Push(x.ca), pg |-> NewPage,
               mn |-> NewMenu, b |-> <<>>, err |-> "ok"]

\* Mutant: the cache level of the first function stays.
FirstDone_LevelStays(x, o) ==
  [x EXCEPT !.st = Up([o.st EXCEPT !.flags = @ \ {"TERMINATE", "DIRTY"}]), !.ca = o.ca]

\* The deferred calls.
FirstDone(x, o) ==
  [x EXCEPT !.st = Up([o.st EXCEPT !.flags = @ \ {"TERMINATE", "DIRTY"}]), !.ca = Pop(o.ca)]

\* Mutant: an engine that was blocked counts as initialised.
Blocks_Opens(x, o) ==
  Answer([FirstDone(x, [o EXCEPT !.ca = ForgetLast(@)])
            EXCEPT !.eng.execd = TRUE, !.eng.exit = o.ca.last, !.eng.initd = TRUE], "over")

\* TERMINATE is set: the engine answers with the value loaded last.
Blocks(x, o) ==
  Answer([FirstDone(x, [o EXCEPT !.ca = ForgetLast(@)])
            EXCEPT !.eng.execd = TRUE, !.eng.exit = o.ca.last], "over")

\* After the LOAD comes a HALT, or the way to _catch, which has no code.
AfterFirstLoad(x, o) ==
  LET halted == [LoopHead(o) EXCEPT !.st = SetFlag(@, "WAIT")]
      caught == DeadCheck(FreshPage(Descend(LoopHead(Ok(o)), Catch)))
  IN  IF o.err # "ok" /\ "LOADFAIL" \notin o.st.flags THEN Answer(FirstDone(x, o), "error")
      ELSE IF "TERMINATE" \in o.st.flags THEN Blocks(x, o)
      ELSE IF o.err = "ok" THEN FirstDone(x, halted)
      ELSE IF DownPanics(o.st, Catch) THEN Answer(x, "panic")
      ELSE IF caught.err # "ok" THEN Answer(FirstDone(x, caught), "error")
      ELSE Blocks(x, caught)

\* runFirst. A TERMINATE that is set already stops it before the function.
RunFirst(x, r) ==
  IF First = {} THEN x
  ELSE IF DownPanics(x.st, FirstSym) THEN Answer(x, "panic")
  ELSE IF "TERMINATE" \in x.st.flags THEN Blocks(x, FirstVm(x))
  ELSE AfterFirstLoad(x, RunLoad(LoopHead(FirstVm(x)), LOAD(FirstSym, 0), r))

-----------------------------------------------------------------------------
(* Exec.                                                                   *)

\* A session without code starts at the entry point.
AtRoot(x) == IF x.st.code = <<>> THEN [x EXCEPT !.st.code = <<MOVE(Root)>>] ELSE x

\* init; a dead end answers before initd is set.
Initialised(x, in, r) ==
  IF x.eng.initd THEN x
  ELSE LET f == RunFirst([x EXCEPT !.st.input = in], r) IN
       IF Returned(f) THEN f
       ELSE [AtRoot(f) EXCEPT !.eng.initd = TRUE, !.st.input = x.st.input]

\* Mutant: only the code is set.
ForcedReset_Keeps(x, in) ==
  IF ResetOnEmptyInput /\ in = EmptyInput /\ x.st.path # <<>>
  THEN [x EXCEPT !.st.code = <<MOVE(Root)>>] ELSE x

\* Reset(force), on an empty input.
ForcedReset(x, in) ==
  IF ResetOnEmptyInput /\ in = EmptyInput /\ x.st.path # <<>>
  THEN EngineReset([x EXCEPT !.st.code = <<MOVE(Root)>>]) ELSE x

\* What is checked last before the vm runs.
Accepted(x, in) ==
  IF in \in BadInput THEN Answer(x, "refused")
  ELSE IF x.st.code = <<>> THEN Answer([x EXCEPT !.st.input = in], "error")
  ELSE [x EXCEPT !.st.input = in]

\* Each part of Exec is only reached if none before it returned.
Opening(in, how, fails, r) ==
  LET d == Discarded(Here, how)
      p == IF Returned(d) THEN d ELSE Prepared(d, fails)
      i == IF Returned(p) THEN p ELSE Initialised(p, in, r)
  IN  IF Returned(i) THEN i ELSE Accepted(ForcedReset(i, in), in)

\* Mutant: the code stays in the state while it is run.
TakenCode_Kept(x) == x

\* GetCode hands the code out and forgets it.
TakenCode(x) == [x EXCEPT !.st.code = <<>>]

\* Where a call that goes on continues: at its code, in a panic, or nowhere.
Continues(x) == CASE x.reply = "on"    -> [pc |-> "on", b |-> x.st.code, err |-> "ok"]
                  [] x.reply = "panic" -> [Idle EXCEPT !.pc = "panic"]
                  [] OTHER             -> Idle

EngineExec(in) ==
  /\ run = Idle
  /\ st.idx <= MaxIdx
  /\ \E how \in Rendering, fails \in SUBSET DbFails,
        r \in IF First = {} THEN {Missing} ELSE First :
       \E x \in {Opening(in, how, fails, r)} :
         Leaves(IF Returned(x) THEN x ELSE TakenCode(x), Continues(x))
  /\ hits' = 0

\* exec, after Run: no code is kept after an error or a termination, otherwise
\* setCode; without code the session ends and its last value is said.
Concluded(x) ==
  IF run.err # "ok" THEN Answer(x, "error")
  ELSE LET y == [x EXCEPT !.eng.execd = TRUE] IN
       IF Terminated THEN Answer(y, "over")
       ELSE IF run.b # <<>> THEN Answer([y EXCEPT !.st.code = run.b], "more")
       ELSE IF "DIRTY" \in st.flags
            THEN Answer([y EXCEPT !.eng.exiting = TRUE, !.eng.exit = ca.last,
                                  !.ca = ForgetLast(@)], "over")
       ELSE Answer(y, "over")

EngineReturn ==
  /\ run.pc = "ret"
  /\ Leaves(Concluded(Here), Idle)
  /\ UNCHANGED hits

Flush ==
  /\ run = Idle
  /\ \E how \in Rendering :
       Leaves([Flushed(Here, how) EXCEPT !.reply = reply], Idle)
  /\ UNCHANGED hits

\* Finish. Nothing is saved before initialisation; a put may fail.
Finish ==
  /\ run = Idle
  /\ Persisted /\ eng.initd
  /\ store' = Image(Here)
  /\ UNCHANGED <<st, ca, pg, mn, run, home, hits, conf, eng, reply, out>>

\* A new engine, whatever became of the one before: finished, dropped in the
\* middle of a call, or lost in a panic or with its process.
NewEngine ==
  /\ st' = NewState /\ ca' = NewCache /\ pg' = NewPage /\ mn' = NewMenu
  /\ run' = Idle /\ home' = NoHome /\ hits' = 0
  /\ eng' = NewEng /\ reply' = "none" /\ out' = [page |-> FALSE, exit |-> Empty]
  /\ UNCHANGED <<conf, store>>

EngineInit ==
  /\ st = NewState /\ ca = NewCache /\ pg = NewPage /\ mn = NewMenu
  /\ run = Idle /\ home = NoHome /\ hits = 0
  /\ eng = NewEng /\ reply = "none" /\ out = [page |-> FALSE, exit |-> Empty]
  /\ store = NoSession /\ conf \in Configs

RunStep == VmStep /\ UNCHANGED <<conf, eng, store, reply, out>>

EngineNext == \/ \E in \in Input : EngineExec(in)
              \/ RunStep
              \/ EngineReturn
              \/ Flush
              \/ Finish
              \/ NewEngine

\* A run and its return are one call in one goroutine.
EngineSpec == EngineInit /\ [][EngineNext]_engineVars
              /\ WF_engineVars(RunStep \/ EngineReturn)

-----------------------------------------------------------------------------
(* What must hold of it.                                                   *)

\* The engine and what it stores are well formed, the vm's components included.
EngineTypeOK ==
  /\ TypeOK
  /\ eng \in [ready : BOOLEAN, initd : BOOLEAN, execd : BOOLEAN,
              exiting : BOOLEAN, exit : Value]
  /\ store # NoSession => /\ store.st \in StateType
                          /\ store.ca.frames \in Seq(Frame) \ {<<>>}
                          /\ DOMAIN store.home = Cached(store.ca)
  /\ reply \in {"none", "on", "more", "over", "refused", "error", "panic"}
  /\ out \in [page : BOOLEAN, exit : Value]

\* state.go:307 and cache.go:172 leave it to their callers: there is a cache
\* level for every node of the path and one below, in the first function, across
\* resets, errors and stored sessions alike. (Not after a CROAK.)
InStep == Levels(ca) = Len(st.path) + 1

\* The code kept while no run is in progress ends with the code of the node the
\* session is at, all of it or what is left of it, whatever failed before; and so
\* does the code that is stored.
Belongs(s) ==
  s.code \notin {<<>>, <<MOVE(Root)>>} =>
    /\ Where(s) \in DOMAIN Code
    /\ \/ IsSuffix(s.code, Code[Where(s)])
       \/ IsSuffix(Code[Where(s)], s.code)
CodeBelongs == /\ run = Idle /\ eng.initd => Belongs(st)
               /\ store # NoSession => Belongs(store.st)

\* After an answer was flushed the session can go on: it has code, or TERMINATE
\* says that it is over, or nothing is left of it and it starts at the entry point.
EndsClean ==
  run = Idle /\ eng.initd /\ eng.execd /\ ~eng.exiting =>
    st.code # <<>> \/ Terminated \/ st.path = <<>>

\* exceptions.texi:24: a session that starts again does so at the topmost node,
\* not by entering the entry point from where it was.
EntryOnce == \A n \in DOMAIN st.path : st.path[n] = Root => n = 1

\* config.go:30: an input that is empty starts the session over, with nothing in
\* the cache but what the entry point loads, wherever it was and even if it was over.
RestartsOnEmpty ==
  ResetOnEmptyInput /\ run = Idle /\ reply = "more" /\ st.input = EmptyInput =>
    st.path = <<Root>> /\ Levels(ca) = 2

\* db.go:253: a session is saved anew in case there is none yet; one that is
\* stored is replaced only by an engine that loaded it.
SessionKept == [][store # NoSession /\ store' # store => eng.initd]_engineVars

\* Every call of Exec is answered, or panics above MaxLevel, or its engine is lost: no
\* code that init, the first function, a reset or a stored session leaves keeps the vm
\* running for ever.
ExecReturns == reply = "on" ~> reply # "on" \/ run.pc = "panic"

\* What of a session decides how it goes on. Without code, that is the entry point.
View(s, c, b) == [path   |-> s.path,
                  frames |-> c.frames,
                  next   |-> IF b = <<>> THEN <<MOVE(Root)>> ELSE b,
                  over   |-> "TERMINATE" \in s.flags]

\* With a persister, engines one after the other treat the stored session as a
\* checkpoint.
Promise ==
  INSTANCE Checkpoint WITH
    New   <- View(NewState, NewCache, <<>>),
    None  <- NoSession,
    saved <- IF store = NoSession THEN NoSession
             ELSE View(store.st, store.ca, store.st.code),
    work  <- IF ~Persisted \/ ~eng.initd THEN NoSession
             ELSE View(st, ca, IF run = Idle THEN st.code ELSE run.b)
ImplementsCheckpoint == Promise!Spec
=============================================================================
