# A TLA+ model of go-vise

go-vise is a virtual machine for menus over constrained channels (USSD and the
like). A session is a path of *nodes*; each node has bytecode that loads values
from external functions into a cache, maps them on a page, offers menu entries
and halts for input. This directory models the machine's control (navigation,
flags, cache, error handling, engines and stored sessions), the pages it shows,
the bytecode it runs and the database it reads from and writes to. File names
are relative to `src/`.

## Inventory

| part | code | state it keeps | operations | what makes it correct |
|---|---|---|---|---|
| cache | `cache/` | stack of frames symbol -> value, limits, byte counter, last value | Add, Update, Get, Push, Pop, Reset, Last | counter exact, capacity and limits kept, a symbol in one frame |
| state | `state/` | path of nodes, page index, flags, input, language, code | Down, Up, Next, Previous, Restart, flags | path never repeats its last node, index keeps its width |
| vm | `vm/` | program counter in bytecode, page and menu being built | Run (one opcode a turn), Render | path and cache in step, an input moves once, every run returns, errors end at `_catch` |
| engine | `engine/` | initd, execd, exiting, exit | Exec, Flush, Reset, Finish; first function | code is kept exactly for sessions that go on; output of each run is flushed once |
| persist | `persist/` | state and cache of a session, the stored copy | Save, Load, WithFlush | a reloaded session is the saved one |
| render | `render/` | mapped values, sink, sizer, browse options | Map, Render, split into pages | pages partition the content, none is larger than the output |
| resource | `resource/` | none of its own (db prefix) | GetCode, GetTemplate, GetMenu, FuncFor | answers do not depend on who used the store before |
| db | `db/` and its `mem`, `fs`, `postgres`, `log` | store, prefix, session, language, locks | Get, Put, SetPrefix, SetSession, Dump, DecodeKey, log entries | keys of sessions and types never collide; translation falls back; a dump is complete; a log entry tells its put |
| asm | `asm/` | the batch of menu items being read | Parse (a line at a time), MenuAdd, MenuExit | the vm reads what was written |
| lang, debug, dev, slog | | none between calls | | not modelled |

The engine runs the vm with the code kept in the state and keeps the code that
is left. The vm calls resource for bytecode and functions, cache and state for
everything it remembers, and page and menu for what will be shown. Flush renders
the page. The persister stores state and cache between two engines; nothing else
survives a process. Resource, persister and application may share one database
handle, and with it the type, session and language that each of them sets.

All of this runs in one goroutine per session, so the hard behaviour is not in
interleavings of threads. It is in long sequences of legal operations that move
two structures that must stay in step (path and cache, page and cache, flags and
code), in failures in the middle of an operation that is not undone, in what a
flag set long ago does to a later error, and in crashes between Exec and Finish.
`PROJECT.json` lists the hazards at their lines.

## Modules

* `CacheOps` - the methods of `cache.Cache` as operators on a record.
  `Cache` - the cache as a component, one action per method, any call in any
  order. `Memory` - what the interface in `cache/memory.go` promises, with no
  frames or counters; `Cache` implements it (`ImplementsMemory`).
* `StateOps` - the methods of `state.State` as operators on a record.
* `Vm` - composes both with page and menu. `st`, `ca`, `pg`, `mn` are the
  fields of `vm.Vm`; `run` is the call of `Run`: whether it is executing, the
  bytecode left, the error. One action is one turn of the loop of `Run`: flags
  at its head, one opcode, `runErrCheck`, `runDeadCheck`. The opcode operators
  (`RunMove`, `RunInCmp`, ...) take and return a machine state, so that an
  early return is an early result and what the code did before it stays done.
  `Exec` and `Return` are `engine.exec` and `setCode`. `home` (path at which a
  cached symbol was loaded) and `hits` (matches since the last input) are
  history variables that only properties read. (In `Engine`, a symbol that the
  first function would leave behind has the path of `_first` for its home.)
* `Engine` - extends `Vm` and replaces its `Exec` and `Return` by those of
  `engine.DefaultEngine`. `eng` are the engine's fields, `store` is the session
  the persister has stored, `reply` and `out` are what `Exec` returned and
  `Flush` wrote last. `EngineExec` is all of `Exec` up to the vm: output nobody
  fetched is discarded (which may reset an ended session), state, cache and vm
  are prepared, the stored session is loaded or a new one saved, the first
  function runs on a vm of its own (`RunFirst`), an empty input may reset, the
  input is checked. Each part gets what the part before it left, and is skipped
  when that returned. The steps of `Vm` follow, then `EngineReturn`. `Flush`,
  `Finish` and `NewEngine` (the engine or its process is gone, at any moment,
  in the middle of a run as well) are the other actions.
  `conf` is the deployment (persister or not, first function, `ResetOnEmptyInput`,
  `ResetRoot`, database calls that fail), chosen at the start from `Configs` and
  the same for every engine after it.
  `Checkpoint` - what engine and persister promise together: an engine works on
  a copy of the session stored last and is the only one to replace it;
  `Engine` implements it (`ImplementsCheckpoint`).
* `Pages` - `render.Page`, `render.Menu` and `render.Sizer` while a client
  browses the pages of a node. `pg`, `crsrs` and `mn` are their fields, `size` is
  `Config.OutputSize`. `Render` is `Page.Render` with `prepare`, `joinSink`,
  `GetAt` and `Menu.Render` as operators on lengths of lines; the actions are
  `Flush` and the ways a run can end at a page: `NextPage`, `PreviousPage`,
  `Move`, `CatchTo` (without `Vm.Reset`), and `NewEngine`. `seen` and `how` are
  history: the lines shown so far and how the page was reached.
* `Store` - `db.DbBase` with the store in memory, in files or in Postgres
  (`h.kind`). `h` is the handle, `kv` the store; `Laid` are files laid out by
  hand under their legacy names, which `fsDb.Get` finds when a key has no file of
  its own (`altPathFor`), `Seeds` is what an earlier process has put. The actions
  are the calls of everyone who shares the handle:
  application (`SetPrefix`, `SetSession`, `SetLanguage`, `SetLock`, `Put`),
  `resource.DbResource` (`Retrieve`), `persist.Persister` (`SetSession`, `Save`,
  `Load`). `wrote` is history: what was put, by type, session, key and language
  as the documentation means them, next to `kv`, which has the keys the code
  makes of them.
* `Dumps` - extends `Store` with what reads keys back: `FromDbKey`,
  `FromSessionKey` and `DecodeKey`; `Dump`, all that `fsDb.Dump` and the dump
  function after it answer; `toLogDbEntry` and `ToLogDbEntry`, which write and
  read an entry of the log of puts. `ToLogDbEntry` answers with an entry, an error
  of `DecodeKey`, or the panic of the slice at `log.go:153`.
* `Bytecode` - bytes. `src` are the lines of a source, `asm` the assembler with
  its batcher, `code` what the disassembler is given and `b` what it has left of
  it. One action reads a line (`AsmBatch` or `AsmOne`, `Finish` at the end), one
  hands the code over, whole or with its end cut off (`Load`), one is a turn of
  `ParseAll` (`ParseNext`). `writeSym`, `writeSize`, `NewLine` and the parsers
  `parseSym`, `parseSymLen`, ... are operators on sequences of bytes, and keep
  the order of the code's tests. `Expand` is what the documentation's tables say
  a source stands for.
* `MCCache`, `MCVm`, `MCEngine`, `MCPages`, `MCStore`, `MCBytecode` - instances
  for TLC.
* `SumLemmas`, `CacheLemmas` - lemmas on sums over finite sets and on the
  operators of `CacheOps`. `CacheProofs`, `VmProofs`, `EngineProofs`,
  `PagesProofs`, `StoreProofs`, `BytecodeProofs` - theorems about the component each
  is named after.

Data is abstract: a value is a model value with a length, an input or selector
is a member of a small set, bytecode is a sequence of instruction records
(in `Bytecode`, of bytes), labels and templates are left out. In
`Pages` a line is its length and a page is the numbers of its lines; in `Store` a
key is a sequence of tokens. External functions are relations: any result of a
given set, an error included. Bytecode retrieval may fail for the nodes in
`Lost`, at any time; rendering, in `Engine`, may give a page, nothing or an error.

Operators named `X_Something` with the comment "Mutant" are deliberately wrong
versions of `X`; `PROJECT.json` says which property notices each of them.

## Runs

| run | cfg | shows |
|---|---|---|
| cache | `MCCache.cfg` | all sequences of calls; lengths 0-3 around limits 0-2 and capacity 4; three levels, so that a symbol can be held below, in and above the current frame |
| vm_menu | `MCVm.cfg` | a menu of four nodes with every opcode and target; safety, `ScopeKept` and `Returns` |
| vm_croak | `VmCroak.cfg` | finding: CROAK leaves path and cache out of step |
| vm_leak | `VmLeak.cfg` | finding: CATCH keeps what the node before mapped |
| engine | `MCEngine.cfg` | two deployments. Engines one after the other on a stored session, lost at any moment, with a first function that allows, blocks or fails: path, cache and code stay consistent, an answered session can go on, and the store is a checkpoint. Engines without persister that reset on empty input: they restart cleanly. Of both: every call of Exec is answered |
| engine_stale | `EngineStale.cfg` | finding: after a failed run the entry point is entered below the old path |
| engine_lost | `EngineLost.cfg` | finding: a failing read makes the engine overwrite the session |
| pages | `MCPages.cfg` | contents of up to seven lines, some blank, and menus of up to four items, in eight output sizes: what is offered can be shown, going on shows every line once |
| pages_past | `PagesPast.cfg` | finding: a page past the last one panics |
| pages_labels | `PagesLabels.cfg` | finding: the room reserved for a browse item is that of its symbol, not of its label |
| store | `MCStore.cfg` | a shared handle on each of the stores: keys never meet, the resource answers from read-only data only, a seal holds, dumps of files are complete, entries of the log tell the put to the session that put it, are an error for any other and panic without one |
| bytecode | `MCBytecode.cfg` | sources of up to three lines: they are listed as written but for NOOPs, cut code is listed as shorter code, what is listed of code without NOOP assembles to the same bytes, and every turn consumes code |

Bounds. `MaxLevels` (cache frames), `MaxIdx` (no input is given at a page above
it; the page index is otherwise unbounded up to its width) and the finite sets
of the cfgs. `MaxLevel` is 3 where the code has 128: the checked program goes
three nodes deep. The menu program is the model's input. It exercises CATCH with
and without match, CROAK, LOAD that fails, terminates or does not fit, RELOAD to
an empty value, all relative targets, a missing page before the first, a
wildcard and an unanswered input; each opcode's every outcome is reached. A
property of all programs needs a proof, below; `OneMovePerInput`,
`MappedIsCurrent` and `NoPanic` do not hold of every program (see the findings
and the smaller differences), and are checked of this one. `NoPanic` says of this
program no more than that: its `_catch` always has bytecode and it never goes deeper
than `MaxLevel`. With `_catch` in `Lost`, or a `MaxLevel` of 1, the same run finds
`NoPanic` violated, so the panics at `state.go:297` and `state.go:290` are in the model
and are hazards that no property covers.

The program of the engine runs is smaller, since every turn of it meets every
state of the engine: a root that loads, a node whose function fails or ends the
session, a node of several pages that may be missing (`Lost`). It has no CROAK,
after which `InStep` does not hold. Every deployment is an instance of its own:
`conf` never changes. `DbFails` says which of the database calls
of `ensurePersist` may fail; that a read fails ("get") is only in `engine_lost`,
where it shows the finding. The engines are one after the other, not two at a
time.

In `Pages`, `U32` stands for 2^32, which is above TLC's integers; 1000 is above
all lengths and differences that occur, so that a subtraction wraps exactly when
it does in the code. `MaxPage` is 3, three pages or more being what a middle
page needs. Output sizes are 0 (no sizer) and from 6, where little but the menu
fits, to 14, where the shorter contents fit on one page and the longer need
several.
Contents of up to four lines are of lengths 0, 1 and 3, those of five to seven
lines of 1 and 2. In `Store`, `MaxPuts` is 2 different entries, overwritten any
number of times: enough for two keys to meet, and for a default and its
translation. The sessions and names of the instance are prefixes and suffixes of
each other; values are symmetric. The files laid out by hand are one of each
kind, with one translation. A store in memory begins empty and meets any two
entries; a directory or a table begins with one template, beside which any other
entry is put, or with five entries: data of two sessions one of which begins like
the other, and a template with its translation, so that a dump has to pass others
before and after its own. `Width` gives the letters two and
three characters, so that keys are on both sides of the six characters from which
`FromDbKey` looks for a language.

In `Bytecode` a byte has `Base` = 6 values where the code has 256: symbols of five
bytes then meet the limit of their length byte, numbers take one to four bytes, and
every byte of an argument may be read as a length, an opcode or a letter. There are
19 lines, one of each form of each instruction, NOOP included, and `MaxLines` = 3 of them, which
puts a line before, after and between two of a batch. A cut (`Cut`) takes any
number of bytes off the end.

Deadlock checking is off in the vm runs, where a session that has terminated,
failed or passed `MaxIdx` really stops, and in the bytecode run, which ends with
the code. Elsewhere a new engine or handle can always come.

Fairness. `WF_vars(VmStep)`: `Run` is a loop in one goroutine and does not block
between turns. Nothing is assumed of the client. `Returns` then says that every
run returns: failing bytecode retrieval, functions that fail for ever and the
moves to `_catch` do not keep the loop going. (A program that moves to itself
before a HALT does; that is the program's doing.) `EngineSpec` assumes the same
of a run and of the return from it, which are one call, and nothing of client,
`Flush` or `Finish`: `ExecReturns` says that every call is answered, for all the code
that init, first function, reset and a stored session leave. The one other way out
is a panic above `MaxLevel`, which the entry below an old path (finding 3) reaches
here after three nodes, in the code after 128.

## Findings

Each has a run that ends in a counterexample; `PROJECT.json` quotes the sentence
that the code does not keep.

1. `vm/runner.go:297` (`vm_croak`): CROAK resets the cache and not the path.
   Later ways up free one frame too many each.
2. `vm/runner.go:282` (`vm_leak`): CATCH does not reset page and menu; it may
   show a symbol that is not loaded any more.
3. `engine/db.go:451` (`engine_stale`): without kept code, `init` runs MOVE root
   on whatever path the session has. After a failed run, or an end saved before
   it was flushed, the entry point is entered below the old path.
4. `engine/db.go:252` (`engine_lost`): any error of Load is taken for a missing
   session, which is then overwritten by a new one.
5. `render/size.go:105` (`pages_past`): blank lines at the end of a sink leave a
   cursor behind the text; asking for that page panics.
6. `render/menu.go:170` (`pages_labels`): browse items are measured by their
   symbols and shown with their labels, so that a full page may not fit.

Smaller differences between documentation and code, met on the way and without
runs of their own:

* cache. `cache.go:61,108` truncate the length of a value to 16 bits before it is
  compared with the limit: 65537 bytes pass a limit of 2. `cache.go:207`: Check
  answers the opposite of its comment. `memory.go:33`: Pop does not fail on the
  top level. `cache.texi:57`: a second LOAD in an inner node is ignored, not an
  error.
* vm. `runner.go:384`: INCMP ignores the input only after a match that led
  nowhere, the documentation says after any match; two INCMP of one node with
  the same selector both match. `state.go:297`: a `_catch` without bytecode
  panics, `exceptions.texi:39` says execution is stuck. `state.go:290`: so does a
  program that goes down past `MaxLevel`. The branch of
  `vm.Render` for a `BrowseError` is never taken: the sizer refuses the index
  first (`NoBrowseError`).
* engine. `exceptions.texi:18` speaks of exit text instead of a page, Flush may
  write both. `exceptions.texi:59`: flags are not reset at the end, as Restart
  fails on the empty path. `exceptions.texi:64`: TERMINATE is cleared by the
  deferred calls of `runFirst`. `db.go:125`: a first function that fails is
  answered with (false, nil) and its node stays on the path. `ResetRoot` has no
  effect: the level of the root is popped in any case.
* render. An item too long for its page fails only when that page is reached.
  Next is reserved on the last page too (a comment at `page.go:261` says so).
  After CATCH the menu keeps its browse configuration and the disposal of its
  items, so that after a menu sink the next node shows none. The first menu of a
  vm lacks the configured separator. An error in front of a page takes room in
  this engine and not in the next, so that lines are skipped between the two. Nothing
  says how it should be: `PagesFit` and `ReadsAll` begin anew after a CATCH and at a page
  whose error is lost.
* engine, again. `engine/db.go:333`: Down and Up around the first function set the
  page index to 0, so that a new engine shows the first page of the node.
  `persist.go:106`: after a Save with flush, the last value and the limits of inner
  frames are still in the cache ("will be empty", `persist.go:89`).
* resource. `resource/db.go:104`: a label whose lookup fails otherwise than by "not
  found" is shown blank.
* db. The keys of `db.go` keep sessions and types apart only under conditions: no
  session contains ".", no key does if there is a session "", and no key ends in
  "_" and a language code. `db.go:123`: FromDbKey takes any "_" and three characters
  off a translated type (the template `new_pin` decodes to `new`, and a dump ends
  there), and a language off no key of two letters. `postgres/pg.go:162`: no default
  is looked for when there is no translation. `postgres/dump.go` neither filters
  by prefix nor orders, `mem/dump.go` never advances.
* db/fs. `fs.go:178`: the names of files laid out by hand have no type but for code,
  so that a Get of the symbol `foo` is answered by the template `foo` before the
  text `foo.txt`. Translations are looked for as `foo_menu_nor` and `foo.txt_nor`,
  not `foo_nor_menu` and `foo_nor.txt` (`dev.texi:156`). `fs/dump.go:86`: a dump ends
  at the first file that does not match, a translation without default included.
* db/log. `log.go:149`: an entry is decoded with the session of the handle. Under any
  other session that is an error; without one `DecodeKey` succeeds and the slice at
  `log.go:153` is out of range, which panics (`LogTells` states both). The session of an
  entry that has a language is wrong.
* asm and vm. `vm.go:215`: `1+sz` is computed in a byte, so a symbol of 255
  bytes, which `writeSym` accepts and `dev.texi:327` allows, panics. `vm.go:193`: a
  short buffer panics. `debug.go:186`: the errors of arguments are shadowed and
  dropped, cut code disassembles without one (`debug.go:169`). `asm.go:229`: the error of
  a last symbol that is too long is dropped. `asm.go:410`: the bytes of the last batch are
  counted twice. A second batch writes the items of the first again. A selector
  "00" becomes "0". A missing size or flag panics. `debug.go:184`: the switch of
  `ParseAll` has no case for NOOP, so that a listing leaves it out, though "all
  instructions" have an assembly line (`debug.go:151`); assembled again, its two bytes
  are gone.
* examples of bytecode in `dev.texi`. `dev.texi:338`, `339`: MOUT and INCMP have
  their selector first; the code writes and reads it behind the label or node.
  `dev.texi:340`: the flag of CATCH lacks its length byte (`01 01 01`, of which the last is
  the mode). `dev.texi:342`: the size 0 is one byte `00`; `writeSize` writes `01 00`
  (`asm.go:309`). Both are read as 0.

## Proofs

For every value of the constants that meets the named assumptions
(`CacheAssumption`, `StateAssumption`, `VmAssumption`, `LimitsAssumption`,
`EngineAssumption`, `PagesAssumption`, `StoreAssumption`, `BytecodeAssumption`, `LineAssumption`;
among them: bytecode consists of well formed instructions and functions return
results; `_catch` is a node and no relative target; the constant for "no symbol" is
not a symbol; words are not longer than their length byte counts) TLAPS proves the
following. Where a theorem needs more of the program that is run, or of the callers, it
says so in its ASSUME, TLC evaluates that for the instance of the runs, and a run of its
own or the list above shows what happens without.

**Cache** (`CacheProofs`). `OneFrame` and `LimitsNeverLost` are inductive only
together (`IInv`): Pop deletes the limits of the frame it frees, and that none of
them belongs to a symbol in a frame below is the other invariant. On them rest
`CacheTyped`, `BytesCounted` and `CapacityKept` (the counter is the sum of the
lengths in the frames, `BytesInv`), `LimitsKept`, and `MemoryImplemented`: every
call is a call of `Memory`, under the mapping of a symbol to its frame's level,
value and limit, or leaves it alone. The last two assume `ShortValues`, that every
length fits 16 bits: the code compares lengths modulo 2^16 (see the smaller
differences), and without this they are false.

Sums are folds, recursive over the set that is summed. What they compute is shown in
`SumLemmas` without the induction theorems of the library, whose operator
parameter the provers cannot instantiate: the set of subsets on which the fold
is not what it should be is a subset of the finite sets, strict inclusion is
well founded on these, so if there is a counterexample there is a minimal one, and
there is no minimal one.

**Vm** (`VmProofs`). `WellFormed`, `NothingOutlivesItsNode`,
`YieldsForAReason` and `FailuresAreCaught` hold for every program. Their inductive
invariant (`IInv`, checked by TLC before it was proved) adds to the properties

* `Scoped`: a symbol in frame i that was loaded at path h has at least as many
  nodes above h as there are frames above i, and h agrees with the path. That
  frames and nodes correspond one to one is the natural guess and is false
  after a CROAK; the inequality survives it and is enough for `ScopeHeld`.
* `Flow`: no code is in the state during a run, a run that finds TERMINATE set
  does not wait, and code is only kept of sessions that are not over.

`Good` is `IInv` for the machine state in the middle of a turn; one lemma per
opcode says that it is kept, `CheckedGood` does it for the checks after the
opcode, `TurnIInv` and `BecomesIInv` bring it back to the variables.

`NothingIsLostEarly` is the other half of a symbol's lifetime, and is proved for
programs without CROAK (`NoCroak`); with one it is false, as `vm_croak` shows. Its
invariant (`DInv`) is the natural guess: one level for every node of the path and one
below (`Deep`), and every symbol at the level of the node it was loaded at
(`AtHome`). The second half of `VmProofs` has the lemmas it needs, one per opcode: path and cache move
together, whether the instruction succeeds or not (`Together`), and the code that is
left is a rest of that of the node, or the code of the node reached.

Three properties of the vm are promises to authors of nodes that only some programs
get. What they must do is a predicate on the bytecode of one node, at the end of `Vm`,
and the theorems hold for every program all of whose nodes meet it, although at run
time the code of nodes is put behind one another, cut short and replaced:

* `OneInputOneMove` (`OneMovePerInput`): nodes ask for input before they compare it
  (`AsksFirst`), and compare a selector once between two HALTs, none after the
  wildcard (`ComparesOnce`). The invariant `OnceInv` is that after an INCMP was
  followed no other one before the next HALT is for this input (`Quiet`), neither in
  what is left of the code nor in what the nodes reached add to it, and that no
  instruction and no function clears INMATCH meanwhile (`Steady`).
* `MappedStaysCurrent` (`MappedIsCurrent`): after a MAP or RELOAD comes a HALT, and
  before it no CATCH and no MOVE up (`ShowsMapped`). A CATCH keeps page and menu, and
  a MOVE up frees a level before it knows whether there is code; in both cases the
  page of the node that was left goes on being the page. `MapInv` is that what is
  mapped is in the cache with its value and that the code goes on to the HALT that
  shows it, or to `_catch`; with one symbol loaded or reloaded all others keep frame
  and value (`Has`). `vm_leak` is a program that is not like this.
* `MenusAreAnswered` (`MenuAnswerable`): behind a MOUT comes a HALT, no CATCH before it
  and an INCMP for its selector, or the wildcard, behind it (`AnswersMenu`). `AnsInv`
  says so of what is in the menu and the code that is left.

`TailShows`, `ConcatShows` and their like say that what holds of two pieces of code
holds of the rest of one and of one behind the other; `PageStep` what each opcode does to
page and menu, one lemma per opcode. The program of the run `vm` meets the predicates and
that of `vm_leak` does not (`ProgramsAsked`).

**Engine** (`EngineProofs`), for every set of deployments, over any number of
engines, losses and failing database calls. `EIInv` says of the state between the
runs, of every intermediate result of a call of Exec and of the stored session
what `IInv` says during a run, and besides that the code in use belongs to the node
(`RunBelongs`) and how the engine's fields agree with the run. `Now` is the state as
the record that the operators of `Engine` work on; there is one lemma for each
operator that is a part of `EngineExec` (`Prepared`, `RunFirst`, `EngineReset`, ...)
and one per action. From `EIInv` follow `EngineTyped`, `ScopeAcrossSessions`,
`YieldsForOneReason`, `KeptCodeBelongs` and `FlushedSessionsGoOn`;
`LevelsFollowPath` needs `NoCroak` again. `OnlyLoadersReplace` assumes that no
deployment has failing reads: with them the finding of `engine_lost` is the
counterexample. `CheckpointImplemented` assumes this too, that a deployment with a
persister does not reset on empty input (a reset replaces the session in place, which
is no step of a checkpoint), and that the constant `NoSession` is not a session.

**Pages** (`PagesProofs`), for all nodes, contents and output sizes below 2^32.
`OfferedPagesFit` says that what `Page.joinSink` reserves for the browse items
is what they take: every first page can be shown, and every page that the one before
or after offers, unless some line is longer than the room `LinesFit` leaves. It assumes
`LabelsAsSymbols`, that the label of a browse item is as long as the symbol it was
measured by; without that it is false, as `pages_labels` shows. The argument has three
parts. `JoinSinkFits`: on no page do the lines joined take more than the net room, the
way back taken off from the second page on; a state of joining that `Fits` still does
after a line more (`JoiningFits`), and a first line at which it does not is
impossible (`JoinsFit`). No subtraction wraps, as all output sizes are below 2^32.
`RoomyFits`: lines, menu and the browse items really offered on page i are then within
the limit, for the first, a middle and the last page. And the invariant `PagesInv`: what
Flush finds after a Vm.Reset is exactly what the node gave (`Loaded`), and an offer
made by one page (`shown.next`) is kept until the page is asked for, as the same lines
are split again (`PageThere`). A CATCH, after which page and menu keep what they had, and
an error that the next engine does not show, end such an offer (`how.same`): of what a
page looks like then (`menu.go:300`, `runner.go:205`) neither theorem says anything.
`MenuIsNeverOutOfRange` follows from the cursors: a split has one for every page, or
one more (`CursorsAre`, `AtIs`); the one more is the panic of `pages_past`.
`PagesTypeCorrect` is the rest of the invariant.

`BrowsingReadsAll` is that nothing is lost: who goes on from the first page of a node
until no next is offered has seen every line that is not blank once, and all in order,
whatever the labels. `Ordered` says of a state of joining that the first k lines are
on its pages in order, the open page last; a line put (`OrderPut`), a blank line
skipped (`OrderSkip`) and a page begun (`OrderBegun`) keep it, so where the joining
succeeds the pages have all lines (`JoinSinkOrder`). `AsRead`, the part of `PagesInv`
about the client, says that the lines seen are those of the pages up to this one
(`ReadTo`), which a page more keeps (`ReadNext`); and the page that offers no next is
the last (`Shows`).

**Store** (`StoreProofs`), for all three stores and whatever an earlier process
put. `StoreTypeCorrect` and `SealIsPermanent` follow from the invariant that a
handle is what its calls make of it and a sealed one protects all read-only types
(`SIInv`). `KeysArePartitioned`, `ResourceAnswersAlike`, `LogIsTrue` and
`DumpsAreComplete` are proved under `KeysApart`, which says what callers owe and no
code checks: sessions and names have no separator in them, names do not end like a
translation or a file, and no file laid out by hand has the name of a translated
label. (Without it they are false, see the smaller differences; TLC evaluates it for the
instance.) `LogIsTrue` says exactly what each
reader of an entry gets: the put, for the session that put it, an error for any other,
and the panic for a handle without session. Their invariant
(`Placed`) is that the store has exactly what was put, each entry at the key of its
address, and that the handle has the session set last. What keeps it is
`KeysDiffer`: different addresses have different keys, since the first separator of
a text tells where its session ends (`OneOwner`, `OneSplit`), and the end of a text
tells its language. `GetAnswers` then takes a Get through translation, default and
files for each store.

`DumpsAreComplete` stands on the same invariant, and on there being finitely many
files. `ReadDir` gives each file the place that the number of files before it says,
which is one order of all of them because `Before` is a strict total order
(`KeysOrdered`, `InOrder`); this takes that ranks tell tokens apart and that a token
is ranked wherever it is used (`DumpAssumption`). A dump is a run of neighbours there,
and it has all that matches if a file between two that match matches
(`Together`). That is where the code relies on the order of names: text between two that
begin alike begins like them (`BetweenBeginsAlike`), so what lies between two keys of a
session is of that session and begins with the prefix; and what begins so belongs to the
session and not to one whose name is longer, by `KeysApart`. Then entries and keys are
one to one, and `GetAnswersFor` gives the values. The property is about prefixes of one
token at most, and says nothing of a dump that asks for a key that looks like a
translation (`Decodes`), for an entry that a Get does not find, or for a name that a
file laid out by hand for another type has (`Own`). `Rank` compares tokens as
the code compares their first differing bytes, so no token may begin like another as a
whole; the separator, languages and tails have ranks as letters do.

**Bytecode** (`BytecodeProofs`). `BytesOnly`, `DisassemblyEnds` and
`InstructionReadBack`. The first needs that every writer gives bytes (`LineIsWord`),
the second that no parser leaves more than it was given (`SplitsRead`, `ArgsRead`).
The third is the round trip: `opSplit` and the parsers of an instruction, given what
`parseOne` writes for a line and then any bytes, give the line's opcode and
arguments and leave those bytes. It is proved for every `Base` and every `Regular`
line: one that is no batch instruction and whose symbols are neither empty nor of the
greatest length (see the smaller differences). Numbers are the hard part: that the
shortest big-endian form of a number is read back is arithmetic with quotients, done
once in `FourDigits` and `BytesOfNumber`.

`PrefixIsRead`, `WrittenIsRead` and `ReadReassembles` are about whole sources, of any
length. They compare what `ParseAll` writes, in which there is nothing for a NOOP, with
the listing of what the source stands for (`Listing`), which passes over NOOPs in the
same way; `ListedTo` counts what is listed of the first instructions. `Codes(R, w, ls)`
says that the bytes w are instructions, one for each of ls and related to it by R; it is
kept by what is put behind (`CodesConcat`). What `Expand` gives for a source with a line more is `ExpandAppend`, for the batch `ExpandBatch`: items,
HALT and comparisons are maps of the menu. With it `WrittenInv` follows the assembler:
what it has written, and will write for the open batch, is `Codes` of what the source
stands for. `PartInv` follows the disassembler on bytecode that may have lost its end: a
turn that succeeds reads the next of the instructions and one that fails adds nothing.
`WholeInv` follows it on all of the bytecode, where no turn fails. The relation R is what
one instruction is proved to be: of bytes of which a beginning is read as the same
instruction or not at all (`Meant`), of bytes that are read (`MeantWhole`), and of lines
that print as what is written as the same bytes (`MeantBack`). That `FlattenSeq` of the
written lines is one behind the other is `FlattenIs`. There is no induction in it but that
of the steps, and minimal counterexamples as in `SumLemmas`.

These three ask of the lines what the manual says of them and the assembler does not
test. `Proper`: exactly the arguments of the instruction, and no word of a batch, or of
RELOAD, MAP and MOVE, longer than its length byte counts (the others refuse it). A MOUT
whose symbol is `*` would be written with the `*` for selector. `Filled`: no
word is empty, for the disassembler refuses a symbol of length 0. `Rewritable`:
the mode of CATCH and CROAK is 0 or 1, any other is printed as 1, and a batch has no `*`
where the assembler would take it for a selector. And `ReadReassembles` is about
sources without NOOP, since a NOOP is lost in the listing. TLC checks that the lines of the run
are such lines (`LinesAreProper`).

Only model-checked: `Returns` and `ExecReturns`, which are liveness; `NoPanic` and
`RestartsOnEmpty`, which hold of the programs of the runs: that `_catch` has bytecode
whenever it is needed is up to the deployment, and that the path does not
outgrow its limit depends on which nodes lead to which, with the code that earlier nodes
left in between.

## Not modelled

`lang` looks up ISO codes, `debug` prints a graph of nodes, the tools in `dev` are
command lines around the packages modelled here, and `slog` logs: none keeps state
between calls. Of `asm`, the grammar is read by an external parser, whose results
are the lines of `Bytecode`, and `flag.go` reads names of flags from a table. Of
`persist`, `WithFlush` and a persister object that several engines use are left
out: what is left in such an object after a Load depends on how the CBOR library
fills existing maps and slices. Of `resource`, gettext, which reads its
translations with an external library, and the replacing of single getters. Of
`db`, base64 keys of files, dumps of the other two stores, the writing of the log,
and connections that fail. Of `render`, `split.go`, which only tests use. Two
goroutines on one handle, one cache or one session are not modelled; nothing in
the code locks a handle or a session.

## Plan

1. done: cache and its promise, state, vm; engine and its checkpoint, and that its
   calls return; pages; stores, dumps and log entries; bytecode.
2. done: the proofs above. Next: a condition on which nodes lead to which, under which
   `NoPanic` and `RestartsOnEmpty` can be proved.
3. An abstract specification of what a client sees (a page per input until the
   session ends, then the entry point) for `Engine` to implement.
4. `WithFlush` and reused persisters; two goroutines on a shared handle, set and get
   as steps of their own; two engines on one session.

Not planned: lang, debug, dev tools, logging.
