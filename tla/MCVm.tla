-------------------------------- MODULE MCVm --------------------------------
(* Small instances of Vm: a menu of four nodes that uses every opcode and   *)
(* every relative target.                                                  *)
EXTENDS Vm

CONSTANTS v0, v1, v2,   \* contents of 0, 1 and 2 bytes
          x, y,         \* symbols
          uf            \* a client flag

MCSize == (v0 :> 0) @@ (v1 :> 1) @@ (v2 :> 2)

Gives(v, set, reset) ==
  [fail |-> FALSE, found |-> TRUE, content |-> v, set |-> set, reset |-> reset]
Error == [fail |-> TRUE, found |-> TRUE]

\* x changes and raises or lowers the client flag, y may fail or terminate.
MCExt == (x :> {Gives(v1, {}, {uf}), Gives(v2, {uf}, {}), Gives(v0, {"READIN"}, {})})
      @@ (y :> {Gives(v2, {}, {}), Gives(v2, {"TERMINATE"}, {}), Error})

CatchCode == <<MOUT("0"), HALT, INCMP("_", "0")>>

\* CROAK is met while no input is being read, and terminates.
MenuCode ==
  ("root" :> <<LOAD(x, 2), MAP(x), MOUT("1"), MOUT("2"), HALT, INCMP("foo", "1"),
               INCMP("bar", "2"), INCMP(".", "3"), INCMP("_", "0")>>)
  @@
  ("foo" :> <<CATCH("bar", uf, TRUE), MOUT("3"), LOAD(y, 0), MAP(y), MSINK,
              MNEXT("2"), MPREV("1"), MOUT("0"), HALT, INCMP(">", "2"),
              INCMP("<", "1"), INCMP(".", "3"), INCMP("_", "0")>>)
  @@
  ("bar" :> <<MAP(x), RELOAD(x), MOUT("0"), MOUT("2"), CROAK(uf, FALSE), HALT,
              INCMP("^", "0"), INCMP("_", Wildcard)>>)
  @@
  ("_catch" :> CatchCode)

\* CROAK is met while an input is being read, and execution goes on at _catch.
CroakCode ==
  ("root" :> <<LOAD(x, 2), MOUT("2"), HALT, INCMP("bar", "2")>>)
  @@
  ("bar" :> <<LOAD(x, 2), MOUT("0"), HALT, INCMP("^", "0"), CROAK(uf, FALSE)>>)
  @@
  ("_catch" :> CatchCode)

\* CATCH is met with a symbol mapped.
LeakCode ==
  ("root" :> <<MOUT("1"), HALT, INCMP("foo", "1")>>)
  @@
  ("foo" :> <<LOAD(x, 2), MAP(x), CATCH("_", uf, TRUE), HALT, INCMP("_", Wildcard)>>)
  @@
  ("_catch" :> CatchCode)

\* The menu program meets what the properties ask of bytecode; the program in
\* which a symbol is mapped before a CATCH does not.
ASSUME ProgramsAsked ==
  /\ \A n \in DOMAIN MenuCode :
       /\ ComparesOnce(MenuCode[n]) /\ AsksFirst(MenuCode[n])
       /\ ShowsMapped(MenuCode[n]) /\ AnswersMenu(MenuCode[n])
  /\ ~ShowsMapped(LeakCode["foo"])
=============================================================================
