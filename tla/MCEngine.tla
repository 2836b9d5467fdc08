------------------------------ MODULE MCEngine ------------------------------
(* Instances of Engine: a menu with a node that ends the session, one of    *)
(* several pages, and a function that fails or terminates.                  *)
EXTENDS Engine, TLC

CONSTANTS v0, v1, v2,   \* contents of 0, 1 and 2 bytes
          sx, sy,        \* symbols
          uf            \* a client flag

MCSize == (v0 :> 0) @@ (v1 :> 1) @@ (v2 :> 2)

Gives(v, set) ==
  [fail |-> FALSE, found |-> TRUE, content |-> v, set |-> set, reset |-> {}]
Error == [fail |-> TRUE, found |-> TRUE]

MCExt == (sx :> {Gives(v1, {})})
      @@ (sy :> {Gives(v2, {}), Gives(v2, {"TERMINATE"}), Error})

MenuCode ==
  ("root" :> <<LOAD(sx, 2), MAP(sx), MOUT("1"), MOUT("2"), HALT,
               INCMP("foo", "1"), INCMP("bar", "2")>>)
  @@
  ("foo" :> <<LOAD(sy, 0), HALT>>)
  @@
  ("bar" :> <<MOUT("0"), HALT, INCMP(">", "1"), INCMP("<", "2"), INCMP("_", "0")>>)
  @@
  ("_catch" :> <<MOUT("0"), HALT, INCMP("_", "0")>>)

\* The first function lets the session go on, blocks it, or fails.
MCGuard == {Gives(v1, {uf}), Gives(v2, {"TERMINATE"})}
MCFirst == MCGuard \cup {Error}

Deployed(p, e, first, fails) ==
  [persisted |-> p, resetOnEmpty |-> e, resetRoot |-> e, first |-> first, dbFails |-> fails]

\* Engines with a persister and a first function, one after the other; engines
\* without a persister, one at a time, that empty inputs start over.
MCConfigs == {Deployed(TRUE, FALSE, MCFirst, {"put", "again"}), Deployed(FALSE, TRUE, MCGuard, {})}

\* No first function, and a database that does not fail, or fails to answer a get.
Plain == {Deployed(TRUE, FALSE, {}, {})}
Deaf  == {Deployed(TRUE, FALSE, {}, {"get"})}
=============================================================================
