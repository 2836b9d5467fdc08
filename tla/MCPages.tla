------------------------------- MODULE MCPages -------------------------------
(* Instances of Pages: contents of up to seven lines, some of them blank,   *)
(* menus of up to four items, with and without browse items.                *)
EXTENDS Pages, TLC

CONSTANT NoSink

Some(m, n, S) == UNION {[1 .. k -> S] : k \in m .. n}

Contents == Some(1, 4, {0, 1, 3}) \cup Some(5, 7, {1, 2})

NodeOf(fixed, content, items, next, prev, msink) ==
  [fixed |-> fixed, content |-> content, items |-> items,
   next |-> next, prev |-> prev, msink |-> msink]

Plain    == NodeOf(1, NoSink, <<2>>, FALSE, FALSE, FALSE)
Menu     == NodeOf(1, NoSink, <<1, 3, 1>>, TRUE, TRUE, TRUE)
Both     == NodeOf(1, <<1, 3>>, <<2>>, TRUE, TRUE, TRUE)

MCTargets == {Plain, Menu, Both}

MCNodes ==
  {NodeOf(1, c, <<2>>, TRUE, TRUE, FALSE) : c \in Contents}
    \cup {NodeOf(1, c, <<>>, TRUE, FALSE, FALSE) : c \in Some(1, 3, {0, 1, 3})}
    \cup {NodeOf(1, NoSink, c, TRUE, TRUE, TRUE) : c \in Some(1, 4, {1, 3})}
    \cup MCTargets
=============================================================================
