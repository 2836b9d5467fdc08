----------------------------- MODULE MCBytecode -----------------------------
(* Instances of Bytecode with bytes of six values, so that symbols meet the  *)
(* limit of their length byte, numbers take one to four bytes and a length   *)
(* byte may be read as a letter, a digit or an opcode.                       *)
EXTENDS Bytecode, TLC

MCWild      == <<1>>
MCUp       == <<2>>
MCNext     == <<3>>
MCPrevious == <<4>>

MCNumber  == {0, 1, 7, 36, 1295}
MCDecimal == (0 :> <<0>>) @@ (1 :> <<0, 1>>) @@ (7 :> <<0, 5>>) @@ (36 :> <<0, 0, 0>>)
               @@ (1295 :> <<0, 2, 3, 4>>)

Short == <<5>>
Long  == <<5, 1, 2, 3>>  \* one below the greatest length
Most  == <<5, 5, 5, 5, 5>>

Sym(op, s)          == Arg(op, s, Absent, Absent, Absent, Absent)
Sized(op, s, n)     == Arg(op, s, n, Absent, Absent, Absent)
Two(op, s, t)       == Arg(op, s, Absent, Absent, t, Absent)
Bare(op)            == Arg(op, Absent, Absent, Absent, Absent, Absent)

Common == {Arg("CATCH", Short, 36, 1, Absent, Absent), Arg("CROAK", Absent, 7, 0, Absent, Absent),
           Sized("LOAD", Long, 0), Sized("LOAD", Short, 1295), Sym("MOVE", Long), Sym("RELOAD", Most),
           Bare("HALT"), Bare("NOOP"), Sized("INCMP", Short, 7), Two("INCMP", MCWild, Long),
           Two("MOUT", Short, Long), Sized("MNEXT", Long, 1)}
Batches == {Arg("DOWN", Short, 1, Absent, Long, Absent), Arg("DOWN", Long, Absent, Absent, Short, <<4, 4>>),
            Arg("UP", Absent, 0, Absent, Short, Absent), Two("NEXT", Short, Long),
            Arg("PREVIOUS", Absent, 36, Absent, Short, Absent),
            Arg("UP", Short, 1, Absent, Long, Absent)}
TooLong == Two("MOUT", Short, <<5, 5, 5, 5, 5, 5>>)

MCLine == Common \cup Batches \cup {TooLong}

ASSUME LinesAreProper == \A l \in MCLine : Proper(l) /\ Filled(l) /\ Rewritable(l)
=============================================================================
