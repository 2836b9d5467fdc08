------------------------------ MODULE MCCache -------------------------------
(* A small instance of Cache. The lengths are chosen around the capacity    *)
(* and the limits.                                                          *)
EXTENDS Cache

CONSTANTS e, a, b, c   \* contents

ShortSize == (e :> 0) @@ (a :> 1) @@ (b :> 2) @@ (c :> 3)
=============================================================================
