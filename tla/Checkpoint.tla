----------------------------- MODULE Checkpoint -----------------------------
(***************************************************************************)
(* What engine and persister together promise about a session that is kept *)
(* between processes (src/persist/persist.go, and the interface in         *)
(* src/engine/engine.go): an engine works on a copy of what was saved last,*)
(* only an engine that took the copy replaces it, with what became of the  *)
(* copy, and a session that is over stays over. Module Engine implements   *)
(* this.                                                                   *)
(***************************************************************************)
CONSTANTS New,   \* a session that was never used
          None   \* no session

VARIABLES saved, \* the session stored
          work   \* the session of the engine in use

vars == <<saved, work>>

Init == saved = None /\ work = None

\* The first engine saves the new session before it uses it.
Create == saved = None /\ saved' = New /\ work' \in {None, New}

Open == saved # None /\ work = None /\ work' = saved /\ UNCHANGED saved

\* Any call on the engine.
Use == /\ work # None /\ work' # None
       /\ work.over => work'.over
       /\ UNCHANGED saved

Save == work # None /\ saved' = work /\ UNCHANGED work

\* The engine is gone, saved or not.
Drop == work' = None /\ UNCHANGED saved

Next == Create \/ Open \/ Use \/ Save \/ Drop

Spec == Init /\ [][Next]_vars
=============================================================================
