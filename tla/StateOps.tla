------------------------------ MODULE StateOps ------------------------------
(***************************************************************************)
(* The methods of state.State (src/state/state.go) as operators on a       *)
(* record                                                                  *)
(*                                                                         *)
(*   path  : ExecPath, the stack of nodes, current node last               *)
(*   idx   : SizeIdx, page of the current node                             *)
(*   flags : the set of flags whose bit is 1                               *)
(*   input : latest client input, NoInput where the code has nil           *)
(*   lang  : Language, NoLang where the code has nil                       *)
(*   code  : Code, the bytecode kept until the next input                  *)
(*                                                                         *)
(* Moves and lastMove are left out: the vm and the engine only write them. *)
(***************************************************************************)
EXTENDS Integers, Sequences, SequencesExt

CONSTANTS Node,       \* node symbols
          NoSym,      \* the symbol ""
          UserFlag,   \* flags from FLAG_USERSTART up
          NoInput,    \* no input recorded: nil
          EmptyInput, \* the input ""
          NoLang,     \* no language set: nil
          MaxLevel,   \* state.MaxLevel
          IdxMod      \* 2^16, SizeIdx is a uint16

BaseFlag == {"READIN", "INMATCH", "WAIT", "LOADFAIL",
             "DIRTY", "RESERVED", "TERMINATE", "LANG"}

ASSUME StateAssumption ==
  /\ UserFlag \cap BaseFlag = {}
  /\ NoSym \notin Node
  /\ MaxLevel \in Nat
  /\ IdxMod \in Nat \ {0}

Flag == BaseFlag \cup UserFlag

\* IsWriteableFlag: what external code may set and reset.
Writeable == UserFlag \cup {"TERMINATE", "LANG"}

NewState == [path |-> <<>>, idx |-> 0, flags |-> {}, input |-> NoInput,
             lang |-> NoLang, code |-> <<>>]

SetFlag(st, f) == [st EXCEPT !.flags = @ \cup {f}]
ResetFlag(st, f) == [st EXCEPT !.flags = @ \ {f}]
MatchFlag(st, f, set) == (f \in st.flags) = set

Where(st) == IF st.path = <<>> THEN NoSym ELSE st.path[Len(st.path)]
Top(st) == Len(st.path) = 1

\* Down panics above MaxLevel and when the node would be entered from itself.
DownPanics(st, node) == Len(st.path) > MaxLevel \/ Where(st) = node
Down(st, node) == [st EXCEPT !.path = Append(@, node), !.idx = 0]

\* Fails on an empty path only.
Up(st) == [st EXCEPT !.path = SubSeq(@, 1, Len(@) - 1), !.idx = 0]

\* Mutant: the page before the first one is looked for.
AtFirstIdx_Never(st) == FALSE

\* Previous fails here.
AtFirstIdx(st) == st.idx = 0

NextIdx(st) == [st EXCEPT !.idx = (@ + 1) % IdxMod]
PreviousIdx(st) == [st EXCEPT !.idx = @ - 1]

\* Fails without effect on an empty path.
Restart(st) ==
  IF st.path = <<>> THEN st
  ELSE [st EXCEPT !.flags = @ \cap UserFlag, !.idx = 0, !.input = EmptyInput,
                  !.path = SubSeq(@, 1, 1)]
=============================================================================
