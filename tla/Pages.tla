-------------------------------- MODULE Pages --------------------------------
(***************************************************************************)
(* Rendering in pages: render.Page, render.Menu and render.Sizer           *)
(* (src/render/page.go, menu.go, size.go), as the vm uses them while a     *)
(* client browses the pages of a node.                                     *)
(*                                                                         *)
(* Text is abstract: a line is its length, and what is shown of a content  *)
(* are the numbers of its lines. A node is what its bytecode gives to page *)
(* and menu:                                                               *)
(*                                                                         *)
(*   fixed   : length of the template with all but the sink filled in      *)
(*             (it is not empty)                                           *)
(*   content : the lines of the sink mapped, or None                       *)
(*   items   : the lines that MOUT puts in the menu                        *)
(*   next, prev, msink : whether MNEXT, MPREV and MSINK are there          *)
(***************************************************************************)
EXTENDS Integers, Sequences, SequencesExt

CONSTANTS Nodes,    \* nodes where the session may be
          Targets,  \* nodes it moves to
          None,     \* no sink
          Sizes,    \* possible values of Config.OutputSize
          NextSize, \* length of the rendered next item
          PrevSize, \* and previous item
          NextSym,  \* length of the next item with the symbol for a label
          PrevSym,  \* and previous item
          ErrSize,  \* length of an error as it is shown
          U32,      \* 2^32, or any number above all lengths
          MaxPage   \* no input is given at a page above it

Lines == Seq(Nat)

ASSUME PagesAssumption ==
  /\ Targets \subseteq Nodes
  /\ \A n \in Nodes : /\ n.fixed \in Nat \ {0}
                      /\ n.content = None \/ n.content \in Lines \ {<<>>}
                      /\ n.items \in Seq(Nat \ {0})
                      /\ {n.next, n.prev, n.msink} \subseteq BOOLEAN
  /\ {NextSize, PrevSize, NextSym, PrevSym, ErrSize, U32, MaxPage} \subseteq Nat
  /\ Sizes \subseteq Nat /\ \A x \in Sizes : x < U32

VARIABLES size,  \* Config.OutputSize; no sizer is used if it is 0
          node,  \* the node of the session
          idx,   \* State.SizeIdx
          pg,    \* render.Page: [content, extra, err]
          crsrs, \* Sizer.crsrs, as numbers of pages instead of their offsets
          mn,    \* render.Menu: [items, next, prev, pageCount, sink, keep]
          shown, \* what was rendered last
          seen,  \* history: lines shown going forward from the first page
          how    \* history: the way to this page, [forward, offered, same]; same
                 \* says that the next page will be split from the same lines

vars == <<size, node, idx, pg, crsrs, mn, shown, seen, how>>

Sub32(a, b) == (a - b) % U32

\* Bytes of some lines with a newline before each, as menus are appended.
Appended(ls) == SumFunction(ls) + Len(ls)

\* Bytes of the lines ns of ls with a newline or NUL between them.
Joined(ls, ns) ==
  IF ns = <<>> THEN 0 ELSE Appended([i \in DOMAIN ns |-> ls[ns[i]]]) - 1

-----------------------------------------------------------------------------
(* The page and menu in the making: o = [pg, crsrs, mn].                   *)

NewPage == [content |-> None, extra |-> FALSE, err |-> FALSE]

NewMenu == [items |-> <<>>, next |-> FALSE, prev |-> FALSE, pageCount |-> 0,
            sink |-> FALSE, keep |-> TRUE]

NewVm == [pg |-> NewPage, crsrs |-> <<>>, mn |-> NewMenu]

\* Mutant: the cursors stay.
Cleared_KeepsCursors(o) ==
  [o EXCEPT !.pg.content = None, !.pg.extra = FALSE, !.mn.items = <<>>, !.mn.sink = FALSE]

\* Page.Reset and Menu.Reset, at the head of Run after a HALT. The error, the
\* browse configuration, the page count and keep stay.
Cleared(o) == [pg    |-> [o.pg EXCEPT !.content = None, !.extra = FALSE],
               crsrs |-> <<>>,
               mn    |-> [o.mn EXCEPT !.items = <<>>, !.sink = FALSE]]

\* Vm.Reset, when a MOVE or INCMP has led to a node.
Fresh(o) == [Cleared(o) EXCEPT !.mn = NewMenu]

\* MAP, MOUT, MNEXT, MPREV and MSINK of a node.
Filled(o, n) ==
  [o EXCEPT !.pg.content   = n.content,
            !.mn.items     = @ \o n.items,
            !.mn.next      = @ \/ n.next,
            !.mn.prev      = @ \/ n.prev,
            !.mn.sink      = n.msink,
            !.mn.pageCount = IF n.msink /\ @ = 0 THEN 1 ELSE @]

-----------------------------------------------------------------------------
(* Menu.Render(idx).                                                       *)

\* applyPage.
InRange(m, i) == IF m.pageCount = 0 THEN i = 0 ELSE i < m.pageCount
OffersNext(m, i) == m.pageCount > 0 /\ m.next /\ i # m.pageCount - 1
OffersPrev(m, i) == m.pageCount > 0 /\ m.prev /\ i # 0

MenuLines(m, i) == m.items \o (IF OffersNext(m, i) THEN <<NextSize>> ELSE <<>>)
                           \o (IF OffersPrev(m, i) THEN <<PrevSize>> ELSE <<>>)

Used(m) == IF m.keep THEN m ELSE [m EXCEPT !.items = <<>>]

-----------------------------------------------------------------------------
(* Page.joinSink: lines are put on a page until one does not fit.          *)

\* Menu.Sizes renders the browse items with their symbols in place of their
\* labels, for it makes a menu that has no resource. An item that is not there
\* takes its newline all the same.
NextReserve(m) == 1 + (IF m.next THEN NextSym ELSE 0)
PrevReserve(m) == 1 + (IF m.prev THEN PrevSym ELSE 0)

\* s: pages closed, the page open (blank lines of no length do not open one), its
\* length, what is left for lines, and whether all went well.
\* From the second page on there is also the way back. Mutant: not reserved.
Closed_NoPrev(s, back) ==
  [s EXCEPT !.pages = Append(@, s.open), !.open = <<>>, !.len = 0]

Closed(s, back) ==
  [s EXCEPT !.pages = Append(@, s.open), !.open = <<>>, !.len = 0,
            !.net = IF s.pages = <<>> THEN Sub32(@, back) ELSE @]

Put(s, i, l) ==
  IF s.open = <<>> /\ l = 0 THEN s
  ELSE [s EXCEPT !.open = Append(@, i),
                 !.len = @ + l + (IF s.open = <<>> THEN 0 ELSE 1)]

\* Mutant: the line that does not fit is dropped.
Joining_Drops(s, i, l, back) ==
  LET over == s.len + l > Sub32(s.net, 1)
  IN  IF ~s.ok \/ (over /\ s.open = <<>>) THEN [s EXCEPT !.ok = FALSE]
      ELSE IF over THEN Closed(s, back) ELSE Put(s, i, l)

Joining(s, i, l, back) ==
  LET over == s.len + l > Sub32(s.net, 1)
  IN  IF ~s.ok \/ (over /\ s.open = <<>>) THEN [s EXCEPT !.ok = FALSE]
      ELSE Put(IF over THEN Closed(s, back) ELSE s, i, l)

\* The pages, and how many were closed because of a line that did not fit. The
\* newline after a page that nothing follows is trimmed, its cursor stays.
JoinSink(ls, remaining, fwd, back) ==
  LET first == Sub32(remaining, 1)
      start == [pages |-> <<>>, open |-> <<>>, len |-> 0, ok |-> TRUE,
                net |-> IF Len(ls) > 1 THEN Sub32(first, fwd) ELSE first]
      after[k \in 0 .. Len(ls)] ==
        IF k = 0 THEN start ELSE Joining(after[k - 1], k, ls[k], back)
      s     == after[Len(ls)]
  IN  [ok     |-> s.ok,
       closed |-> Len(s.pages),
       pages  |-> IF s.open = <<>> THEN s.pages ELSE Append(s.pages, s.open)]

-----------------------------------------------------------------------------
(* Page.Render(idx), of the machine o.                                     *)

TemplateSize(o, n) == n.fixed + (IF o.pg.err THEN ErrSize + 1 ELSE 0)
                              + (IF o.pg.extra THEN 1 ELSE 0)

Nothing(kind) == [kind |-> kind, ls |-> <<>>, ns |-> <<>>, items |-> 0,
                  next |-> FALSE, prev |-> FALSE]

Outcome(o, page) == [o |-> o, page |-> page]

\* The template and menu at idx with the lines ns of ls; limit 0 is no limit.
Composed(o, n, ls, ns, i, limit) ==
  LET total == TemplateSize(o, n) + Joined(ls, ns) + Appended(MenuLines(o.mn, i))
      done  == [o EXCEPT !.mn = Used(@)]
  IN  IF ~InRange(o.mn, i)
      THEN Outcome(o, Nothing(IF o.mn.pageCount = 0 THEN "fail" ELSE "browse"))
      ELSE IF limit > 0 /\ total > limit THEN Outcome(done, Nothing("fail"))
      ELSE Outcome(done, [kind |-> "ok", ls |-> ls, ns |-> ns, items |-> Len(o.mn.items),
                          next |-> OffersNext(o.mn, i), prev |-> OffersPrev(o.mn, i)])

\* Without a sizer nothing is split.
Whole(o, n, i) ==
  LET ls == IF o.pg.content = None THEN <<>> ELSE o.pg.content
  IN  IF i > 0 THEN Outcome(o, Nothing("fail"))
      ELSE Composed(o, n, ls, [k \in DOMAIN ls |-> k], 0, 0)

\* prepare: the lines of the sink. As a sink, the menu is rendered to lines and
\* used up, now and from then on. No text at all is one line.
SinkLines(o) == IF o.mn.sink
                THEN IF MenuLines(o.mn, 0) = <<>> THEN <<0>> ELSE MenuLines(o.mn, 0)
                ELSE IF o.pg.content = None THEN <<>> ELSE o.pg.content

Prepared(o) == IF o.mn.sink
               THEN [o EXCEPT !.mn.items = <<>>, !.mn.keep = FALSE, !.pg.extra = TRUE]
               ELSE o

\* GetAt. A cursor beyond the text is out of range for Go.
At(o, n, ls, pages, i) ==
  IF ls = <<>> THEN Composed(o, n, ls, <<>>, i, size)
  ELSE IF i >= Len(o.crsrs) THEN Outcome(o, Nothing("fail"))
  ELSE IF o.crsrs[i + 1] > Len(pages) /\ i > 0 THEN Outcome(o, Nothing("panic"))
  ELSE Composed(o, n, ls, IF pages = <<>> THEN <<>> ELSE pages[o.crsrs[i + 1]], i, size)

Split(o, n, i) ==
  LET ls     == SinkLines(o)
      p      == Prepared(o)
      pre    == TemplateSize(p, n) + Appended(MenuLines(p.mn, 0))
      q      == [p EXCEPT !.mn = Used(@), !.crsrs = Append(@, 1)]
      join   == JoinSink(ls, size - pre, NextReserve(q.mn), PrevReserve(q.mn))
      r      == [q EXCEPT !.crsrs = @ \o [k \in 1 .. join.closed |-> k + 1],
                          !.mn.pageCount = Len(join.pages)]
  IN  IF o.mn.sink /\ o.pg.content # None THEN Outcome(o, Nothing("fail"))
      ELSE IF pre > size THEN Outcome(q, Nothing("fail"))
      ELSE IF ~join.ok THEN Outcome(q, Nothing("fail"))
      ELSE At(r, n, ls, join.pages, i)

Render(o, n, i) == IF size = 0 THEN Whole(o, n, i) ELSE Split(o, n, i)

-----------------------------------------------------------------------------
(* A client that browses.                                                  *)

Here == [pg |-> pg, crsrs |-> crsrs, mn |-> mn]

Becomes(o) == pg' = o.pg /\ crsrs' = o.crsrs /\ mn' = o.mn

\* Vm.Render, in Flush.
Flush ==
  /\ shown.kind = "none"
  /\ \E r \in {Render(Here, node, idx)} :
       /\ Becomes(r.o)
       /\ shown' = r.page
       /\ seen' = IF r.page.kind # "ok" \/ ~how.same THEN None
                  ELSE IF idx = 0 THEN r.page.ns
                  ELSE IF how.forward /\ seen # None THEN seen \o r.page.ns
                  ELSE None
  /\ UNCHANGED <<size, node, idx, how>>

\* The client has an answer, and there is an engine to take the next input.
Ready == shown.kind # "none" /\ (shown.kind = "panic" => Here = NewVm)

\* The run that the input starts ends in node n at page i.
Arrive(n, o, i, forward, offered, same) ==
  /\ node' = n /\ idx' = i
  /\ Becomes(Filled(o, n))
  /\ shown' = Nothing("none")
  /\ how' = [forward |-> forward, offered |-> offered /\ how.same, same |-> same]
  /\ UNCHANGED <<size, seen>>

\* INCMP > and INCMP <, which run the code of the node again.
NextPage == /\ Ready
            /\ idx < MaxPage
            /\ Arrive(node, Fresh(Here), idx + 1, TRUE, shown.next, TRUE)

\* Mutant: the index is not compared.
PreviousPage_Unguarded == Ready /\ Arrive(node, Fresh(Here), idx - 1, FALSE, shown.prev, TRUE)

PreviousPage == /\ Ready
                /\ idx > 0
                /\ Arrive(node, Fresh(Here), idx - 1, FALSE, shown.prev, TRUE)

\* INCMP or MOVE to a node, because of an error perhaps.
Move(n) ==
  /\ Ready
  /\ \E err \in {pg.err, TRUE} :
       Arrive(n, [Fresh(Here) EXCEPT !.pg.err = err], 0, FALSE, FALSE, TRUE)

\* CATCH to a node after a HALT: no Vm.Reset, only what the head of Run resets.
CatchTo(n) == Ready /\ Arrive(n, Cleared(Here), 0, FALSE, FALSE, FALSE)

\* Another engine takes the next input.
NewEngine == /\ shown.kind # "none"
             /\ Becomes(NewVm)
             /\ how' = [how EXCEPT !.offered = FALSE, !.same = @ /\ ~pg.err]
             /\ seen' = IF pg.err THEN None ELSE seen
             /\ UNCHANGED <<size, node, idx, shown>>

PagesInit ==
  /\ size \in Sizes /\ node \in Nodes /\ idx = 0
  /\ \E o \in {Filled(NewVm, node)} : pg = o.pg /\ crsrs = o.crsrs /\ mn = o.mn
  /\ shown = Nothing("none") /\ seen = None
  /\ how = [forward |-> FALSE, offered |-> FALSE, same |-> TRUE]

PagesNext == \/ Flush
             \/ NextPage
             \/ PreviousPage
             \/ \E n \in Targets : Move(n) \/ CatchTo(n)
             \/ NewEngine

PagesSpec == PagesInit /\ [][PagesNext]_vars

-----------------------------------------------------------------------------
(* What must hold of it.                                                   *)

\* Page, menu and cursors are well formed.
PagesTypeOK ==
  /\ size \in Sizes /\ node \in Nodes /\ idx \in 0 .. MaxPage
  /\ pg.content = None \/ pg.content \in Lines
  /\ {pg.extra, pg.err} \subseteq BOOLEAN
  /\ crsrs \in Seq(Nat \ {0})
  /\ mn.items \in Lines /\ mn.pageCount \in Nat
  /\ {mn.next, mn.prev, mn.sink, mn.keep} \subseteq BOOLEAN
  /\ shown.kind \in {"none", "ok", "fail", "browse", "panic"}
  /\ seen = None \/ seen \in Seq(Nat \ {0})

\* Whether there is one sink, and every line of it fits with both browse items and
\* the two bytes that are always left free.
LinesFit ==
  LET text  == TemplateSize([Here EXCEPT !.pg.extra = node.msink], node)
      items == IF node.msink THEN <<>> ELSE node.items
      room  == size - text - Appended(items \o <<NextSize, PrevSize>>) - 2
  IN  /\ ~(node.msink /\ node.content # None)
      /\ room >= 0
      /\ \A l \in Range(SinkLines(Filled(NewVm, node))) : l <= room

\* render.texi:102: a node whose lines fit can be shown, and so can each page of it
\* that the page before or after offers: what is reserved for the browse items is
\* what they take.
PagesFit ==
  (idx = 0 /\ how.same) \/ how.offered =>
    shown.kind \in {"none", "ok"} \/ (shown.kind = "fail" /\ ~LinesFit)

\* render.texi:100: who goes on from the first page until there is no next has seen
\* every line of the sink once, in order (blank lines at the top of a page aside).
ReadsAll ==
  shown.kind = "ok" /\ seen # None /\ node.next /\ ~shown.next =>
    /\ \A i, j \in DOMAIN seen : i < j => seen[i] < seen[j]
    /\ Range(seen) \subseteq DOMAIN shown.ls
    /\ \A k \in DOMAIN shown.ls : shown.ls[k] = 0 \/ k \in Range(seen)

\* menu.go:244: an index out of range is refused by the sizer before the menu sees
\* it. Vm.Render's way to _catch is for the menu's error.
NoBrowseError == shown.kind # "browse"

\* size.go:93: an index out of range is an error.
FailsOutOfRange == shown.kind # "panic"
=============================================================================
