------------------------------- MODULE MCStore -------------------------------
(* Sessions and names that begin and end alike: "a" and "ab", "b" and "ba",  *)
(* names that are session ids (as the keys of a persister are), and one that *)
(* ends like a label. Files laid out by hand for one symbol each.            *)
EXTENDS Dumps, TLC

MCSessions == {<<>>, <<"a">>, <<"a", "b">>}
MCNames    == {<<"b">>, <<"a", "b">>}
MCLocal    == {<<"b">>}
MCHandled  == {1, 2, 4, 8}
MCMask     == {MCHandled}
Symmetry   == Permutations(Value)

\* By hand: a template with its translation, code, a label, the text of a symbol.
MCLaid == (<<"b">> :> "f1") @@ (<<"b", "nor">> :> "f2") @@ (<<"a", "b", CodeTail>> :> "f3")
            @@ (<<"a", "b", MenuTail>> :> "f4") @@ (<<"a", "b", TextTail>> :> "f5")

\* What an earlier process put: a template, or data of two sessions and types, and a
\* template with its translation. (A store in memory begins empty.)
At1 == {Address(DATATYPE_TEMPLATE, <<>>, <<"b">>, NoLang)}
At5 == {Address(DATATYPE_USERDATA, <<"a">>, <<"b">>, NoLang),
        Address(DATATYPE_USERDATA, <<"a">>, <<"a", "b">>, NoLang),
        Address(DATATYPE_USERDATA, <<"a", "b">>, <<"b">>, NoLang),
        Address(DATATYPE_TEMPLATE, <<>>, <<"a", "b">>, NoLang),
        Address(DATATYPE_TEMPLATE, <<>>, <<"a", "b">>, "nor")}
MCSeeds == {[x \in at |-> v] : at \in {At1, At5}, v \in Value}

\* "a" stands for three characters and "b" for two.
MCWidth == ("a" :> 3) @@ ("b" :> 2) @@ ("nor" :> 4) @@ (Separator :> 1)
             @@ (MenuTail :> 5) @@ (TextTail :> 4)
MCRank  == (Separator :> 0) @@ (TextTail :> 1) @@ (MenuTail :> 2) @@ ("nor" :> 3)
             @@ ("a" :> 4) @@ ("b" :> 5)
MCSuffix == {"nor"}

\* These callers pay what they owe.
ASSUME MCKeysApart == KeysApart
=============================================================================
