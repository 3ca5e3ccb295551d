------------------------- MODULE MCAiQualification -------------------------
(* TLC instances of AiQualification.                                       *)
EXTENDS AiQualification, TLC

CONSTANTS n1, n2, n3, openai, claude

OneNode == {n1}
TwoNodes == {n1, n2}
ThreeNodes == {n1, n2, n3}
OneService == {openai}
OneOrder == <<openai>>
TwoServices == {openai, claude}
TwoOrder == <<openai, claude>>

\* n1 and n2 are in one region, n3 in another; n1 sorts before n2.
TwoRegions == n1 :> "JP" @@ n2 :> "JP" @@ n3 :> "US"
FirstOfRegion ==
    [names \in SUBSET ThreeNodes |->
        (names \intersect {n1, n3}) \union (IF n1 \in names THEN {} ELSE names \intersect {n2})]
\* With two nodes, each has its own region.
RegionEach == n1 :> "JP" @@ n2 :> "US"
EveryNode == [names \in SUBSET TwoNodes |-> names]
RegionOne == n1 :> "JP"
OnlyNode == [names \in SUBSET OneNode |-> names]

PassOne == [s \in Services |-> 1]
FailZero == [s \in Services |-> 0]
AtLeastOne == [s \in Services |-> 1]
=============================================================================
