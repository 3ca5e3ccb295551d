---------------------------- MODULE WriteOutcome ----------------------------
(***************************************************************************)
(* The contract of one verified write, as ReleaseBundle uses it: confirmed *)
(* means the wanted bytes are in the store, refused means the store never  *)
(* changes because of this write, unresolved means it may still change.    *)
(* A confirmed write may still be on its way only when the key held the    *)
(* wanted value before it was sent.                                        *)
(***************************************************************************)
CONSTANTS Values, Wanted

VARIABLES
    stored,     \* the value readers find
    transit,    \* TRUE while the write may still take effect
    outcome     \* "open", "confirmed", "refused" or "unresolved"

outcomeVars == <<stored, transit, outcome>>

Init == stored \in Values /\ transit = FALSE /\ outcome = "open"

Confirm ==
    /\ outcome = "open" /\ outcome' = "confirmed"
    /\ stored' = Wanted
    /\ transit' \in {FALSE, stored = Wanted}

Refuse ==
    /\ outcome = "open" /\ outcome' = "refused"
    /\ UNCHANGED <<stored, transit>>

Unresolve ==
    /\ outcome = "open" /\ outcome' = "unresolved"
    /\ \/ stored' = Wanted /\ transit' = FALSE
       \/ UNCHANGED stored /\ transit' \in BOOLEAN

Land ==
    /\ transit /\ transit' = FALSE
    /\ stored' = Wanted
    /\ UNCHANGED outcome

Lose ==
    /\ transit /\ transit' = FALSE
    /\ UNCHANGED <<stored, outcome>>

Next == Confirm \/ Refuse \/ Unresolve \/ Land \/ Lose

Spec == Init /\ [][Next]_outcomeVars
=============================================================================
