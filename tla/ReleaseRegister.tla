-------------------------- MODULE ReleaseRegister --------------------------
(***************************************************************************)
(* What publishing promises: a live release, and a rollback target that is *)
(* always the release that was live immediately before it.  A switch is    *)
(* opened, may take effect and be reverted, and is closed either by        *)
(* committing it or by abandoning it; while it is open no rollback target  *)
(* is offered.                                                             *)
(***************************************************************************)
CONSTANTS ReleaseIds, None

VARIABLES
    live,       \* identity of the release clients download, or None
    rollback,   \* identity a rollback would restore, or None
    switch      \* the open switch, or None

registerVars == <<live, rollback, switch>>

\* A namespace that offers no rollback yet, possibly in the middle of a switch.
Init ==
    /\ live \in ReleaseIds \union {None}
    /\ rollback = None
    /\ \/ switch = None
       \/ \E from, to \in ReleaseIds :
              /\ from # to /\ live \in {from, to}
              /\ switch = [from |-> from, to |-> to, saved |-> None]

Open(to) ==
    /\ switch = None /\ to # live
    /\ switch' = [from |-> live, to |-> to, saved |-> rollback]
    /\ rollback' = None
    /\ UNCHANGED live

TakeEffect ==
    /\ switch # None /\ live = switch.from
    /\ live' = switch.to
    /\ UNCHANGED <<rollback, switch>>

Revert ==
    /\ switch # None /\ live = switch.to
    /\ live' = switch.from
    /\ UNCHANGED <<rollback, switch>>

Commit ==
    /\ switch # None /\ live = switch.to
    /\ rollback' = switch.from /\ switch' = None
    /\ UNCHANGED live

Abandon ==
    /\ switch # None /\ live = switch.from
    /\ rollback' = switch.saved /\ switch' = None
    /\ UNCHANGED live

Next ==
    \/ \E to \in ReleaseIds : Open(to)
    \/ TakeEffect \/ Revert \/ Commit \/ Abandon

Spec == Init /\ [][Next]_registerVars
=============================================================================
