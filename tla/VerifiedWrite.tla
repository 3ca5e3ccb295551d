---------------------------- MODULE VerifiedWrite ----------------------------
(***************************************************************************)
(* One write as release_bundle.py and publishers/cloudflare_kv.py make it: *)
(* a PUT whose answer is classified, followed by at most five exact        *)
(* read-backs.  Cloudflare is modelled by what its answer proves: an HTTP  *)
(* client error or an explicit success=false means the write did not run;  *)
(* after any other answer, or none, it may have run or be running still,   *)
(* and an accepted write may become visible only later.                    *)
(***************************************************************************)
EXTENDS Naturals, Sequences

CONSTANTS
    Values,         \* values the key may hold
    Wanted,         \* the value being written
    Statuses        \* HTTP error statuses the service may answer

VARIABLES
    remote,         \* the value readers find
    running,        \* TRUE while the PUT may still take effect
    before,         \* the value found before the PUT was sent
    wpc,            \* "request", "answer", "read_back" or "done"
    raised,         \* what publish() raised: "none", "error" or "unknown"
    delays,         \* read-backs not yet tried
    wrote           \* what _publish_verified made of it

writeVars == <<remote, running, before, wpc, raised, delays, wrote>>

ASSUME WriteAssumption == Wanted \in Values /\ Statuses \subseteq 300 .. 599

\* _READ_BACK_DELAYS, in quarters of a second.
ReadBackDelays == <<0, 1, 2, 4, 8>>

\* Every answer is an HTTP error, a 2xx answer with the "success" field of its
\* body, or nothing: URLError, OSError or a broken HTTP exchange.
Answers ==
    [kind : {"http_error"}, status : Statuses]
    \union [kind : {"true", "false", "malformed"}, status : {200}]
    \union [kind : {"nothing"}, status : {0}]

\* Mutant of AmbiguousHttpStatuses: a rate-limited write is taken for refused.
AmbiguousWithout429 == {408, 425}

AmbiguousHttpStatuses == {408, 425, 429}

OutcomeIsAmbiguous(status) == status >= 500 \/ status \in AmbiguousHttpStatuses

\* _request_json of a write: what it raises for each answer.
RequestOutcome(answer) ==
    CASE answer.kind = "true" -> "none"
      [] answer.kind = "false" -> "error"
      [] answer.kind = "http_error" /\ ~OutcomeIsAmbiguous(answer.status) -> "error"
      [] OTHER -> "unknown"

\* Cloudflare's side: the answers that leave no doubt that nothing ran.
NothingRan(answer) ==
    \/ answer.kind = "false"
    \/ answer.kind = "http_error" /\ answer.status \in 300 .. 499 \ {408, 425, 429}

WriteInit ==
    /\ remote \in Values /\ before = remote
    /\ running = FALSE /\ wpc = "request"
    /\ raised = "none" /\ delays = ReadBackDelays /\ wrote = "open"

\* publish() fails before the PUT leaves: empty or oversized content, or the
\* namespace cannot be resolved.
FailBeforeSending ==
    /\ wpc = "request"
    /\ wpc' = "read_back" /\ raised' = "error"
    /\ UNCHANGED <<remote, running, before, delays, wrote>>

Send ==
    /\ wpc = "request"
    /\ wpc' = "answer" /\ running' = TRUE
    /\ UNCHANGED <<remote, before, raised, delays, wrote>>

\* The PUT takes effect, or becomes visible.
Apply ==
    /\ running /\ running' = FALSE
    /\ remote' = Wanted
    /\ UNCHANGED <<before, wpc, raised, delays, wrote>>

\* The PUT dies on the way without any answer having promised it.
Vanish ==
    /\ running /\ wpc # "answer" /\ raised # "none"
    /\ running' = FALSE
    /\ UNCHANGED <<remote, before, wpc, raised, delays, wrote>>

\* An answer that denies the write can only be given while it has not run.
Answer(answer) ==
    /\ wpc = "answer"
    /\ IF NothingRan(answer) THEN running /\ running' = FALSE
                             ELSE UNCHANGED running
    /\ wpc' = "read_back" /\ raised' = RequestOutcome(answer)
    /\ UNCHANGED <<remote, before, delays, wrote>>

Finish(result) == wpc' = "done" /\ wrote' = result

\* One read-back: a match confirms, anything else moves to the next delay.
ReadBack ==
    /\ wpc = "read_back" /\ delays # <<>>
    /\ IF remote = Wanted
       THEN Finish("confirmed") /\ UNCHANGED delays
       ELSE delays' = Tail(delays) /\ UNCHANGED <<wpc, wrote>>
    /\ UNCHANGED <<remote, running, before, raised>>

\* A read error during the read-backs is skipped.
ReadBackFails ==
    /\ wpc = "read_back" /\ delays # <<>>
    /\ delays' = Tail(delays)
    /\ UNCHANGED <<remote, running, before, wpc, raised, wrote>>

\* No read-back matched: a definite error stands, anything else is unknown.
GiveUp ==
    /\ wpc = "read_back" /\ delays = <<>>
    /\ Finish(IF raised = "error" THEN "refused" ELSE "unresolved")
    /\ UNCHANGED <<remote, running, before, raised, delays>>

WriteNext ==
    \/ FailBeforeSending \/ Send
    \/ \E answer \in Answers : Answer(answer)
    \/ Apply \/ Vanish
    \/ ReadBack \/ ReadBackFails \/ GiveUp

WriteSpec == WriteInit /\ [][WriteNext]_writeVars
-----------------------------------------------------------------------------
\* Until the publisher has made up its mind, the write has no outcome.
Contract ==
    INSTANCE WriteOutcome
        WITH outcome <- wrote,
             stored <- IF wrote = "open" THEN before ELSE remote,
             transit <- wrote # "open" /\ running

\* The three outcomes ReleaseBundle builds on mean what it takes them to mean:
\* confirmed is in the store, refused never changes it, not even later.
ImplementsContract == Contract!Spec
=============================================================================
