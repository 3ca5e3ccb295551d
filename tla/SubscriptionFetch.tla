------------------------- MODULE SubscriptionFetch -------------------------
(* fetch_subscription under the executor of build_candidate. Every fetch has *)
(* one deadline, shared by the main thread, a watchdog timer that interrupts *)
(* its sockets, and resolver threads that hold one of the process-wide DNS   *)
(* slots. A resolver may never return and a server may send bytes forever:   *)
(* only the deadline ends such a fetch, and only if it can reach the socket. *)
EXTENDS Naturals, Sequences, FiniteSets

CONSTANTS Order, Workers, Fatal, \* the executor, as in FetchPool
          Slots,                 \* permits of _DNS_SLOTS
          Hops                   \* bound: connections of one fetch, redirects included

ASSUME FetchAssumption ==
  /\ Workers \in Nat \ {0} /\ Slots \in Nat \ {0} /\ Hops \in Nat \ {0}
  /\ Order \in Seq({Order[i] : i \in DOMAIN Order})
  /\ \A i, j \in DOMAIN Order : Order[i] = Order[j] => i = j

Sources == {Order[i] : i \in DOMAIN Order}

VARIABLES
  pc,        \* source -> where its worker thread is
  hop,       \* source -> redirects followed
  late,      \* sources whose deadline has passed
  timer,     \* source -> the watchdog: off, armed, firing or done
  expired,   \* _Deadline._expired
  closed,    \* _Deadline._closed
  watched,   \* _Deadline._sockets
  taken,     \* the sockets a firing watchdog is about to interrupt
  conn,      \* source -> the socket object that carries its connection, NoConn or Cut
  resolver,  \* <<source, hop>> -> its resolver thread: none, running, releasing or gone
  answer,    \* <<source, hop>> -> what that thread queued: none, usable or unusable
  free,      \* permits left in _DNS_SLOTS
  text,      \* source -> the payload read: none, whole or truncated
  consumed,  \* how many futures the build has consumed
  build      \* consuming, aborting, aborted or fetched

fetchVars == <<pc, hop, late, timer, expired, closed, watched, taken, conn, resolver, answer, free, text, consumed, build>>

Socket(f, kind) == <<hop[f], kind>>
NoConn == <<0, "none">>
Cut == <<0, "cut">>
Ended == {"ok", "failed", "cancelled"}
Calls == Sources \X (0 .. Hops - 1)
Call(f) == <<f, hop[f]>>

FetchInit ==
  /\ pc = [f \in Sources |-> "queued"]
  /\ hop = [f \in Sources |-> 0]
  /\ late = {} /\ expired = {} /\ closed = {}
  /\ timer = [f \in Sources |-> "off"]
  /\ watched = [f \in Sources |-> {}]
  /\ taken = [f \in Sources |-> {}]
  /\ conn = [f \in Sources |-> NoConn]
  /\ resolver = [c \in Calls |-> "none"] /\ answer = [c \in Calls |-> "none"]
  /\ text = [f \in Sources |-> "none"]
  /\ free = Slots
  /\ consumed = 0 /\ build = "consuming"

Goto(f, where) == pc' = [pc EXCEPT ![f] = where]

\* What only the clock, the watchdog and the executor change.
Untimed == UNCHANGED <<late, timer, expired, closed, taken, consumed, build>>
Resolving == UNCHANGED <<hop, watched, text>> /\ Untimed

\* _Deadline.remaining() returns; otherwise it raises.
InTime(f) == f \notin late

\* The exception leaves urllib, which closes the connection it was using.
Fail(f) ==
  /\ Goto(f, "failing")
  /\ conn' = [conn EXCEPT ![f] = NoConn]

---------------------------------------------------------------------------
(* The clock and the watchdog thread.                                        *)

DeadlinePasses(f) ==
  /\ pc[f] \notin Ended \cup {"queued"} /\ f \notin late
  /\ late' = late \cup {f}
  /\ UNCHANGED <<pc, hop, timer, expired, closed, watched, taken, conn, resolver, answer, free, text, consumed, build>>

\* _expire_network under its lock.
WatchdogExpires(f) ==
  /\ timer[f] = "armed" /\ f \in late
  /\ IF f \in closed
     THEN /\ timer' = [timer EXCEPT ![f] = "done"]
          /\ UNCHANGED <<expired, watched, taken>>
     ELSE /\ timer' = [timer EXCEPT ![f] = "firing"]
          /\ expired' = expired \cup {f}
          /\ taken' = [taken EXCEPT ![f] = watched[f]]
          /\ watched' = [watched EXCEPT ![f] = {}]
  /\ UNCHANGED <<pc, hop, late, closed, conn, resolver, answer, free, text, consumed, build>>

\* A socket that was closed, or detached when TLS wrapped it, is no longer
\* the connection: interrupting it changes nothing.
Interrupted(f, sockets) == IF conn[f] \in sockets THEN [conn EXCEPT ![f] = Cut] ELSE conn

WatchdogInterrupts(f) ==
  /\ timer[f] = "firing"
  /\ timer' = [timer EXCEPT ![f] = "done"]
  /\ conn' = Interrupted(f, taken[f])
  /\ taken' = [taken EXCEPT ![f] = {}]
  /\ UNCHANGED <<pc, hop, late, expired, closed, watched, resolver, answer, free, text, consumed, build>>

---------------------------------------------------------------------------
(* Resolving with a bounded number of threads.                               *)

AcquireSlot(f) ==
  /\ pc[f] = "resolve" /\ free > 0
  /\ free' = free - 1
  /\ Goto(f, "holding")
  /\ Resolving /\ UNCHANGED <<conn, resolver, answer>>

AcquireWithoutTimeout(f) ==
  /\ pc[f] = "resolve" /\ f \in late /\ free > 0
  /\ Fail(f)
  /\ Resolving /\ UNCHANGED <<resolver, answer, free>>

AcquireTimesOut(f) ==
  /\ pc[f] = "resolve" /\ ~InTime(f)
  /\ Fail(f)
  /\ Resolving /\ UNCHANGED <<resolver, answer, free>>

SpawnResolver(f) ==
  /\ pc[f] = "holding" /\ InTime(f)
  /\ resolver' = [resolver EXCEPT ![Call(f)] = "running"]
  /\ Goto(f, "waiting")
  /\ Resolving /\ UNCHANGED <<conn, answer, free>>

\* No thread was started: nobody else will give the permit back.
HolderReleases(f) ==
  /\ pc[f] = "holding" /\ ~InTime(f)
  /\ free' = free + 1
  /\ Fail(f)
  /\ Resolving /\ UNCHANGED <<resolver, answer>>

\* getaddrinfo returned or raised. The answer is queued before the permit is
\* given back, so the fetch may already be past its next redirect.
ResolverAnswers(c) ==
  /\ resolver[c] = "running"
  /\ resolver' = [resolver EXCEPT ![c] = "releasing"]
  /\ \E how \in {"usable", "unusable"} : answer' = [answer EXCEPT ![c] = how]
  /\ Resolving /\ UNCHANGED <<pc, conn, free>>

ResolverReleases(c) ==
  /\ resolver[c] = "releasing"
  /\ resolver' = [resolver EXCEPT ![c] = "gone"]
  /\ free' = free + 1
  /\ Resolving /\ UNCHANGED <<pc, conn, answer>>

TakeAnswer(f) ==
  /\ pc[f] = "waiting" /\ answer[Call(f)] # "none"
  /\ IF InTime(f) /\ answer[Call(f)] = "usable"
     THEN Goto(f, "connect") /\ UNCHANGED conn
     ELSE Fail(f)
  /\ Resolving /\ UNCHANGED <<resolver, answer, free>>

AnswerTimesOutReleasing(f) ==
  /\ pc[f] = "waiting" /\ f \in late
  /\ free' = free + 1
  /\ Fail(f)
  /\ Resolving /\ UNCHANGED <<resolver, answer>>

\* The thread stays behind with its permit.
AnswerTimesOut(f) ==
  /\ pc[f] = "waiting" /\ f \in late
  /\ Fail(f)
  /\ Resolving /\ UNCHANGED <<resolver, answer, free>>

---------------------------------------------------------------------------
(* Connecting. The watchdog only knows the sockets it was told about.        *)

Connecting == UNCHANGED <<hop, resolver, answer, free, text>> /\ Untimed

Connect(f) ==
  /\ pc[f] = "connect"
  /\ \/ InTime(f) /\ Goto(f, "connected") /\ conn' = [conn EXCEPT ![f] = Socket(f, "raw")]
     \/ Fail(f)
  /\ UNCHANGED watched /\ Connecting

WatchUnlessReplacing(f, socket, replaced) ==
  IF f \in expired \cup closed /\ replaced = {}
  THEN /\ conn' = Interrupted(f, {socket})
       /\ UNCHANGED watched
  ELSE /\ watched' = [watched EXCEPT ![f] = (@ \ replaced) \cup {socket}]
       /\ UNCHANGED conn

\* watch_socket: a socket that arrives after the watchdog fired is cut here.
Watch(f, socket, replaced) ==
  IF f \in expired \cup closed
  THEN /\ conn' = Interrupted(f, {socket})
       /\ watched' = [watched EXCEPT ![f] = @ \ replaced]
  ELSE /\ watched' = [watched EXCEPT ![f] = (@ \ replaced) \cup {socket}]
       /\ UNCHANGED conn

WatchRaw(f) ==
  /\ pc[f] = "connected"
  /\ Watch(f, Socket(f, "raw"), {})
  /\ Goto(f, "request") \/ Goto(f, "wrap")
  /\ Connecting

\* TLS detaches the raw socket and carries the connection from here on.
Wrap(f) ==
  /\ pc[f] = "wrap"
  /\ IF conn[f] = Cut THEN Fail(f)
     ELSE Goto(f, "wrapped") /\ conn' = [conn EXCEPT ![f] = Socket(f, "tls")]
  /\ UNCHANGED watched /\ Connecting

WatchTls(f) ==
  /\ pc[f] = "wrapped"
  /\ Watch(f, Socket(f, "tls"), {Socket(f, "raw")})
  /\ Goto(f, "handshake")
  /\ Connecting

---------------------------------------------------------------------------
(* Talking to the server, which answers when it likes.                       *)

Established(f) == conn[f] \notin {NoConn, Cut}

ServerShakesHands(f) ==
  /\ pc[f] = "handshake" /\ Established(f) /\ InTime(f)
  /\ Goto(f, "request")
  /\ UNCHANGED <<conn, watched>> /\ Connecting

ServerResponds(f) ==
  /\ pc[f] = "request" /\ Established(f)
  /\ IF InTime(f) THEN Goto(f, "body") /\ UNCHANGED conn ELSE Fail(f)
  /\ UNCHANGED watched /\ Connecting

\* redirect_request; the next connection starts from a name again.
ServerRedirects(f) ==
  /\ pc[f] = "request" /\ Established(f) /\ InTime(f) /\ hop[f] + 1 < Hops
  /\ hop' = [hop EXCEPT ![f] = @ + 1]
  /\ conn' = [conn EXCEPT ![f] = NoConn]
  /\ Goto(f, "resolve")
  /\ UNCHANGED <<watched, resolver, answer, free, text>> /\ Untimed

\* A blocked call on a connection that was cut, by the watchdog or the peer.
CallFails(f) ==
  /\ pc[f] \in {"handshake", "request"}
  /\ Fail(f)
  /\ UNCHANGED watched /\ Connecting

\* The last read of _read_bounded: the end of the body, or of a cut
\* connection, which reads the same.
BodyEnds(f) ==
  /\ pc[f] = "body"
  /\ IF InTime(f)
     THEN /\ Goto(f, "read")
          /\ text' = [text EXCEPT ![f] = IF Established(f) THEN "whole" ELSE "truncated"]
          /\ conn' = [conn EXCEPT ![f] = NoConn]
     ELSE Fail(f) /\ UNCHANGED text
  /\ UNCHANGED <<hop, watched, resolver, answer, free>> /\ Untimed

\* An error while reading, the byte limit, or an invalid gzip payload.
BodyFails(f) ==
  /\ pc[f] = "body"
  /\ Fail(f)
  /\ UNCHANGED watched /\ Connecting

\* stop_network_watchdog, then the decoding of what was read.
Stop(f) ==
  /\ pc[f] \in {"failing", "read"}
  /\ closed' = closed \cup {f}
  /\ watched' = [watched EXCEPT ![f] = {}]
  /\ timer' = [timer EXCEPT ![f] = IF @ = "armed" THEN "off" ELSE @]
  /\ \/ Goto(f, "failed")
     \/ pc[f] = "read" /\ InTime(f) /\ Goto(f, "ok")
  /\ UNCHANGED <<hop, late, expired, taken, conn, resolver, answer, free, text, consumed, build>>

---------------------------------------------------------------------------
(* The executor of build_candidate.                                          *)

Active == {f \in Sources : pc[f] \notin Ended \cup {"queued"}}

Start(f) ==
  /\ pc[f] = "queued" /\ Cardinality(Active) < Workers
  /\ \A i, j \in DOMAIN Order : i < j /\ Order[j] = f => pc[Order[i]] # "queued"
  /\ Goto(f, "resolve")
  /\ timer' = [timer EXCEPT ![f] = "armed"]
  /\ UNCHANGED <<hop, late, expired, closed, watched, taken, conn, resolver, answer, free, text, consumed, build>>

\* A payload that was fetched may still have nothing usable in it.
ConsumeNext ==
  /\ build = "consuming" /\ consumed < Len(Order)
  /\ \E usable \in BOOLEAN :
      LET f == Order[consumed + 1]
      IN  /\ pc[f] = "ok" \/ (pc[f] = "failed" /\ ~usable)
          /\ consumed' = consumed + 1
          /\ IF ~usable /\ f \in Fatal
             THEN /\ build' = "aborting"
                  /\ pc' = [g \in Sources |-> IF pc[g] = "queued" THEN "cancelled" ELSE pc[g]]
             ELSE UNCHANGED <<pc, build>>
  /\ UNCHANGED <<hop, late, timer, expired, closed, watched, taken, conn, resolver, answer, free, text>>

ShutDown ==
  /\ Active = {}
  /\ \/ build = "aborting" /\ build' = "aborted"
     \/ build = "consuming" /\ consumed = Len(Order) /\ build' = "fetched"
  /\ UNCHANGED <<pc, hop, late, timer, expired, closed, watched, taken, conn, resolver, answer, free, text, consumed>>

---------------------------------------------------------------------------

\* What the fetching thread does without waiting for anybody, or gives up on
\* once its deadline has passed or its connection is cut.
Progress(f) ==
  \/ AcquireSlot(f) \/ AcquireTimesOut(f) \/ SpawnResolver(f) \/ HolderReleases(f)
  \/ TakeAnswer(f) \/ AnswerTimesOut(f)
  \/ Connect(f) \/ WatchRaw(f) \/ Wrap(f) \/ WatchTls(f)
  \/ ~Established(f) /\ (CallFails(f) \/ BodyEnds(f))
  \/ Stop(f)

FetchNext ==
  \/ \E f \in Sources :
       \/ Start(f) \/ Progress(f)
       \/ DeadlinePasses(f) \/ WatchdogExpires(f) \/ WatchdogInterrupts(f)
       \/ ServerShakesHands(f) \/ ServerResponds(f) \/ ServerRedirects(f)
       \/ CallFails(f) \/ BodyEnds(f) \/ BodyFails(f)
  \/ \E c \in Calls : ResolverAnswers(c) \/ ResolverReleases(c)
  \/ ConsumeNext
  \/ ShutDown

\* Threads and timers run. Servers and resolvers owe nothing; a resolver
\* that answered gives its permit back.
FetchFairness ==
  /\ \A f \in Sources :
       /\ WF_fetchVars(Start(f)) /\ WF_fetchVars(Progress(f))
       /\ WF_fetchVars(DeadlinePasses(f))
       /\ WF_fetchVars(WatchdogExpires(f)) /\ WF_fetchVars(WatchdogInterrupts(f))
  /\ \A c \in Calls : WF_fetchVars(ResolverReleases(c))
  /\ WF_fetchVars(ConsumeNext)
  /\ WF_fetchVars(ShutDown)

FetchSpec == FetchInit /\ [][FetchNext]_fetchVars /\ FetchFairness

---------------------------------------------------------------------------

Places == Ended \cup {"queued", "resolve", "holding", "waiting", "connect", "connected", "wrap", "wrapped",
                     "handshake", "request", "body", "read", "failing"}
Sockets == (0 .. Hops - 1) \X {"raw", "tls"}
Connections == (0 .. Hops - 1) \X {"raw", "tls", "none", "cut"}

FetchTypeOK ==
  /\ pc \in [Sources -> Places]
  /\ hop \in [Sources -> 0 .. Hops - 1]
  /\ late \subseteq Sources /\ expired \subseteq Sources /\ closed \subseteq Sources
  /\ timer \in [Sources -> {"off", "armed", "firing", "done"}]
  /\ watched \in [Sources -> SUBSET Sockets] /\ taken \in [Sources -> SUBSET Sockets]
  /\ conn \in [Sources -> Connections]
  /\ resolver \in [Calls -> {"none", "running", "releasing", "gone"}]
  /\ answer \in [Calls -> {"none", "usable", "unusable"}]
  /\ free \in Nat
  /\ text \in [Sources -> {"none", "whole", "truncated"}]
  /\ consumed \in 0 .. Len(Order)
  /\ build \in {"consuming", "aborting", "aborted", "fetched"}

\* fetch.py: once the watchdog of a fetch has run, no connection of that
\* fetch is left for a read to block on, however the interruption fell
\* between connecting, wrapping and watching; the two sockets that may still
\* be open are the ones the very next statement hands to watch_socket.
DeadlineCutsConnections ==
  \A f \in Sources :
    timer[f] = "done" /\ Established(f) => pc[f] \in {"connected", "wrapped"}

\* fetch.py: every permit of _DNS_SLOTS is free, with the fetch that is about
\* to start a resolver, or with a resolver thread, a forgotten one included;
\* no path gives one back twice or loses it.
SlotsAreConserved ==
  free + Cardinality({f \in Sources : pc[f] = "holding"})
       + Cardinality({c \in Calls : resolver[c] \in {"running", "releasing"}}) = Slots

\* builder.py: seen from the build, fetching is a bounded pool whose results
\* arrive in the declared order and whose every task ends, even with all
\* resolver permits stuck and servers that never finish their answers.
Pool == INSTANCE FetchPool
  WITH task <- [f \in Sources |-> IF pc[f] \in Ended \cup {"queued"} THEN pc[f] ELSE "running"]

ImplementsPool == Pool!PoolSpec
=============================================================================
