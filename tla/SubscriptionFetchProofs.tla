----------------------- MODULE SubscriptionFetchProofs -----------------------
(***************************************************************************)
(* Proofs about SubscriptionFetch, for any sources, workers, resolver      *)
(* slots and redirects: the deadline reaches every connection, and no slot *)
(* is lost or returned twice.                                              *)
(***************************************************************************)
EXTENDS SubscriptionFetch, FiniteSetTheorems, TLAPS

\* Where the fetching thread has no connection.
Idle == {"queued", "resolve", "holding", "waiting", "connect", "read", "failing"} \cup Ended

\* What the watchdog of a fetch can still reach: every connection is among
\* the sockets it watches or has taken, unless the thread is about to hand
\* it over.
Reached(f) ==
    /\ pc[f] \in Idle => ~Established(f)
    /\ pc[f] = "queued" => timer[f] = "off"
    /\ pc[f] = "connected" /\ Established(f) => conn[f] = Socket(f, "raw")
    /\ pc[f] = "wrapped" /\ Established(f) => conn[f] = Socket(f, "tls")
    /\ f \in closed => pc[f] \in {"ok", "failed"}
    /\ timer[f] = "firing" => f \in expired
    /\ timer[f] = "done" => f \in expired \cup closed
    /\ timer[f] # "firing" => taken[f] = {}
    /\ f \in expired => watched[f] = {}
    /\ Established(f) /\ pc[f] \notin {"connected", "wrapped"} => conn[f] \in watched[f] \cup taken[f]

WatchInv == \A f \in Sources : Reached(f)

\* No resolver thread was started for a hop the fetch has not reached, or
\* has only just reached.
FreshInv == \A f \in Sources : \A h \in 0 .. Hops - 1 :
    h > hop[f] \/ (h = hop[f] /\ pc[f] \in {"queued", "resolve", "holding"}) => resolver[<<f, h>>] = "none"

FetchInv == FetchTypeOK /\ WatchInv /\ FreshInv /\ SlotsAreConserved

\* What a connection may become.
LEMMA ConnectionTypes ==
  /\ NoConn \in Connections /\ Cut \in Connections /\ Sockets \subseteq Connections
  /\ \A f \in Sources : FetchTypeOK => Socket(f, "raw") \in Sockets /\ Socket(f, "tls") \in Sockets
BY FetchAssumption DEF Connections, Sockets, NoConn, Cut, Socket, FetchTypeOK

\* watch_socket has the types of what it is given.
LEMMA WatchTypes ==
  ASSUME FetchTypeOK, NEW f \in Sources, NEW socket \in Sockets, NEW replaced, Watch(f, socket, replaced)
  PROVE  conn' \in [Sources -> Connections] /\ watched' \in [Sources -> SUBSET Sockets]
<1>1. /\ conn \in [Sources -> Connections] /\ watched \in [Sources -> SUBSET Sockets]
      /\ watched[f] \ replaced \in SUBSET Sockets
      /\ (watched[f] \ replaced) \cup {socket} \in SUBSET Sockets
  BY DEF FetchTypeOK
<1>2. conn' \in [Sources -> Connections]
  BY <1>1, ConnectionTypes DEF Watch, Interrupted
<1>3. watched' \in [Sources -> SUBSET Sockets]
  <2>1. CASE f \in expired \cup closed
    BY <1>1, <2>1 DEF Watch
  <2>2. CASE f \notin expired \cup closed
    BY <1>1, <2>2 DEF Watch
  <2> QED BY <2>1, <2>2
<1> QED BY <1>2, <1>3

\* Every step keeps the types.
LEMMA TypeStep ==
  ASSUME FetchTypeOK, FetchNext
  PROVE  FetchTypeOK'
<1> USE FetchAssumption, ConnectionTypes DEF FetchTypeOK, Places, Ended, Calls
<1>1. ASSUME NEW f \in Sources, Start(f) PROVE FetchTypeOK'
  BY <1>1 DEF Start, Goto
<1>2. ASSUME NEW f \in Sources, AcquireSlot(f) PROVE FetchTypeOK'
  BY <1>2 DEF AcquireSlot, Goto, Resolving, Untimed
<1>3. ASSUME NEW f \in Sources, AcquireTimesOut(f) PROVE FetchTypeOK'
  BY <1>3 DEF AcquireTimesOut, Fail, Goto, Resolving, Untimed
<1>4. ASSUME NEW f \in Sources, SpawnResolver(f) PROVE FetchTypeOK'
  BY <1>4 DEF SpawnResolver, Goto, Resolving, Untimed, Call
<1>5. ASSUME NEW f \in Sources, HolderReleases(f) PROVE FetchTypeOK'
  BY <1>5 DEF HolderReleases, Fail, Goto, Resolving, Untimed
<1>6. ASSUME NEW f \in Sources, TakeAnswer(f) PROVE FetchTypeOK'
  <2>1. CASE InTime(f) /\ answer[Call(f)] = "usable"
    BY <1>6, <2>1 DEF TakeAnswer, Fail, Goto, Resolving, Untimed
  <2>2. CASE ~(InTime(f) /\ answer[Call(f)] = "usable")
    BY <1>6, <2>2, ZenonT(90) DEF TakeAnswer, Fail, Goto, Resolving, Untimed
  <2> QED BY <1>6, <2>1, <2>2 DEF TakeAnswer
<1>7. ASSUME NEW f \in Sources, AnswerTimesOut(f) PROVE FetchTypeOK'
  BY <1>7 DEF AnswerTimesOut, Fail, Goto, Resolving, Untimed
<1>8. ASSUME NEW f \in Sources, Connect(f) PROVE FetchTypeOK'
  <2>1. CASE InTime(f) /\ Goto(f, "connected") /\ conn' = [conn EXCEPT ![f] = Socket(f, "raw")]
    BY <1>8, <2>1 DEF Connect, Connecting, Untimed, Goto, Fail
  <2>2. CASE Fail(f)
    BY <1>8, <2>2 DEF Connect, Connecting, Untimed, Goto, Fail
  <2> QED BY <1>8, <2>1, <2>2 DEF Connect
<1>9. ASSUME NEW f \in Sources, WatchRaw(f) PROVE FetchTypeOK'
  <2>1. conn' \in [Sources -> Connections] /\ watched' \in [Sources -> SUBSET Sockets]
    BY <1>9, WatchTypes DEF WatchRaw
  <2> QED BY <1>9, <2>1 DEF WatchRaw, Connecting, Untimed, Goto
<1>10. ASSUME NEW f \in Sources, Wrap(f) PROVE FetchTypeOK'
  <2>1. CASE conn[f] = Cut
    BY <1>10, <2>1, ZenonT(90) DEF Wrap, Connecting, Untimed, Goto, Fail
  <2>2. CASE conn[f] # Cut
    BY <1>10, <2>2, ZenonT(90) DEF Wrap, Connecting, Untimed, Goto, Fail
  <2> QED BY <1>10, <2>1, <2>2 DEF Wrap
<1>11. ASSUME NEW f \in Sources, WatchTls(f) PROVE FetchTypeOK'
  <2>1. conn' \in [Sources -> Connections] /\ watched' \in [Sources -> SUBSET Sockets]
    BY <1>11, WatchTypes DEF WatchTls
  <2> QED BY <1>11, <2>1 DEF WatchTls, Connecting, Untimed, Goto
<1>12. ASSUME NEW f \in Sources, Stop(f) PROVE FetchTypeOK'
  BY <1>12 DEF Stop, Goto
<1>13. ASSUME NEW f \in Sources, DeadlinePasses(f) PROVE FetchTypeOK'
  BY <1>13 DEF DeadlinePasses
<1>14. ASSUME NEW f \in Sources, WatchdogExpires(f) PROVE FetchTypeOK'
  <2>1. CASE f \in closed
    BY <1>14, <2>1 DEF WatchdogExpires
  <2>2. CASE f \notin closed
    <3>1. watched[f] \in SUBSET Sockets /\ {} \in SUBSET Sockets
      OBVIOUS
    <3>2. watched' \in [Sources -> SUBSET Sockets] /\ taken' \in [Sources -> SUBSET Sockets]
      BY <1>14, <2>2, <3>1 DEF WatchdogExpires
    <3>3. timer' = [timer EXCEPT ![f] = "firing"] /\ timer \in [Sources -> {"off", "armed", "firing", "done"}]
      BY <1>14, <2>2 DEF WatchdogExpires
    <3>4. expired' = expired \cup {f} /\ expired \subseteq Sources
      BY <1>14, <2>2 DEF WatchdogExpires
    <3>5. UNCHANGED <<pc, hop, late, closed, conn, resolver, answer, free, text, consumed, build>>
      BY <1>14 DEF WatchdogExpires
    <3> QED BY <3>2, <3>3, <3>4, <3>5
  <2> QED BY <1>14, <2>1, <2>2 DEF WatchdogExpires
<1>15. ASSUME NEW f \in Sources, WatchdogInterrupts(f) PROVE FetchTypeOK'
  BY <1>15 DEF WatchdogInterrupts, Interrupted
<1>16. ASSUME NEW f \in Sources, ServerShakesHands(f) PROVE FetchTypeOK'
  BY <1>16 DEF ServerShakesHands, Connecting, Untimed, Goto
<1>17. ASSUME NEW f \in Sources, ServerResponds(f) PROVE FetchTypeOK'
  <2>1. CASE InTime(f)
    BY <1>17, <2>1 DEF ServerResponds, Connecting, Untimed, Goto, Fail
  <2>2. CASE ~InTime(f)
    BY <1>17, <2>2, ZenonT(90) DEF ServerResponds, Connecting, Untimed, Goto, Fail
  <2> QED BY <1>17, <2>1, <2>2 DEF ServerResponds
<1>18. ASSUME NEW f \in Sources, ServerRedirects(f) PROVE FetchTypeOK'
  BY <1>18 DEF ServerRedirects, Goto, Untimed
<1>19. ASSUME NEW f \in Sources, CallFails(f) PROVE FetchTypeOK'
  BY <1>19 DEF CallFails, Connecting, Untimed, Goto, Fail
<1>20. ASSUME NEW f \in Sources, BodyEnds(f) PROVE FetchTypeOK'
  <2>1. CASE InTime(f)
    BY <1>20, <2>1, ZenonT(90) DEF BodyEnds, Untimed, Goto, Fail
  <2>2. CASE ~InTime(f)
    BY <1>20, <2>2, ZenonT(90) DEF BodyEnds, Untimed, Goto, Fail
  <2> QED BY <1>20, <2>1, <2>2 DEF BodyEnds
<1>21. ASSUME NEW f \in Sources, BodyFails(f) PROVE FetchTypeOK'
  BY <1>21 DEF BodyFails, Connecting, Untimed, Goto, Fail
<1>22. ASSUME NEW c \in Calls, ResolverAnswers(c) PROVE FetchTypeOK'
  BY <1>22 DEF ResolverAnswers, Resolving, Untimed
<1>23. ASSUME NEW c \in Calls, ResolverReleases(c) PROVE FetchTypeOK'
  BY <1>23 DEF ResolverReleases, Resolving, Untimed
<1>24. ASSUME ConsumeNext PROVE FetchTypeOK'
  BY <1>24 DEF ConsumeNext
<1>25. ASSUME ShutDown PROVE FetchTypeOK'
  BY <1>25 DEF ShutDown
<1> QED BY <1>1, <1>2, <1>3, <1>4, <1>5, <1>6, <1>7, <1>8, <1>9, <1>10, <1>11, <1>12, <1>13, <1>14, <1>15, <1>16, <1>17, <1>18, <1>19, <1>20, <1>21, <1>22, <1>23, <1>24, <1>25, FetchNext DEF FetchNext, Progress

\* watch_socket when it is given the socket of the connection: that of the
\* fetch is cut or watched, those of the others stay as they are.
LEMMA WatchReaches ==
  ASSUME FetchTypeOK, NEW f \in Sources, NEW socket \in Sockets, NEW replaced, socket \notin replaced,
         Watch(f, socket, replaced), Established(f) => conn[f] = socket,
         f \in expired => watched[f] = {}, f \notin closed
  PROVE  /\ Established(f)' => conn'[f] \in watched'[f]
         /\ f \in expired => watched'[f] = {}
         /\ \A g \in Sources \ {f} : conn'[g] = conn[g] /\ watched'[g] = watched[g]
<1> USE DEF FetchTypeOK, Watch, Interrupted, Established
<1>1. CASE f \in expired
  BY <1>1
<1>2. CASE f \notin expired
  BY <1>2
<1> QED BY <1>1, <1>2

\* An exception that leaves the fetch has closed its connection.
LEMMA FailReaches ==
  ASSUME FetchTypeOK, WatchInv, NEW f \in Sources, pc[f] \notin Ended, Fail(f),
         UNCHANGED <<hop, timer, expired, closed, watched, taken>>
  PROVE  WatchInv'
<1>1. SUFFICES ASSUME NEW g \in Sources PROVE Reached(g)'
  BY DEF WatchInv
<1> USE DEF FetchTypeOK, WatchInv, Reached, Established, Fail, Goto, Socket, Idle, Ended, NoConn, Cut
<1>2. CASE g = f
  BY <1>2
<1>3. CASE g # f
  BY <1>3
<1> QED BY <1>2, <1>3

\* Every step leaves each connection within reach of its watchdog.
LEMMA WatchStep ==
  ASSUME FetchTypeOK, WatchInv, FetchNext
  PROVE  WatchInv'
<1> USE FetchAssumption DEF FetchTypeOK, Sockets, Connections, WatchInv, Reached, Established, NoConn, Cut, Idle, Ended, Socket
<1>1. ASSUME NEW f \in Sources, Start(f) PROVE WatchInv'
  BY <1>1 DEF Start, Goto
<1>2. ASSUME NEW f \in Sources, AcquireSlot(f) PROVE WatchInv'
  BY <1>2 DEF AcquireSlot, Goto, Resolving, Untimed
<1>3. ASSUME NEW f \in Sources, AcquireTimesOut(f) PROVE WatchInv'
  BY <1>3 DEF AcquireTimesOut, Fail, Goto, Resolving, Untimed
<1>4. ASSUME NEW f \in Sources, SpawnResolver(f) PROVE WatchInv'
  BY <1>4 DEF SpawnResolver, Goto, Resolving, Untimed, Call
<1>5. ASSUME NEW f \in Sources, HolderReleases(f) PROVE WatchInv'
  BY <1>5 DEF HolderReleases, Fail, Goto, Resolving, Untimed
<1>6. ASSUME NEW f \in Sources, TakeAnswer(f) PROVE WatchInv'
  <2>1. CASE InTime(f) /\ answer[Call(f)] = "usable"
    BY <1>6, <2>1 DEF TakeAnswer, Fail, Goto, Resolving, Untimed
  <2>2. CASE ~(InTime(f) /\ answer[Call(f)] = "usable")
    BY <1>6, <2>2, FailReaches DEF TakeAnswer, Resolving, Untimed
  <2> QED BY <1>6, <2>1, <2>2 DEF TakeAnswer
<1>7. ASSUME NEW f \in Sources, AnswerTimesOut(f) PROVE WatchInv'
  BY <1>7 DEF AnswerTimesOut, Fail, Goto, Resolving, Untimed
<1>8. ASSUME NEW f \in Sources, Connect(f) PROVE WatchInv'
  <2>1. CASE InTime(f) /\ Goto(f, "connected") /\ conn' = [conn EXCEPT ![f] = Socket(f, "raw")]
    BY <1>8, <2>1 DEF Connect, Connecting, Untimed, Goto, Fail
  <2>2. CASE Fail(f)
    BY <1>8, <2>2, FailReaches DEF Connect, Connecting, Untimed
  <2> QED BY <1>8, <2>1, <2>2 DEF Connect
<1>9. ASSUME NEW f \in Sources, WatchRaw(f) PROVE WatchInv'
  <2>1. /\ Established(f)' => conn'[f] \in watched'[f]
        /\ f \in expired => watched'[f] = {}
        /\ \A g \in Sources \ {f} : conn'[g] = conn[g] /\ watched'[g] = watched[g]
    BY <1>9, ConnectionTypes, WatchReaches DEF WatchRaw
  <2>2. SUFFICES ASSUME NEW g \in Sources PROVE Reached(g)'
    BY DEF WatchInv
  <2>3. CASE g = f
    BY <1>9, <2>1, <2>3 DEF WatchRaw, Connecting, Untimed, Goto
  <2>4. CASE g # f
    BY <1>9, <2>1, <2>4 DEF WatchRaw, Connecting, Untimed, Goto
  <2> QED BY <2>3, <2>4
<1>10. ASSUME NEW f \in Sources, Wrap(f) PROVE WatchInv'
  <2>1. CASE conn[f] = Cut
    BY <1>10, <2>1, FailReaches DEF Wrap, Connecting, Untimed
  <2>2. CASE conn[f] # Cut
    <3>1. SUFFICES ASSUME NEW g \in Sources PROVE Reached(g)'
      BY DEF WatchInv
    <3>2. CASE g = f
      BY <1>10, <2>2, <3>2 DEF Wrap, Connecting, Untimed, Goto
    <3>3. CASE g # f
      BY <1>10, <2>2, <3>3 DEF Wrap, Connecting, Untimed, Goto
    <3> QED BY <3>2, <3>3
  <2> QED BY <1>10, <2>1, <2>2 DEF Wrap
<1>11. ASSUME NEW f \in Sources, WatchTls(f) PROVE WatchInv'
  <2>1. /\ Established(f)' => conn'[f] \in watched'[f]
        /\ f \in expired => watched'[f] = {}
        /\ \A g \in Sources \ {f} : conn'[g] = conn[g] /\ watched'[g] = watched[g]
    <3>1. /\ Socket(f, "tls") \in Sockets /\ Socket(f, "tls") \notin {Socket(f, "raw")}
          /\ Established(f) => conn[f] = Socket(f, "tls")
          /\ f \in expired => watched[f] = {}
          /\ f \notin closed
      BY <1>11 DEF WatchTls
    <3> HIDE DEF Socket, Established, Reached, WatchInv, FetchTypeOK
    <3> QED BY <1>11, <3>1, WatchReaches DEF WatchTls
  <2>2. SUFFICES ASSUME NEW g \in Sources PROVE Reached(g)'
    BY DEF WatchInv
  <2>3. CASE g = f
    BY <1>11, <2>1, <2>3 DEF WatchTls, Connecting, Untimed, Goto
  <2>4. CASE g # f
    BY <1>11, <2>1, <2>4 DEF WatchTls, Connecting, Untimed, Goto
  <2> QED BY <2>3, <2>4
<1>12. ASSUME NEW f \in Sources, Stop(f) PROVE WatchInv'
  BY <1>12 DEF Stop, Goto
<1>13. ASSUME NEW f \in Sources, DeadlinePasses(f) PROVE WatchInv'
  BY <1>13 DEF DeadlinePasses
<1>14. ASSUME NEW f \in Sources, WatchdogExpires(f) PROVE WatchInv'
  <2>1. CASE f \in closed
    BY <1>14, <2>1 DEF WatchdogExpires
  <2>2. CASE f \notin closed
    BY <1>14, <2>2 DEF WatchdogExpires
  <2> QED BY <1>14, <2>1, <2>2 DEF WatchdogExpires
<1>15. ASSUME NEW f \in Sources, WatchdogInterrupts(f) PROVE WatchInv'
  BY <1>15 DEF WatchdogInterrupts, Interrupted
<1>16. ASSUME NEW f \in Sources, ServerShakesHands(f) PROVE WatchInv'
  BY <1>16 DEF ServerShakesHands, Connecting, Untimed, Goto
<1>17. ASSUME NEW f \in Sources, ServerResponds(f) PROVE WatchInv'
  <2>1. CASE InTime(f)
    BY <1>17, <2>1 DEF ServerResponds, Connecting, Untimed, Goto, Fail
  <2>2. CASE ~InTime(f)
    BY <1>17, <2>2, FailReaches DEF ServerResponds, Connecting, Untimed
  <2> QED BY <1>17, <2>1, <2>2 DEF ServerResponds
<1>18. ASSUME NEW f \in Sources, ServerRedirects(f) PROVE WatchInv'
  BY <1>18 DEF ServerRedirects, Goto, Untimed
<1>19. ASSUME NEW f \in Sources, CallFails(f) PROVE WatchInv'
  BY <1>19 DEF CallFails, Connecting, Untimed, Goto, Fail
<1>20. ASSUME NEW f \in Sources, BodyEnds(f) PROVE WatchInv'
  <2>1. CASE InTime(f)
    <3>1. SUFFICES ASSUME NEW g \in Sources PROVE Reached(g)'
      BY DEF WatchInv
    <3>2. CASE g = f
      BY <1>20, <2>1, <3>2, ZenonT(90) DEF BodyEnds, Untimed, Goto
    <3>3. CASE g # f
      BY <1>20, <2>1, <3>3 DEF BodyEnds, Untimed, Goto
    <3> QED BY <3>2, <3>3
  <2>2. CASE ~InTime(f)
    BY <1>20, <2>2, FailReaches DEF BodyEnds, Untimed
  <2> QED BY <1>20, <2>1, <2>2 DEF BodyEnds
<1>21. ASSUME NEW f \in Sources, BodyFails(f) PROVE WatchInv'
  BY <1>21 DEF BodyFails, Connecting, Untimed, Goto, Fail
<1>22. ASSUME NEW c \in Calls, ResolverAnswers(c) PROVE WatchInv'
  BY <1>22 DEF ResolverAnswers, Resolving, Untimed
<1>23. ASSUME NEW c \in Calls, ResolverReleases(c) PROVE WatchInv'
  BY <1>23 DEF ResolverReleases, Resolving, Untimed
<1>24. ASSUME ConsumeNext PROVE WatchInv'
  BY <1>24, SMTT(40) DEF ConsumeNext
<1>25. ASSUME ShutDown PROVE WatchInv'
  BY <1>25 DEF ShutDown
<1> QED BY <1>1, <1>2, <1>3, <1>4, <1>5, <1>6, <1>7, <1>8, <1>9, <1>10, <1>11, <1>12, <1>13, <1>14, <1>15, <1>16, <1>17, <1>18, <1>19, <1>20, <1>21, <1>22, <1>23, <1>24, <1>25, FetchNext DEF FetchNext, Progress

\* A resolver thread is only started for the hop that is resolving.
LEMMA FreshStep ==
  ASSUME FetchTypeOK, FreshInv, FetchNext
  PROVE  FreshInv'
<1> USE FetchAssumption DEF FetchTypeOK, FreshInv, Calls, Ended
<1>1. ASSUME NEW f \in Sources, Start(f) PROVE FreshInv'
  BY <1>1 DEF Start, Goto
<1>2. ASSUME NEW f \in Sources, AcquireSlot(f) PROVE FreshInv'
  BY <1>2 DEF AcquireSlot, Goto, Resolving, Untimed
<1>3. ASSUME NEW f \in Sources, AcquireTimesOut(f) PROVE FreshInv'
  BY <1>3 DEF AcquireTimesOut, Fail, Goto, Resolving, Untimed
<1>4. ASSUME NEW f \in Sources, SpawnResolver(f) PROVE FreshInv'
  BY <1>4 DEF SpawnResolver, Goto, Resolving, Untimed, Call
<1>5. ASSUME NEW f \in Sources, HolderReleases(f) PROVE FreshInv'
  BY <1>5 DEF HolderReleases, Fail, Goto, Resolving, Untimed
<1>6. ASSUME NEW f \in Sources, TakeAnswer(f) PROVE FreshInv'
  BY <1>6 DEF TakeAnswer, Fail, Goto, Resolving, Untimed
<1>7. ASSUME NEW f \in Sources, AnswerTimesOut(f) PROVE FreshInv'
  BY <1>7 DEF AnswerTimesOut, Fail, Goto, Resolving, Untimed
<1>8. ASSUME NEW f \in Sources, Connect(f) PROVE FreshInv'
  BY <1>8 DEF Connect, Connecting, Untimed, Goto, Fail, Socket
<1>9. ASSUME NEW f \in Sources, WatchRaw(f) PROVE FreshInv'
  BY <1>9 DEF WatchRaw, Watch, Interrupted, Connecting, Untimed, Goto, Socket
<1>10. ASSUME NEW f \in Sources, Wrap(f) PROVE FreshInv'
  BY <1>10 DEF Wrap, Connecting, Untimed, Goto, Fail, Socket
<1>11. ASSUME NEW f \in Sources, WatchTls(f) PROVE FreshInv'
  BY <1>11 DEF WatchTls, Watch, Interrupted, Connecting, Untimed, Goto, Socket
<1>12. ASSUME NEW f \in Sources, Stop(f) PROVE FreshInv'
  BY <1>12 DEF Stop, Goto
<1>13. ASSUME NEW f \in Sources, DeadlinePasses(f) PROVE FreshInv'
  BY <1>13 DEF DeadlinePasses
<1>14. ASSUME NEW f \in Sources, WatchdogExpires(f) PROVE FreshInv'
  BY <1>14 DEF WatchdogExpires
<1>15. ASSUME NEW f \in Sources, WatchdogInterrupts(f) PROVE FreshInv'
  BY <1>15 DEF WatchdogInterrupts, Interrupted
<1>16. ASSUME NEW f \in Sources, ServerShakesHands(f) PROVE FreshInv'
  BY <1>16 DEF ServerShakesHands, Connecting, Untimed, Goto
<1>17. ASSUME NEW f \in Sources, ServerResponds(f) PROVE FreshInv'
  BY <1>17 DEF ServerResponds, Connecting, Untimed, Goto, Fail
<1>18. ASSUME NEW f \in Sources, ServerRedirects(f) PROVE FreshInv'
  BY <1>18 DEF ServerRedirects, Goto, Untimed
<1>19. ASSUME NEW f \in Sources, CallFails(f) PROVE FreshInv'
  BY <1>19 DEF CallFails, Connecting, Untimed, Goto, Fail
<1>20. ASSUME NEW f \in Sources, BodyEnds(f) PROVE FreshInv'
  BY <1>20 DEF BodyEnds, Goto, Fail, Untimed
<1>21. ASSUME NEW f \in Sources, BodyFails(f) PROVE FreshInv'
  BY <1>21 DEF BodyFails, Connecting, Untimed, Goto, Fail
<1>22. ASSUME NEW c \in Calls, ResolverAnswers(c) PROVE FreshInv'
  BY <1>22 DEF ResolverAnswers, Resolving, Untimed
<1>23. ASSUME NEW c \in Calls, ResolverReleases(c) PROVE FreshInv'
  BY <1>23 DEF ResolverReleases, Resolving, Untimed
<1>24. ASSUME ConsumeNext PROVE FreshInv'
  BY <1>24 DEF ConsumeNext
<1>25. ASSUME ShutDown PROVE FreshInv'
  BY <1>25 DEF ShutDown
<1> QED BY <1>1, <1>2, <1>3, <1>4, <1>5, <1>6, <1>7, <1>8, <1>9, <1>10, <1>11, <1>12, <1>13, <1>14, <1>15, <1>16, <1>17, <1>18, <1>19, <1>20, <1>21, <1>22, <1>23, <1>24, <1>25, FetchNext DEF FetchNext, Progress

\* The three places a permit of _DNS_SLOTS can be in.
Holding == {f \in Sources : pc[f] = "holding"}
Held == {c \in Calls : resolver[c] \in {"running", "releasing"}}

LEMMA FiniteSlots == IsFiniteSet(Holding) /\ IsFiniteSet(Held)
<1>1. Order \in Surjection(1 .. Len(Order), Sources)
  BY FetchAssumption DEF Sources, Surjection
<1>2. IsFiniteSet(1 .. Len(Order)) /\ IsFiniteSet(0 .. Hops - 1)
  BY FetchAssumption, FS_Interval
<1>3. IsFiniteSet(Sources)
  BY <1>1, <1>2, FS_Surjection DEF ExistsSurjection
<1>4. IsFiniteSet(Calls)
  BY <1>2, <1>3, FS_Product DEF Calls
<1> QED BY <1>3, <1>4, FS_Subset DEF Holding, Held

\* Most steps move no permit.
LEMMA NoPermitMoves ==
  ASSUME SlotsAreConserved, Holding' = Holding, Held' = Held, free' = free
  PROVE  SlotsAreConserved'
BY DEF SlotsAreConserved, Holding, Held

\* The others move one.
LEMMA PermitMoves ==
  ASSUME SlotsAreConserved,
         free' + Cardinality(Holding') + Cardinality(Held') = free + Cardinality(Holding) + Cardinality(Held)
  PROVE  SlotsAreConserved'
BY DEF SlotsAreConserved, Holding, Held

LEMMA PermitsAreNumbers == Cardinality(Holding) \in Nat /\ Cardinality(Held) \in Nat
BY FiniteSlots, FS_CardinalityType

\* Every step hands a permit from one place to another, or leaves it.
LEMMA SlotStep ==
  ASSUME FetchTypeOK, FreshInv, SlotsAreConserved, FetchNext
  PROVE  SlotsAreConserved'
<1> USE DEF FetchTypeOK, Calls
<1>1. ASSUME NEW f \in Sources, AcquireSlot(f) PROVE SlotsAreConserved'
  <2>1. Holding' = Holding \cup {f} /\ f \notin Holding /\ Held' = Held
    BY <1>1 DEF AcquireSlot, Goto, Resolving, Untimed, Holding, Held
  <2>2. Cardinality(Holding') = Cardinality(Holding) + 1
    BY <2>1, FiniteSlots, FS_AddElement
  <2>3. free' = free - 1
    BY <1>1 DEF AcquireSlot
  <2> QED BY <2>1, <2>2, <2>3, PermitsAreNumbers, PermitMoves
<1>2. ASSUME NEW f \in Sources, SpawnResolver(f) PROVE SlotsAreConserved'
  <2>1. Call(f) \in Calls /\ resolver[Call(f)] = "none"
    BY <1>2 DEF SpawnResolver, Call, FreshInv
  <2>2. Holding' = Holding \ {f} /\ f \in Holding
    BY <1>2 DEF SpawnResolver, Goto, Holding
  <2>3. Held' = Held \cup {Call(f)} /\ Call(f) \notin Held
    BY <1>2, <2>1 DEF SpawnResolver, Held
  <2>4. Cardinality(Holding') = Cardinality(Holding) - 1
    BY <2>2, FiniteSlots, FS_RemoveElement
  <2>5. Cardinality(Held') = Cardinality(Held) + 1
    BY <2>3, FiniteSlots, FS_AddElement
  <2>6. free' = free
    BY <1>2 DEF SpawnResolver
  <2> QED BY <2>4, <2>5, <2>6, PermitsAreNumbers, PermitMoves
<1>3. ASSUME NEW f \in Sources, HolderReleases(f) PROVE SlotsAreConserved'
  <2>1. Holding' = Holding \ {f} /\ f \in Holding /\ Held' = Held
    BY <1>3 DEF HolderReleases, Fail, Goto, Resolving, Untimed, Holding, Held
  <2>2. Cardinality(Holding') = Cardinality(Holding) - 1
    BY <2>1, FiniteSlots, FS_RemoveElement
  <2>3. free' = free + 1
    BY <1>3 DEF HolderReleases
  <2> QED BY <2>1, <2>2, <2>3, PermitsAreNumbers, PermitMoves
<1>4. ASSUME NEW c \in Calls, ResolverReleases(c) PROVE SlotsAreConserved'
  <2>1. Held' = Held \ {c} /\ c \in Held /\ Holding' = Holding
    BY <1>4 DEF ResolverReleases, Resolving, Untimed, Holding, Held
  <2>2. Cardinality(Held') = Cardinality(Held) - 1
    BY <2>1, FiniteSlots, FS_RemoveElement
  <2>3. free' = free + 1
    BY <1>4 DEF ResolverReleases
  <2> QED BY <2>1, <2>2, <2>3, PermitsAreNumbers, PermitMoves
<1>5. ASSUME NEW f \in Sources, Start(f) PROVE SlotsAreConserved'
  BY <1>5, NoPermitMoves DEF Start, Goto, Holding, Held
<1>6. ASSUME NEW f \in Sources, AcquireTimesOut(f) PROVE SlotsAreConserved'
  BY <1>6, NoPermitMoves DEF AcquireTimesOut, Fail, Goto, Resolving, Untimed, Holding, Held
<1>7. ASSUME NEW f \in Sources, TakeAnswer(f) PROVE SlotsAreConserved'
  BY <1>7, NoPermitMoves DEF TakeAnswer, Fail, Goto, Resolving, Untimed, Holding, Held
<1>8. ASSUME NEW f \in Sources, AnswerTimesOut(f) PROVE SlotsAreConserved'
  BY <1>8, NoPermitMoves DEF AnswerTimesOut, Fail, Goto, Resolving, Untimed, Holding, Held
<1>9. ASSUME NEW f \in Sources, Connect(f) PROVE SlotsAreConserved'
  BY <1>9, NoPermitMoves DEF Connect, Connecting, Untimed, Goto, Fail, Holding, Held
<1>10. ASSUME NEW f \in Sources, WatchRaw(f) PROVE SlotsAreConserved'
  BY <1>10, NoPermitMoves DEF WatchRaw, Connecting, Untimed, Goto, Holding, Held
<1>11. ASSUME NEW f \in Sources, Wrap(f) PROVE SlotsAreConserved'
  BY <1>11, NoPermitMoves DEF Wrap, Connecting, Untimed, Goto, Fail, Holding, Held
<1>12. ASSUME NEW f \in Sources, WatchTls(f) PROVE SlotsAreConserved'
  BY <1>12, NoPermitMoves DEF WatchTls, Connecting, Untimed, Goto, Holding, Held
<1>13. ASSUME NEW f \in Sources, Stop(f) PROVE SlotsAreConserved'
  BY <1>13, NoPermitMoves DEF Stop, Goto, Holding, Held
<1>14. ASSUME NEW f \in Sources, DeadlinePasses(f) PROVE SlotsAreConserved'
  BY <1>14, NoPermitMoves DEF DeadlinePasses, Holding, Held
<1>15. ASSUME NEW f \in Sources, WatchdogExpires(f) PROVE SlotsAreConserved'
  BY <1>15, NoPermitMoves DEF WatchdogExpires, Holding, Held
<1>16. ASSUME NEW f \in Sources, WatchdogInterrupts(f) PROVE SlotsAreConserved'
  BY <1>16, NoPermitMoves DEF WatchdogInterrupts, Holding, Held
<1>17. ASSUME NEW f \in Sources, ServerShakesHands(f) PROVE SlotsAreConserved'
  BY <1>17, NoPermitMoves DEF ServerShakesHands, Connecting, Untimed, Goto, Holding, Held
<1>18. ASSUME NEW f \in Sources, ServerResponds(f) PROVE SlotsAreConserved'
  BY <1>18, NoPermitMoves DEF ServerResponds, Connecting, Untimed, Goto, Fail, Holding, Held
<1>19. ASSUME NEW f \in Sources, ServerRedirects(f) PROVE SlotsAreConserved'
  BY <1>19, NoPermitMoves DEF ServerRedirects, Goto, Untimed, Holding, Held
<1>20. ASSUME NEW f \in Sources, CallFails(f) PROVE SlotsAreConserved'
  BY <1>20, NoPermitMoves DEF CallFails, Connecting, Untimed, Goto, Fail, Holding, Held
<1>21. ASSUME NEW f \in Sources, BodyEnds(f) PROVE SlotsAreConserved'
  BY <1>21, NoPermitMoves DEF BodyEnds, Goto, Fail, Untimed, Holding, Held
<1>22. ASSUME NEW f \in Sources, BodyFails(f) PROVE SlotsAreConserved'
  BY <1>22, NoPermitMoves DEF BodyFails, Connecting, Untimed, Goto, Fail, Holding, Held
<1>23. ASSUME NEW c \in Calls, ResolverAnswers(c) PROVE SlotsAreConserved'
  BY <1>23, NoPermitMoves DEF ResolverAnswers, Resolving, Untimed, Holding, Held
<1>24. ASSUME ConsumeNext PROVE SlotsAreConserved'
  BY <1>24, NoPermitMoves DEF ConsumeNext, Holding, Held
<1>25. ASSUME ShutDown PROVE SlotsAreConserved'
  BY <1>25, NoPermitMoves DEF ShutDown, Holding, Held
<1> QED BY <1>1, <1>2, <1>3, <1>4, <1>5, <1>6, <1>7, <1>8, <1>9, <1>10, <1>11, <1>12, <1>13, <1>14, <1>15, <1>16, <1>17, <1>18, <1>19, <1>20, <1>21, <1>22, <1>23, <1>24, <1>25, FetchNext DEF FetchNext, Progress

\* The inductive invariant holds initially and is kept.
LEMMA Started == FetchInit => FetchInv
<1> SUFFICES ASSUME FetchInit PROVE FetchInv
  OBVIOUS
<1>1. FetchTypeOK
  BY FetchAssumption, ConnectionTypes DEF FetchInit, FetchTypeOK, Places, Calls
<1>2. WatchInv
  BY DEF FetchInit, WatchInv, Reached, Established, Socket
<1>3. FreshInv
  BY DEF FetchInit, FreshInv, Calls
<1>4. Holding = {} /\ Held = {} /\ free = Slots
  BY DEF FetchInit, Holding, Held
<1>5. SlotsAreConserved
  <2>1. Cardinality(Holding) = 0 /\ Cardinality(Held) = 0
    BY <1>4, FS_EmptySet
  <2>2. free + 0 + 0 = Slots
    BY <1>4, FetchAssumption
  <2> QED BY <2>1, <2>2 DEF SlotsAreConserved, Holding, Held
<1> QED BY <1>1, <1>2, <1>3, <1>5 DEF FetchInv

LEMMA Kept == FetchInv /\ [FetchNext]_fetchVars => FetchInv'
<1>1. FetchInv /\ FetchNext => FetchInv'
  BY TypeStep, WatchStep, FreshStep, SlotStep DEF FetchInv
<1>2. FetchInv /\ UNCHANGED fetchVars => FetchInv'
  BY DEF FetchInv, fetchVars, FetchTypeOK, WatchInv, Reached, Established, Socket, FreshInv, SlotsAreConserved
<1> QED BY <1>1, <1>2

\* fetch.py: whatever the order of connections, redirects, resolvers and
\* watchdogs, the connections stay within reach and the slots are counted.
THEOREM FetchInvariant == FetchSpec => []FetchInv
BY Started, Kept, PTL DEF FetchSpec

\* fetch.py: type correctness of the fetches and of the build's executor.
THEOREM FetchTypes == FetchSpec => []FetchTypeOK
<1>1. FetchInv => FetchTypeOK
  BY DEF FetchInv
<1> QED BY <1>1, FetchInvariant, PTL

\* fetch.py _Deadline: after the watchdog of a fetch has run, nothing is left
\* that a read of that fetch could block on.
THEOREM DeadlinesCut == FetchSpec => []DeadlineCutsConnections
<1>1. FetchInv => DeadlineCutsConnections
  <2>1. SUFFICES ASSUME FetchInv, NEW f \in Sources, timer[f] = "done", Established(f)
                 PROVE  pc[f] \in {"connected", "wrapped"}
    BY DEF DeadlineCutsConnections
  <2>2. Reached(f) /\ pc[f] \in Places
    BY <2>1 DEF FetchInv, WatchInv, FetchTypeOK
  <2> QED BY <2>1, <2>2 DEF Reached, Idle, Ended
<1> QED BY <1>1, FetchInvariant, PTL

\* fetch.py _DNS_SLOTS: however many resolvers are left behind, every permit
\* is free, with a fetch about to start a resolver, or with a resolver.
THEOREM SlotsConserved == FetchSpec => []SlotsAreConserved
<1>1. FetchInv => SlotsAreConserved
  BY DEF FetchInv
<1> QED BY <1>1, FetchInvariant, PTL

\* Seen from the build, a fetch is queued, running or ended.
Task == [f \in Sources |-> IF pc[f] \in Ended \cup {"queued"} THEN pc[f] ELSE "running"]
PoolStep == [Pool!PoolNext]_(Pool!poolVars)

\* What a fetch does between its start and its end is invisible to the pool.
LEMMA Invisible ==
  ASSUME Task' = Task, UNCHANGED <<consumed, build>>
  PROVE  PoolStep
BY DEF PoolStep, Pool!poolVars, Task

LEMMA StepRefines ==
  ASSUME FetchTypeOK, FetchNext
  PROVE  PoolStep
<1> USE DEF FetchTypeOK
<1>1. ASSUME NEW f \in Sources, Start(f) PROVE PoolStep
  <2>1. Pool!Running = Active
    BY DEF Pool!Running, Pool!Sources, Active, Sources, Ended
  <2>2. Task[f] = "queued" /\ Task' = [Task EXCEPT ![f] = "running"]
    BY <1>1 DEF Start, Goto, Task, Ended
  <2>3. \A i, j \in DOMAIN Order : i < j /\ Order[j] = f => Task[Order[i]] # "queued"
    BY <1>1 DEF Start, Task, Sources, Ended
  <2>4. Pool!Cardinality(Pool!Running) < Workers /\ UNCHANGED <<consumed, build>>
    <3>1. Pool!Cardinality(Active) = Cardinality(Active)
      BY DEF Pool!Cardinality, Cardinality
    <3> QED BY <1>1, <2>1, <3>1 DEF Start
  <2>5. Pool!TaskStarts(f)
    <3> HIDE DEF FetchTypeOK
    <3> QED BY <2>2, <2>3, <2>4, Zenon DEF Pool!TaskStarts, Task
  <2> QED BY <2>5 DEF PoolStep, Pool!PoolNext, Pool!Sources, Sources
<1>2. ASSUME NEW f \in Sources, Stop(f) PROVE PoolStep
  <2>1. PICK how \in {"ok", "failed"} : Goto(f, how)
    BY <1>2 DEF Stop
  <2>2. Task[f] = "running" /\ Task' = [Task EXCEPT ![f] = how]
    BY <1>2, <2>1 DEF Stop, Goto, Task, Ended
  <2>3. Pool!TaskEnds(f, how)
    BY <1>2, <2>2 DEF Stop, Pool!TaskEnds, Task
  <2> QED BY <2>3 DEF PoolStep, Pool!PoolNext, Pool!Sources, Sources
<1>3. ASSUME ConsumeNext PROVE PoolStep
  <2>1. PICK usable \in BOOLEAN :
          /\ build = "consuming" /\ consumed < Len(Order)
          /\ LET f == Order[consumed + 1]
             IN /\ pc[f] = "ok" \/ (pc[f] = "failed" /\ ~usable)
                /\ consumed' = consumed + 1
                /\ IF ~usable /\ f \in Fatal
                   THEN /\ build' = "aborting"
                        /\ pc' = [g \in Sources |-> IF pc[g] = "queued" THEN "cancelled" ELSE pc[g]]
                   ELSE UNCHANGED <<pc, build>>
    BY <1>3 DEF ConsumeNext
  <2> DEFINE next == Order[consumed + 1]
  <2>2. next \in Sources
    BY <2>1, FetchAssumption DEF Sources
  <2>3. Task[next] = "ok" \/ (Task[next] = "failed" /\ ~usable)
    BY <2>1, <2>2 DEF Task, Ended
  <2>4. ~usable /\ next \in Fatal =>
          Task' = [g \in Sources |-> IF Task[g] = "queued" THEN "cancelled" ELSE Task[g]]
    BY <2>1 DEF Task, Ended
  <2>5. ~(~usable /\ next \in Fatal) => Task' = Task
    BY <2>1 DEF Task
  <2>6. Pool!Consume(usable)
    BY <2>1, <2>3, <2>4, <2>5 DEF Pool!Consume, Pool!Sources, Sources, Task
  <2> QED BY <2>6 DEF PoolStep, Pool!PoolNext
<1>4. ASSUME ShutDown PROVE PoolStep
  <2>1. Pool!Running = {} /\ Task' = Task
    BY <1>4 DEF ShutDown, Pool!Running, Pool!Sources, Active, Sources, Task, Ended
  <2>2. Pool!ShutDown
    BY <1>4, <2>1 DEF ShutDown, Pool!ShutDown, Task
  <2> QED BY <2>2 DEF PoolStep, Pool!PoolNext
<1>5. ASSUME NEW f \in Sources, AcquireSlot(f) PROVE PoolStep
  BY <1>5, Invisible DEF AcquireSlot, Goto, Resolving, Untimed, Task, Ended
<1>6. ASSUME NEW f \in Sources, AcquireTimesOut(f) PROVE PoolStep
  BY <1>6, Invisible DEF AcquireTimesOut, Fail, Goto, Resolving, Untimed, Task, Ended
<1>7. ASSUME NEW f \in Sources, SpawnResolver(f) PROVE PoolStep
  BY <1>7, Invisible DEF SpawnResolver, Goto, Resolving, Untimed, Task, Ended
<1>8. ASSUME NEW f \in Sources, HolderReleases(f) PROVE PoolStep
  BY <1>8, Invisible DEF HolderReleases, Fail, Goto, Resolving, Untimed, Task, Ended
<1>9. ASSUME NEW f \in Sources, TakeAnswer(f) PROVE PoolStep
  BY <1>9, Invisible DEF TakeAnswer, Fail, Goto, Resolving, Untimed, Task, Ended
<1>10. ASSUME NEW f \in Sources, AnswerTimesOut(f) PROVE PoolStep
  BY <1>10, Invisible DEF AnswerTimesOut, Fail, Goto, Resolving, Untimed, Task, Ended
<1>11. ASSUME NEW f \in Sources, Connect(f) PROVE PoolStep
  BY <1>11, Invisible DEF Connect, Connecting, Untimed, Goto, Fail, Task, Ended
<1>12. ASSUME NEW f \in Sources, WatchRaw(f) PROVE PoolStep
  BY <1>12, Invisible DEF WatchRaw, Connecting, Untimed, Goto, Task, Ended
<1>13. ASSUME NEW f \in Sources, Wrap(f) PROVE PoolStep
  BY <1>13, Invisible DEF Wrap, Connecting, Untimed, Goto, Fail, Task, Ended
<1>14. ASSUME NEW f \in Sources, WatchTls(f) PROVE PoolStep
  BY <1>14, Invisible DEF WatchTls, Connecting, Untimed, Goto, Task, Ended
<1>15. ASSUME NEW f \in Sources, DeadlinePasses(f) PROVE PoolStep
  BY <1>15, Invisible DEF DeadlinePasses, Task
<1>16. ASSUME NEW f \in Sources, WatchdogExpires(f) PROVE PoolStep
  BY <1>16, Invisible DEF WatchdogExpires, Task
<1>17. ASSUME NEW f \in Sources, WatchdogInterrupts(f) PROVE PoolStep
  BY <1>17, Invisible DEF WatchdogInterrupts, Task
<1>18. ASSUME NEW f \in Sources, ServerShakesHands(f) PROVE PoolStep
  BY <1>18, Invisible DEF ServerShakesHands, Connecting, Untimed, Goto, Task, Ended
<1>19. ASSUME NEW f \in Sources, ServerResponds(f) PROVE PoolStep
  BY <1>19, Invisible DEF ServerResponds, Connecting, Untimed, Goto, Fail, Task, Ended
<1>20. ASSUME NEW f \in Sources, ServerRedirects(f) PROVE PoolStep
  BY <1>20, Invisible DEF ServerRedirects, Goto, Untimed, Task, Ended
<1>21. ASSUME NEW f \in Sources, CallFails(f) PROVE PoolStep
  BY <1>21, Invisible DEF CallFails, Connecting, Untimed, Goto, Fail, Task, Ended
<1>22. ASSUME NEW f \in Sources, BodyEnds(f) PROVE PoolStep
  BY <1>22, Invisible DEF BodyEnds, Goto, Fail, Untimed, Task, Ended
<1>23. ASSUME NEW f \in Sources, BodyFails(f) PROVE PoolStep
  BY <1>23, Invisible DEF BodyFails, Connecting, Untimed, Goto, Fail, Task, Ended
<1>24. ASSUME NEW c \in Calls, ResolverAnswers(c) PROVE PoolStep
  BY <1>24, Invisible DEF ResolverAnswers, Resolving, Untimed, Task, Ended
<1>25. ASSUME NEW c \in Calls, ResolverReleases(c) PROVE PoolStep
  BY <1>25, Invisible DEF ResolverReleases, Resolving, Untimed, Task, Ended
<1> QED BY <1>1, <1>2, <1>3, <1>4, <1>5, <1>6, <1>7, <1>8, <1>9, <1>10, <1>11, <1>12, <1>13, <1>14, <1>15, <1>16, <1>17, <1>18, <1>19, <1>20, <1>21, <1>22, <1>23, <1>24, <1>25, FetchNext DEF FetchNext, Progress

\* builder.py: the fetches do only what a bounded pool that hands over its
\* results in the declared order may do. That each of them ends is checked
\* by TLC, with the fairness of the threads.
THEOREM StepsImplementPool == FetchSpec => Pool!PoolInit /\ [][Pool!PoolNext]_(Pool!poolVars)
<1>1. FetchInit => Pool!PoolInit
  BY DEF FetchInit, Pool!PoolInit, Pool!Sources, Sources, Ended
<1>2. FetchTypeOK /\ [FetchNext]_fetchVars => [Pool!PoolNext]_(Pool!poolVars)
  <2>1. FetchTypeOK /\ FetchNext => PoolStep
    BY StepRefines
  <2>2. UNCHANGED fetchVars => PoolStep
    BY Invisible DEF fetchVars, Task
  <2> QED BY <2>1, <2>2 DEF PoolStep
<1> QED BY <1>1, <1>2, FetchTypes, PTL DEF FetchSpec

=============================================================================
