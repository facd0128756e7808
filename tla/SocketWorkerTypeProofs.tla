------------------------- MODULE SocketWorkerTypeProofs -----------------------
(* Every step of SocketWorker keeps the types: lemmas for SocketWorkerProofs. *)
EXTENDS SocketWorkerProperties, TLAPS

Messages == Seq([to : SUBSET StreamIds, event : EventNames])

LEMMA PostType ==
  ASSUME NEW to \in SUBSET StreamIds, NEW event \in EventNames
  PROVE  Post(to, event) \in Messages
<1>1. [to |-> to, event |-> event] \in [to : SUBSET StreamIds, event : EventNames]
  OBVIOUS
<1>2. <<>> \in Messages
  BY DEF Messages
<1>3. <<[to |-> to, event |-> event]>> \in Messages
  BY <1>1 DEF Messages
<1> QED
  BY <1>2, <1>3 DEF Post

LEMMA ConcatType ==
  ASSUME NEW a \in Messages, NEW b \in Messages
  PROVE  a \o b \in Messages
BY DEF Messages

LEMMA NoMessages == <<>> \in Messages
BY DEF Messages

LEMMA ReplyType ==
  ASSUME NEW s \in StreamIds, NEW ok \in BOOLEAN
  PROVE  Reply(s, ok) \in Messages
<1>1. {s} \in SUBSET StreamIds
  OBVIOUS
<1>2. (IF ok THEN "ok" ELSE "fail") \in EventNames
  BY DEF EventNames
<1> QED
  BY <1>1, <1>2, PostType DEF Reply

LEMMA PostPoolType ==
  ASSUME TypeOK, NEW p \in Pools, NEW event \in EventNames
  PROVE  PostPool(p, event) \in Messages
<1>1. members[p] \in SUBSET StreamIds
  BY DEF TypeOK
<1> QED
  BY <1>1, PostType DEF PostPool

LEMMA OwnedAfterType ==
  ASSUME NEW owned, NEW fs
  PROVE  OwnedAfter(owned, fs) \in SUBSET StreamIds
BY DEF OwnedAfter

LEMMA ServerReadsType ==
  ASSUME TypeOK, NEW k \in Sockets, NEW owned, NEW fs, ServerReads(k, owned, fs)
  PROVE  /\ announced' \in [Sockets -> SUBSET StreamIds]
         /\ misled' \subseteq Sockets
<1>1. announced' = [announced EXCEPT ![k] = OwnedAfter(owned, fs)]
  BY DEF ServerReads
<1>2. misled' = misled \/ misled' = misled \cup {k}
  BY DEF ServerReads
<1> QED
  BY <1>1, <1>2, OwnedAfterType DEF TypeOK

WireType == /\ congested \subseteq Sockets /\ misled \subseteq Sockets
            /\ announced \in [Sockets -> SUBSET StreamIds]
            /\ flushTimer \subseteq Pools

LEMMA SendFrameType ==
  ASSUME TypeOK, NEW p \in Pools, NEW q, NEW bytes, NEW f,
         SendFrame(p, q, bytes, f)
  PROVE  WireType'
<1>1. CASE /\ Writable(p)
           /\ ServerReads(socket[p], announced[socket[p]], <<f>>)
           /\ congested' \in {congested, congested \cup {socket[p]}}
           /\ UNCHANGED flushTimer
  <2>1. socket[p] \in Sockets
    BY <1>1 DEF TypeOK, Writable, IsOpen
  <2> QED
    BY <1>1, <2>1, ServerReadsType DEF TypeOK, WireType
<1>2. CASE /\ flushTimer' = IF IsOpen(p) THEN ScheduleFlush(p, Append(q, f), flushTimer)
                                         ELSE flushTimer
           /\ UNCHANGED wire
  BY <1>2 DEF TypeOK, WireType, wire, ScheduleFlush
<1> QED
  BY <1>1, <1>2 DEF SendFrame

LEMMA FlushQueueType ==
  ASSUME TypeOK, NEW p \in Pools, socket[p] \in Sockets, NEW owned,
         NEW armed \in SUBSET Pools, FlushQueue(p, owned, armed)
  PROVE  WireType'
<1>1. PICK fs : ServerReads(socket[p], owned, fs)
  BY DEF FlushQueue
<1>2. congested' \in {congested, congested \cup {socket[p]}}
  BY DEF FlushQueue
<1>3. PICK rest : flushTimer' = ScheduleFlush(p, rest, armed)
  BY DEF FlushQueue
<1> QED
  BY <1>1, <1>2, <1>3, ServerReadsType DEF TypeOK, WireType, ScheduleFlush

LEMMA UnbindType ==
  ASSUME TypeOK, NEW S \in SUBSET StreamIds, Unbind(S)
  PROVE  /\ boundTo' \in [StreamIds -> Pools \cup {None}]
         /\ portOf' \in [StreamIds -> Ports \cup {None}]
         /\ streamsByPort' \in [Ports -> SUBSET StreamIds]
         /\ stale' \subseteq StreamIds /\ evicting' \subseteq StreamIds
BY DEF TypeOK, Unbind, ReleasePortStreams

LEMMA DetachType ==
  ASSUME TypeOK, NEW s \in StreamIds, boundTo[s] \in Pools,
         NEW told \in BOOLEAN, NEW messages \in Messages, Detach(s, told, messages)
  PROVE  TypeOK'
<1> DEFINE p == boundTo[s]
<1>1. WireType'
  <2>1. CASE \E q, bytes, f : SendFrame(p, q, bytes, f)
    BY <2>1, SendFrameType
  <2>2. CASE UNCHANGED <<flushTimer, wire>>
    BY <2>2 DEF TypeOK, WireType, wire
  <2> QED
    BY <2>1, <2>2 DEF Detach
<1>2. Unbind({s})
  BY DEF Detach
<1>3. members' = [members EXCEPT ![p] = @ \ {s}]
  BY DEF Detach
<1>4. idleTimer' \subseteq Pools
  BY DEF Detach, ScheduleIdleClose, TypeOK
<1>5. out' = messages /\ UNCHANGED <<catalog, socket, reconnectTimer, physical>>
  BY DEF Detach
<1> QED
  BY <1>1, <1>2, <1>3, <1>4, <1>5, UnbindType
  DEF TypeOK, WireType, catalog, physical, Messages


LEMMA ClosePoolType ==
  ASSUME TypeOK, NEW p \in Pools, NEW messages \in Messages, ClosePool(p, messages),
         socket' \in [Pools -> Sockets \cup {None}],
         readyState' \in [Sockets -> {"FREE", "CONNECTING", "OPEN", "CLOSING"}],
         creator' \in [Sockets -> Pools \cup {None}],
         congested' \subseteq Sockets, misled' \subseteq Sockets,
         announced' \in [Sockets -> SUBSET StreamIds]
  PROVE  TypeOK'
<1>1. members[p] \in SUBSET StreamIds /\ Unbind(members[p])
  BY DEF ClosePool, TypeOK
<1>2. out' \in Messages
  BY PostPoolType, ConcatType DEF ClosePool, EventNames
<1> QED
  BY <1>1, <1>2, UnbindType DEF TypeOK, ClosePool, Retire, Messages

LEMMA ProtocolViolationType ==
  ASSUME TypeOK, NEW p \in Pools, ProtocolViolation(p)
  PROVE  TypeOK'
<1>1. PostPool(p, "error") \in Messages
  BY PostPoolType DEF EventNames
<1>2. CASE /\ closing' = closing \cup {p}
           /\ readyState' = [readyState EXCEPT ![socket[p]] = "CLOSING"]
           /\ out' = PostPool(p, "error")
           /\ UNCHANGED <<registry, pools, identity, members, socket, timers, backlog,
                          creator, wire>>
  BY <1>1, <1>2 DEF TypeOK, Messages, registry, timers, backlog, wire
<1>3. CASE /\ ClosePool(p, PostPool(p, "error"))
           /\ UNCHANGED <<socket, physical, wire>>
  BY <1>1, <1>3, ClosePoolType DEF TypeOK, physical, wire
<1> QED
  BY <1>2, <1>3 DEF ProtocolViolation

LEMMA JoinPoolType ==
  ASSUME TypeOK, NEW c \in Ports, NEW s \in StreamIds, NEW i \in Identities,
         NEW p \in Pools, JoinPool(c, s, i, p),
         socket' \in [Pools -> Sockets \cup {None}],
         readyState' \in [Sockets -> {"FREE", "CONNECTING", "OPEN", "CLOSING"}],
         creator' \in [Sockets -> Pools \cup {None}],
         WireType', out' \in Messages
  PROVE  TypeOK'
BY ZenonT(60) DEF TypeOK, JoinPool, Register, WireType, Messages, catalog

LEMMA ConnectType ==
  ASSUME TypeOK, NEW p \in Pools, NEW k \in Sockets, Connect(p, k)
  PROVE  /\ socket' \in [Pools -> Sockets \cup {None}]
         /\ readyState' \in [Sockets -> {"FREE", "CONNECTING", "OPEN", "CLOSING"}]
         /\ creator' \in [Sockets -> Pools \cup {None}]
BY DEF TypeOK, Connect

LEMMA OnlyPostType ==
  ASSUME TypeOK, NEW messages \in Messages, OnlyPost(messages)
  PROVE  TypeOK'
BY DEF TypeOK, OnlyPost, Messages, state, registry, catalog, timers, backlog, physical, wire

LEMMA OpenStreamType ==
  ASSUME TypeOK, NEW c \in Ports, NEW s \in StreamIds, NEW i \in Identities,
         OpenStream(c, s, i)
  PROVE  TypeOK'
<1> USE DEF registry, catalog, timers, backlog, physical, wire
<1>1. Reply(s, TRUE) \in Messages /\ Reply(s, FALSE) \in Messages
  BY ReplyType
<1>2. Post({s}, "open") \o Reply(s, TRUE) \in Messages
  BY <1>1, PostType, ConcatType DEF EventNames
<1>3. ASSUME OpenRefused(c, s, i) PROVE TypeOK'
  BY <1>1, <1>3, OnlyPostType DEF OpenRefused
<1>4. ASSUME OpenAgain(c, s, i) PROVE TypeOK'
  BY <1>1, <1>4 DEF OpenAgain, RenewLease, TypeOK, Messages
<1>5. ASSUME OpenWithoutPool(c, s, i) PROVE TypeOK'
  BY <1>1, <1>5 DEF OpenWithoutPool, TypeOK, Messages
<1>6. ASSUME NEW p \in Pools, NEW k \in Sockets, OpenInNewPool(c, s, i, p, k)
      PROVE  TypeOK'
  <2>1. Connect(p, k) /\ Register(c, s, p)
    BY <1>6 DEF OpenInNewPool
  <2>2. /\ pools' \in [Identities -> Pools \cup {None}]
        /\ identity' \in [Pools -> Identities \cup {None}]
        /\ closing' \subseteq Pools
        /\ out' \in Messages
        /\ UNCHANGED <<timers, flushTimer, wire>>
    BY <1>1, <1>6 DEF OpenInNewPool, TypeOK
  <2> QED
    BY <2>1, <2>2, ConnectType DEF TypeOK, Register, Messages
<1>7. ASSUME OpenInFullPool(c, s, i) PROVE TypeOK'
  BY <1>1, <1>7 DEF OpenInFullPool, TypeOK, Messages
<1>8. ASSUME NEW p \in Pools, NEW k \in Sockets, OpenAndConnect(c, s, i, p, k)
      PROVE  TypeOK'
  <2>1. WireType'
    BY <1>8 DEF OpenAndConnect, TypeOK, WireType
  <2> QED
    BY <1>1, <1>8, <2>1, ConnectType, JoinPoolType DEF OpenAndConnect
<1>9. ASSUME NEW p \in Pools, OpenWhileConnecting(c, s, i, p) PROVE TypeOK'
  <2>1. WireType'
    BY <1>9 DEF OpenWhileConnecting, TypeOK, WireType
  <2> QED
    BY <1>1, <1>9, <2>1, JoinPoolType DEF OpenWhileConnecting, TypeOK
<1>10. ASSUME NEW p \in Pools, OpenOnOpenSocket(c, s, i, p) PROVE TypeOK'
  <2> DEFINE hello == ControlFrame(s, "open")
  <2>1. WireType'
    <3>1. CASE SendFrame(p, queue[p], queuedBytes[p], hello)
      BY <3>1, SendFrameType
    <3>2. CASE UNCHANGED <<backlog, wire>>
      BY <3>2 DEF TypeOK, WireType
    <3> QED
      BY <1>10, <3>1, <3>2 DEF OpenOnOpenSocket
  <2>2. JoinPool(c, s, i, p) /\ UNCHANGED <<socket, physical>> /\ out' \in Messages
    BY <1>1, <1>2, <1>10 DEF OpenOnOpenSocket
  <2> QED
    BY <2>1, <2>2, JoinPoolType DEF TypeOK
<1> QED
  BY <1>3, <1>4, <1>5, <1>6, <1>7, <1>8, <1>9, <1>10 DEF OpenStream

-----------------------------------------------------------------------------
(* The inductive invariant. *)

\* A socket object has a creator while its callbacks may still run.
SocketsOwned == \A k \in Sockets : readyState[k] = "FREE" <=> creator[k] = None

Inv == /\ TypeOK
       /\ RegistryAgrees
       /\ NoPoolStranded
       /\ EmptyPoolRetires
       /\ ClosingPoolAwaitsClose
       /\ SocketsOwned

LEMMA BoundHasPool ==
  ASSUME TypeOK, NEW s \in Bound
  PROVE  s \in StreamIds /\ boundTo[s] \in Pools
BY DEF TypeOK, Bound

LEMMA MemberBound ==
  ASSUME SocketWorkerAssumption, TypeOK, RegistryAgrees,
         NEW p \in Pools, NEW s \in members[p]
  PROVE  s \in StreamIds /\ boundTo[s] = p /\ s \in Bound
BY DEF TypeOK, RegistryAgrees, Bound, SocketWorkerAssumption

LEMMA CreatorIsPool ==
  ASSUME TypeOK, SocketsOwned, NEW k \in Sockets, readyState[k] # "FREE"
  PROVE  creator[k] \in Pools
BY DEF TypeOK, SocketsOwned

LEMMA TypeStep ==
  ASSUME SocketWorkerAssumption, Inv, Next
  PROVE  TypeOK'
<1> USE DEF registry, catalog, timers, backlog, physical, wire
<1>0. TypeOK /\ RegistryAgrees /\ SocketsOwned
  BY DEF Inv
<1>1. <<>> \in Messages
  BY NoMessages
<1>2. ASSUME NEW s \in StreamIds PROVE Reply(s, TRUE) \in Messages /\ Reply(s, FALSE) \in Messages
  BY ReplyType
<1>3. ASSUME NEW c \in Ports, NEW s \in StreamIds, NEW i \in Identities, OpenStream(c, s, i)
      PROVE  TypeOK'
  BY <1>0, <1>3, OpenStreamType
<1>4. ASSUME NEW c \in Ports, NEW s \in StreamIds, NotOwned(c, s) PROVE TypeOK'
  BY <1>0, <1>2, <1>4, OnlyPostType DEF NotOwned
<1>5. ASSUME NEW c \in Ports, NEW s \in StreamIds, Heartbeat(c, s) \/ CloseThrows(c, s)
      PROVE  TypeOK'
  BY <1>0, <1>2, <1>5 DEF Heartbeat, CloseThrows, RenewLease, TypeOK, Messages
<1>6. ASSUME NEW c \in Ports, NEW s \in StreamIds, NEW n \in DataBytes, Send(c, s, n)
      PROVE  TypeOK'
  <2>1. boundTo[s] \in Pools
    BY <1>0, <1>6, BoundHasPool DEF Send, Owns
  <2>2. WireType'
    <3>1. CASE SendFrame(boundTo[s], queue[boundTo[s]], queuedBytes[boundTo[s]], DataFrame(s, n))
      BY <1>0, <2>1, <3>1, SendFrameType
    <3>2. CASE UNCHANGED <<backlog, wire>>
      BY <1>0, <3>2 DEF TypeOK, WireType
    <3> QED
      BY <1>6, <3>1, <3>2 DEF Send
  <2>3. /\ stale' \subseteq StreamIds /\ out' \in Messages
        /\ UNCHANGED <<boundTo, portOf, streamsByPort, evicting, catalog, members,
                       socket, timers, physical>>
    BY <1>0, <1>2, <1>6 DEF Send, RenewLease, TypeOK
  <2> QED
    BY <1>0, <2>2, <2>3 DEF TypeOK, WireType, Messages
<1>7. ASSUME NEW c \in Ports, NEW s \in StreamIds, CloseStream(c, s) PROVE TypeOK'
  <2>1. Post({s}, "close") \o Reply(s, TRUE) \in Messages
    BY <1>2, PostType, ConcatType DEF EventNames
  <2> QED
    BY <1>0, <1>7, <2>1, BoundHasPool, DetachType DEF CloseStream, Owns
<1>8. ASSUME NEW s \in StreamIds, LeaseExpires(s) PROVE TypeOK'
  BY <1>0, <1>1, <1>8 DEF LeaseExpires, TypeOK, Messages
<1>9. ASSUME NEW s \in StreamIds, Evict(s) PROVE TypeOK'
  <2>1. s \in Bound
    BY <1>0, <1>9 DEF Evict, RegistryAgrees
  <2> QED
    BY <1>0, <1>1, <1>9, <2>1, BoundHasPool, DetachType DEF Evict
<1>10. ASSUME NEW S \in SUBSET StreamIds, BeginEviction(S) PROVE TypeOK'
  BY <1>0, <1>1, <1>10 DEF BeginEviction, TypeOK, Messages
<1>11. ASSUME NEW p \in Pools, IdleTimeout(p) PROVE TypeOK'
  <2>1. CASE /\ idleTimer' = idleTimer \ {p}
             /\ UNCHANGED <<catalog, reconnectTimer, backlog, socket, readyState>>
    BY <1>0, <1>1, <1>11, <2>1 DEF IdleTimeout, TypeOK, Messages
  <2>2. CASE /\ Retire(p)
             /\ socket' = [socket EXCEPT ![p] = None]
             /\ readyState' = [k \in Sockets |-> IF k = socket[p] THEN "CLOSING"
                                                                  ELSE readyState[k]]
    BY <1>0, <1>1, <1>11, <2>2 DEF IdleTimeout, Retire, TypeOK, Messages
  <2> QED
    BY <1>11, <2>1, <2>2 DEF IdleTimeout
<1>12. ASSUME NEW p \in Pools, ReconnectTimeout(p) PROVE TypeOK'
  <2>1. /\ socket' \in [Pools -> Sockets \cup {None}]
        /\ readyState' \in [Sockets -> {"FREE", "CONNECTING", "OPEN", "CLOSING"}]
        /\ creator' \in [Sockets -> Pools \cup {None}]
    <3>1. CASE UNCHANGED <<socket, physical>>
      BY <1>0, <3>1 DEF TypeOK
    <3>2. CASE \E k \in Sockets : Connect(p, k)
      BY <1>0, <3>2, ConnectType
    <3> QED
      BY <1>12, <3>1, <3>2 DEF ReconnectTimeout
  <2> QED
    BY <1>0, <1>1, <1>12, <2>1 DEF ReconnectTimeout, TypeOK, Messages
<1>13. ASSUME NEW p \in Pools, FlushTimeout(p) PROVE TypeOK'
  <2>1. WireType'
    <3>1. CASE /\ IsOpen(p)
               /\ FlushQueue(p, announced[socket[p]], flushTimer \ {p})
      <4>1. socket[p] \in Sockets /\ flushTimer \ {p} \in SUBSET Pools
        BY <1>0, <3>1 DEF IsOpen, TypeOK
      <4> QED
        BY <1>0, <3>1, <4>1, FlushQueueType
    <3>2. CASE /\ flushTimer' = flushTimer \ {p}
               /\ UNCHANGED <<queue, queuedBytes, wire>>
      BY <1>0, <3>2 DEF TypeOK, WireType
    <3> QED
      BY <1>13, <3>1, <3>2 DEF FlushTimeout
  <2>2. out' = <<>> /\ UNCHANGED <<registry, catalog, members, socket, timers, physical>>
    BY <1>13 DEF FlushTimeout
  <2> QED
    BY <1>0, <1>1, <2>1, <2>2 DEF TypeOK, WireType, Messages
<1>14. ASSUME NEW k \in Sockets, OrphanOpens(k) PROVE TypeOK'
  BY <1>0, <1>1, <1>14 DEF OrphanOpens, TypeOK, Messages
<1>15. ASSUME NEW p \in Pools, NEW k \in Sockets, NegotiationFails(p, k) PROVE TypeOK'
  BY <1>0, <1>15, ProtocolViolationType DEF NegotiationFails
<1>16. ASSUME NEW p \in Pools, NEW k \in Sockets, SocketOpens(p, k) PROVE TypeOK'
  <2>1. socket[p] \in Sockets /\ flushTimer \in SUBSET Pools
    BY <1>0, <1>16 DEF SocketOpens, Opening, TypeOK
  <2>2. WireType'
    BY <1>0, <1>16, <2>1, FlushQueueType DEF SocketOpens
  <2>3. out' \in Messages
    BY <1>0, <1>16, PostPoolType DEF SocketOpens, EventNames
  <2>4. /\ readyState' = [readyState EXCEPT ![k] = "OPEN"]
        /\ UNCHANGED <<registry, catalog, members, socket, timers, creator>>
    BY <1>16 DEF SocketOpens
  <2> QED
    BY <1>0, <2>2, <2>3, <2>4 DEF TypeOK, WireType, Messages
<1>17. ASSUME NEW k \in Sockets, NEW to \in SUBSET StreamIds, ServerMessage(k, to)
       PROVE  TypeOK'
  <2>1. Post(to, "message") \in Messages
    BY PostType DEF EventNames
  <2> QED
    BY <1>0, <1>17, <2>1, OnlyPostType DEF ServerMessage
<1>18. ASSUME NEW k \in Sockets, NEW s \in StreamIds, ServerClosesStream(k, s)
       PROVE  TypeOK'
  <2>1. creator[k] \in Pools /\ s \in members[creator[k]]
    BY <1>0, <1>18, CreatorIsPool DEF ServerClosesStream, Incoming
  <2>2. boundTo[s] \in Pools
    BY <1>0, <2>1, MemberBound
  <2>3. Post({s}, "close") \in Messages
    BY PostType DEF EventNames
  <2> QED
    BY <1>0, <1>18, <2>2, <2>3, DetachType DEF ServerClosesStream
<1>19. ASSUME NEW k \in Sockets, ServerBreaksProtocol(k) PROVE TypeOK'
  BY <1>0, <1>19, CreatorIsPool, ProtocolViolationType DEF ServerBreaksProtocol, Incoming
<1>20. ASSUME NEW k \in Sockets, ServerStartsClose(k) PROVE TypeOK'
  BY <1>0, <1>1, <1>20 DEF ServerStartsClose, TypeOK, Messages
<1>21. ASSUME NEW k \in Sockets, NEW code \in CloseCodes, NEW errored \in BOOLEAN,
              SocketCloses(k, code, errored)
       PROVE  TypeOK'
  <2> DEFINE p == creator[k]
             error == IF errored THEN PostPool(p, "error") ELSE <<>>
  <2>1. p \in Pools
    BY <1>0, <1>21, CreatorIsPool DEF SocketCloses
  <2>2. error \in Messages /\ PostPool(p, "reconnecting") \in Messages
    BY <1>0, <1>1, <2>1, PostPoolType DEF EventNames
  <2> HIDE DEF error
  <2>3. /\ readyState' \in [Sockets -> {"FREE", "CONNECTING", "OPEN", "CLOSING"}]
        /\ creator' \in [Sockets -> Pools \cup {None}]
        /\ congested' \subseteq Sockets /\ misled' \subseteq Sockets
        /\ announced' \in [Sockets -> SUBSET StreamIds]
    BY <1>0, <1>21 DEF SocketCloses, Discard, TypeOK
  <2>4. CASE /\ out' = error
             /\ UNCHANGED <<registry, catalog, members, socket, timers, backlog>>
    BY <1>0, <2>2, <2>3, <2>4 DEF TypeOK, Messages
  <2>5. CASE /\ socket' = [socket EXCEPT ![p] = None]
             /\ ScheduleReconnect(p, error)
             /\ UNCHANGED <<registry, catalog, members, idleTimer, backlog>>
    <3>1. out' \in Messages /\ reconnectTimer' = reconnectTimer \cup {p}
      BY <1>1, <2>2, <2>5, ConcatType DEF ScheduleReconnect
    <3> QED
      BY <1>0, <2>1, <2>3, <2>5, <3>1 DEF TypeOK, Messages
  <2>6. CASE /\ socket' = [socket EXCEPT ![p] = None]
             /\ ClosePool(p, error)
    <3>1. socket' \in [Pools -> Sockets \cup {None}]
      BY <1>0, <2>6 DEF TypeOK
    <3> QED
      BY <1>0, <2>1, <2>2, <2>3, <2>6, <3>1, ClosePoolType
  <2> QED
    BY <1>21, <2>4, <2>5, <2>6 DEF SocketCloses, error
<1>22. ASSUME NEW k \in Sockets, Drain(k) PROVE TypeOK'
  BY <1>0, <1>1, <1>22 DEF Drain, TypeOK, Messages
<1>23. LeaseSweep \/ (\E c \in Ports : CleanupPort(c)) => TypeOK'
  BY <1>0, <1>10 DEF LeaseSweep, CleanupPort, TypeOK
<1>24. PageRequest => TypeOK'
  BY <1>3, <1>4, <1>5, <1>6, <1>7 DEF PageRequest
<1>25. Housekeeping => TypeOK'
  BY <1>8, <1>9, <1>11, <1>12, <1>13, <1>23 DEF Housekeeping
<1>26. SocketEvent => TypeOK'
  BY <1>14, <1>15, <1>16, <1>17, <1>18, <1>19, <1>20, <1>21, <1>22 DEF SocketEvent
<1> QED
  BY <1>24, <1>25, <1>26 DEF Next

=============================================================================
