------------------------- MODULE SocketWorkerProofs -------------------------
(* Proofs about SocketWorker for all values of its constants. *)
EXTENDS SocketWorkerTypeProofs, FiniteSetTheorems

-----------------------------------------------------------------------------
(* The stream map, the pools' own streams and the index by port agree. *)

LEMMA UnbindAgrees ==
  ASSUME SocketWorkerAssumption, TypeOK, RegistryAgrees,
         NEW p \in Pools, NEW S \in SUBSET members[p], Unbind(S),
         members' = [members EXCEPT ![p] = @ \ S]
  PROVE  RegistryAgrees'
<1>1. \A s \in S : s \in StreamIds /\ boundTo[s] = p
  BY DEF TypeOK, RegistryAgrees
<1>2. \A s \in StreamIds : boundTo'[s] = IF s \in S THEN None ELSE boundTo[s]
  BY DEF Unbind
<1>3. \A s \in StreamIds : portOf'[s] = IF s \in S THEN None ELSE portOf[s]
  BY DEF Unbind
<1>4. \A q \in Pools : members'[q] = IF q = p THEN members[q] \ S ELSE members[q]
  BY DEF TypeOK
<1>5. None \notin Pools /\ None \notin Ports
  BY DEF SocketWorkerAssumption
<1>6. ASSUME NEW s \in StreamIds, NEW q \in Pools
      PROVE  boundTo'[s] = q <=> s \in members'[q]
  BY <1>1, <1>2, <1>4, <1>5 DEF RegistryAgrees
<1>7. ASSUME NEW s \in StreamIds, NEW c \in Ports
      PROVE  portOf'[s] = c <=> s \in streamsByPort'[c]
  <2>1. streamsByPort'[c] = streamsByPort[c] \ {t \in S : portOf[t] = c}
    BY DEF Unbind, ReleasePortStreams
  <2> QED
    BY <1>3, <1>5, <2>1 DEF RegistryAgrees
<1>8. stale' \cup evicting' \subseteq Bound'
  BY <1>2 DEF Unbind, RegistryAgrees, Bound
<1> QED
  BY <1>2, <1>3, <1>6, <1>7, <1>8 DEF RegistryAgrees

LEMMA RegisterAgrees ==
  ASSUME SocketWorkerAssumption, TypeOK, RegistryAgrees,
         NEW c \in Ports, NEW s \in StreamIds \ Bound, NEW p \in Pools, Register(c, s, p)
  PROVE  RegistryAgrees'
<1>1. boundTo[s] = None /\ portOf[s] = None
  BY DEF Bound, RegistryAgrees
<1>2. \A t \in StreamIds : /\ boundTo'[t] = IF t = s THEN p ELSE boundTo[t]
                           /\ portOf'[t] = IF t = s THEN c ELSE portOf[t]
  BY DEF Register, TypeOK
<1>3. \A q \in Pools : members'[q] = IF q = p THEN members[q] \cup {s} ELSE members[q]
  BY DEF Register, TypeOK
<1>4. \A d \in Ports : streamsByPort'[d] = IF d = c THEN streamsByPort[d] \cup {s}
                                                    ELSE streamsByPort[d]
  BY DEF Register, TypeOK
<1>5. None \notin Pools /\ None \notin Ports
  BY DEF SocketWorkerAssumption
<1>6. stale' \cup evicting' \subseteq Bound'
  BY <1>2, <1>5 DEF Register, RegistryAgrees, Bound
<1>7. ASSUME NEW t \in StreamIds, NEW q \in Pools
      PROVE  boundTo'[t] = q <=> t \in members'[q]
  <2>1. CASE t = s
    <3>1. s \notin members[q] \/ q = p
      BY <1>1, <1>5 DEF RegistryAgrees
    <3> QED
      BY <1>2, <1>3, <2>1, <3>1
  <2>2. CASE t # s
    <3>1. boundTo'[t] = boundTo[t]
      BY <1>2, <2>2
    <3>2. t \in members'[q] <=> t \in members[q]
      BY <1>3, <2>2
    <3> QED
      BY <3>1, <3>2 DEF RegistryAgrees
  <2> QED
    BY <2>1, <2>2
<1>8. ASSUME NEW t \in StreamIds, NEW d \in Ports
      PROVE  portOf'[t] = d <=> t \in streamsByPort'[d]
  <2>1. CASE t = s
    <3>1. s \notin streamsByPort[d] \/ d = c
      BY <1>1, <1>5 DEF RegistryAgrees
    <3> QED
      BY <1>2, <1>4, <2>1, <3>1
  <2>2. CASE t # s
    <3>1. portOf'[t] = portOf[t]
      BY <1>2, <2>2
    <3>2. t \in streamsByPort'[d] <=> t \in streamsByPort[d]
      BY <1>4, <2>2
    <3> QED
      BY <3>1, <3>2 DEF RegistryAgrees
  <2> QED
    BY <2>1, <2>2
<1>9. ASSUME NEW t \in StreamIds
      PROVE  boundTo'[t] = None <=> portOf'[t] = None
  BY <1>2, <1>5 DEF RegistryAgrees
<1> QED
  BY <1>6, <1>7, <1>8, <1>9 DEF RegistryAgrees

LEMMA DetachAgrees ==
  ASSUME SocketWorkerAssumption, TypeOK, RegistryAgrees,
         NEW s \in StreamIds, boundTo[s] \in Pools, NEW told, NEW messages,
         Detach(s, told, messages)
  PROVE  RegistryAgrees'
<1>1. {s} \subseteq members[boundTo[s]]
  BY DEF RegistryAgrees
<1>2. /\ Unbind({s})
      /\ members' = [members EXCEPT ![boundTo[s]] = @ \ {s}]
  BY DEF Detach
<1> QED
  BY <1>1, <1>2, UnbindAgrees

LEMMA ClosePoolAgrees ==
  ASSUME SocketWorkerAssumption, TypeOK, RegistryAgrees,
         NEW p \in Pools, NEW messages, ClosePool(p, messages)
  PROVE  RegistryAgrees'
<1>1. /\ Unbind(members[p])
      /\ members' = [members EXCEPT ![p] = @ \ members[p]]
  BY DEF ClosePool
<1> QED
  BY <1>1, UnbindAgrees

LEMMA ProtocolViolationAgrees ==
  ASSUME SocketWorkerAssumption, TypeOK, RegistryAgrees,
         NEW p \in Pools, ProtocolViolation(p)
  PROVE  RegistryAgrees'
<1>1. CASE UNCHANGED <<registry, members>>
  BY <1>1 DEF RegistryAgrees, Bound, registry
<1>2. CASE ClosePool(p, PostPool(p, "error"))
  BY <1>2, ClosePoolAgrees
<1> QED
  BY <1>1, <1>2 DEF ProtocolViolation

\* The actions that leave the registry alone.
LEMMA SameRegistry ==
  ASSUME RegistryAgrees, UNCHANGED <<registry, members>>
  PROVE  RegistryAgrees'
BY DEF RegistryAgrees, Bound, registry

LEMMA RenewAgrees ==
  ASSUME RegistryAgrees, NEW s, RenewLease(s), UNCHANGED members
  PROVE  RegistryAgrees'
BY DEF RegistryAgrees, Bound, RenewLease

LEMMA RegistryStep ==
  ASSUME SocketWorkerAssumption, Inv, Next
  PROVE  RegistryAgrees'
<1>0. TypeOK /\ RegistryAgrees /\ SocketsOwned
  BY DEF Inv
<1>1. ASSUME NEW c \in Ports, NEW s \in StreamIds, NEW i \in Identities, OpenStream(c, s, i)
      PROVE  RegistryAgrees'
  <2>1. CASE \/ OpenRefused(c, s, i)
             \/ OpenWithoutPool(c, s, i)
             \/ OpenInFullPool(c, s, i)
    BY <1>0, <2>1, SameRegistry
    DEF OpenRefused, OnlyPost, state, OpenWithoutPool, OpenInFullPool
  <2>2. CASE OpenAgain(c, s, i)
    BY <1>0, <2>2, RenewAgrees DEF OpenAgain
  <2>3. CASE \E p \in Pools : s \notin Bound /\ Register(c, s, p)
    BY <1>0, <2>3, RegisterAgrees
  <2>4. ASSUME NEW p \in Pools, NEW k \in Sockets,
               OpenInNewPool(c, s, i, p, k) \/ OpenAndConnect(c, s, i, p, k)
        PROVE  s \notin Bound /\ Register(c, s, p)
    BY <2>4 DEF OpenInNewPool, OpenAndConnect, JoinPool, Admitted
  <2>5. ASSUME NEW p \in Pools,
               OpenWhileConnecting(c, s, i, p) \/ OpenOnOpenSocket(c, s, i, p)
        PROVE  s \notin Bound /\ Register(c, s, p)
    BY <2>5 DEF OpenWhileConnecting, OpenOnOpenSocket, JoinPool, Admitted
  <2> QED
    BY <1>1, <2>1, <2>2, <2>3, <2>4, <2>5 DEF OpenStream
<1>2. ASSUME NEW c \in Ports, NEW s \in StreamIds,
             \/ NotOwned(c, s)
             \/ Heartbeat(c, s) \/ CloseThrows(c, s)
             \/ \E n \in DataBytes : Send(c, s, n)
      PROVE  RegistryAgrees'
  BY <1>0, <1>2, SameRegistry, RenewAgrees
  DEF NotOwned, OnlyPost, state, Heartbeat, CloseThrows, Send
<1>3. ASSUME NEW c \in Ports, NEW s \in StreamIds, CloseStream(c, s)
      PROVE  RegistryAgrees'
  BY <1>0, <1>3, BoundHasPool, DetachAgrees DEF CloseStream, Owns
<1>4. ASSUME NEW s \in StreamIds, LeaseExpires(s)
      PROVE  RegistryAgrees'
  BY <1>0, <1>4 DEF LeaseExpires, RegistryAgrees, Bound
<1>5. ASSUME NEW s \in StreamIds, Evict(s)
      PROVE  RegistryAgrees'
  <2>1. s \in Bound
    BY <1>0, <1>5 DEF Evict, RegistryAgrees
  <2> QED
    BY <1>0, <1>5, <2>1, BoundHasPool, DetachAgrees DEF Evict
<1>6. ASSUME LeaseSweep
      PROVE  RegistryAgrees'
  BY <1>0, <1>6 DEF LeaseSweep, BeginEviction, RegistryAgrees, Bound
<1>7. ASSUME NEW c \in Ports, CleanupPort(c)
      PROVE  RegistryAgrees'
  <2>1. streamsByPort[c] \subseteq Bound
    <3>1. ASSUME NEW s \in streamsByPort[c] PROVE s \in StreamIds /\ portOf[s] = c
      BY <1>0 DEF TypeOK, RegistryAgrees
    <3>2. c # None
      BY DEF SocketWorkerAssumption
    <3> QED
      BY <1>0, <3>1, <3>2 DEF RegistryAgrees, Bound
  <2> QED
    BY <1>0, <1>7, <2>1 DEF CleanupPort, BeginEviction, RegistryAgrees, Bound
<1>8. ASSUME NEW p \in Pools, IdleTimeout(p) \/ ReconnectTimeout(p) \/ FlushTimeout(p)
      PROVE  RegistryAgrees'
  BY <1>0, <1>8, SameRegistry DEF IdleTimeout, ReconnectTimeout, FlushTimeout
<1>9. ASSUME NEW k \in Sockets,
             \/ OrphanOpens(k)
             \/ \E p \in Pools : SocketOpens(p, k)
             \/ \E to \in SUBSET StreamIds : ServerMessage(k, to)
             \/ ServerStartsClose(k)
             \/ Drain(k)
      PROVE  RegistryAgrees'
  BY <1>0, <1>9, SameRegistry
  DEF OrphanOpens, SocketOpens, ServerMessage, OnlyPost, state, ServerStartsClose, Drain
<1>10. ASSUME NEW k \in Sockets, NEW p \in Pools, NegotiationFails(p, k)
       PROVE  RegistryAgrees'
  BY <1>0, <1>10, ProtocolViolationAgrees DEF NegotiationFails
<1>11. ASSUME NEW k \in Sockets, NEW s \in StreamIds, ServerClosesStream(k, s)
       PROVE  RegistryAgrees'
  <2>1. creator[k] \in Pools /\ s \in members[creator[k]]
    BY <1>0, <1>11, CreatorIsPool DEF ServerClosesStream, Incoming
  <2>2. boundTo[s] \in Pools
    BY <1>0, <2>1, MemberBound
  <2> QED
    BY <1>0, <1>11, <2>2, DetachAgrees DEF ServerClosesStream
<1>12. ASSUME NEW k \in Sockets, ServerBreaksProtocol(k)
       PROVE  RegistryAgrees'
  BY <1>0, <1>12, CreatorIsPool, ProtocolViolationAgrees DEF ServerBreaksProtocol, Incoming
<1>13. ASSUME NEW k \in Sockets, NEW code \in CloseCodes, NEW errored \in BOOLEAN,
              SocketCloses(k, code, errored)
       PROVE  RegistryAgrees'
  <2>1. creator[k] \in Pools
    BY <1>0, <1>13, CreatorIsPool DEF SocketCloses
  <2>2. CASE UNCHANGED <<registry, members>>
    BY <1>0, <2>2, SameRegistry
  <2>3. CASE \E messages : ClosePool(creator[k], messages)
    BY <1>0, <2>1, <2>3, ClosePoolAgrees
  <2> QED
    BY <1>13, <2>2, <2>3 DEF SocketCloses
<1>14. PageRequest => RegistryAgrees'
  BY <1>1, <1>2, <1>3 DEF PageRequest
<1>15. Housekeeping => RegistryAgrees'
  BY <1>4, <1>5, <1>6, <1>7, <1>8 DEF Housekeeping
<1>16. SocketEvent => RegistryAgrees'
  BY <1>9, <1>10, <1>11, <1>12, <1>13 DEF SocketEvent
<1> QED
  BY <1>14, <1>15, <1>16 DEF Next

-----------------------------------------------------------------------------
(* The life of pools and sockets. *)

LifeInv == NoPoolStranded /\ EmptyPoolRetires /\ ClosingPoolAwaitsClose /\ SocketsOwned

\* The actions that leave pools and sockets alone.
LEMMA SameLife ==
  ASSUME LifeInv,
         UNCHANGED <<identity, closing, members, socket, timers, physical>>
  PROVE  LifeInv'
BY DEF LifeInv, NoPoolStranded, EmptyPoolRetires, ClosingPoolAwaitsClose, SocketsOwned,
       timers, physical

\* A pool loses streams; if it loses the last one its idle timer is armed.
LEMMA LoseMembersLife ==
  ASSUME TypeOK, LifeInv, NEW p \in Pools, NEW left \in SUBSET members[p],
         members' = [members EXCEPT ![p] = left],
         idleTimer' = ScheduleIdleClose(p, left),
         UNCHANGED <<identity, closing, socket, reconnectTimer, physical>>
  PROVE  LifeInv'
<1>1. \A q \in Pools : members'[q] = IF q = p THEN left ELSE members[q]
  BY DEF TypeOK
<1>2. NoPoolStranded'
  BY <1>1 DEF LifeInv, NoPoolStranded
<1>3. EmptyPoolRetires'
  BY <1>1 DEF LifeInv, EmptyPoolRetires, ScheduleIdleClose
<1>4. ClosingPoolAwaitsClose'
  BY <1>1 DEF LifeInv, ClosingPoolAwaitsClose, physical
<1>5. SocketsOwned'
  BY DEF LifeInv, SocketsOwned, physical
<1> QED
  BY <1>2, <1>3, <1>4, <1>5 DEF LifeInv

LEMMA DetachLife ==
  ASSUME TypeOK, LifeInv, NEW s \in StreamIds, boundTo[s] \in Pools,
         NEW told, NEW messages, Detach(s, told, messages)
  PROVE  LifeInv'
<1>1. /\ members' = [members EXCEPT ![boundTo[s]] = @ \ {s}]
      /\ idleTimer' = ScheduleIdleClose(boundTo[s], members[boundTo[s]] \ {s})
      /\ UNCHANGED <<identity, closing, socket, reconnectTimer, physical>>
  BY DEF Detach, catalog
<1>2. members[boundTo[s]] \ {s} \in SUBSET members[boundTo[s]]
  OBVIOUS
<1> QED
  BY <1>1, <1>2, LoseMembersLife

\* What ClosePool does to the pools; the socket is the caller's business.
LEMMA ClosePoolEffect ==
  ASSUME TypeOK, NEW p \in Pools, NEW messages, ClosePool(p, messages)
  PROVE  /\ closing' = closing \cup {p}
         /\ \A q \in Pools : members'[q] = IF q = p THEN {} ELSE members[q]
         /\ \A q \in Pools \ {p} : /\ q \in idleTimer' <=> q \in idleTimer
                                   /\ q \in reconnectTimer' <=> q \in reconnectTimer
         /\ UNCHANGED identity
BY DEF TypeOK, ClosePool, Retire

LEMMA ProtocolViolationLife ==
  ASSUME SocketWorkerAssumption, TypeOK, LifeInv, NEW p \in Pools, ProtocolViolation(p)
  PROVE  LifeInv'
<1>1. CASE /\ socket[p] # None
           /\ closing' = closing \cup {p}
           /\ readyState' = [readyState EXCEPT ![socket[p]] = "CLOSING"]
           /\ UNCHANGED <<identity, members, socket, timers, creator>>
  <2>1. socket[p] \in Sockets /\ readyState[socket[p]] # "FREE"
    BY <1>1 DEF TypeOK, LifeInv, ClosingPoolAwaitsClose
  <2>2. \A k \in Sockets : readyState'[k] = IF k = socket[p] THEN "CLOSING"
                                                             ELSE readyState[k]
    BY <1>1, <2>1 DEF TypeOK
  <2>3. NoPoolStranded'
    BY <1>1 DEF LifeInv, NoPoolStranded, timers
  <2>4. EmptyPoolRetires'
    BY <1>1 DEF LifeInv, EmptyPoolRetires, timers
  <2>5. ClosingPoolAwaitsClose'
    BY <1>1, <2>1, <2>2 DEF LifeInv, ClosingPoolAwaitsClose, TypeOK
  <2>6. SocketsOwned'
    BY <1>1, <2>1, <2>2 DEF LifeInv, SocketsOwned
  <2> QED
    BY <2>3, <2>4, <2>5, <2>6 DEF LifeInv
<1>2. CASE /\ ClosePool(p, PostPool(p, "error"))
           /\ UNCHANGED <<socket, physical>>
  <2>1. NoPoolStranded'
    BY <1>2, ClosePoolEffect DEF LifeInv, NoPoolStranded
  <2>2. EmptyPoolRetires'
    BY <1>2, ClosePoolEffect DEF LifeInv, EmptyPoolRetires
  <2>3. ClosingPoolAwaitsClose'
    BY <1>2, ClosePoolEffect DEF LifeInv, ClosingPoolAwaitsClose, physical
  <2>4. SocketsOwned'
    BY <1>2 DEF LifeInv, SocketsOwned, physical
  <2> QED
    BY <2>1, <2>2, <2>3, <2>4 DEF LifeInv
<1> QED
  BY <1>1, <1>2 DEF ProtocolViolation

\* A new socket for a pool that is not closing.
LEMMA ConnectEffect ==
  ASSUME SocketWorkerAssumption, TypeOK, LifeInv,
         NEW p \in Pools, NEW k \in Sockets, Connect(p, k)
  PROVE  /\ readyState[k] = "FREE"
         /\ \A q \in Pools : socket[q] # k
         /\ \A q \in Pools : socket'[q] = IF q = p THEN k ELSE socket[q]
         /\ \A j \in Sockets : /\ readyState'[j] = IF j = k THEN "CONNECTING"
                                                            ELSE readyState[j]
                               /\ creator'[j] = IF j = k THEN p ELSE creator[j]
         /\ SocketsOwned'
<1>1. /\ readyState[k] = "FREE"
      /\ \A q \in Pools : socket'[q] = IF q = p THEN k ELSE socket[q]
      /\ \A j \in Sockets : /\ readyState'[j] = IF j = k THEN "CONNECTING"
                                                         ELSE readyState[j]
                            /\ creator'[j] = IF j = k THEN p ELSE creator[j]
  BY DEF Connect, TypeOK
<1>2. k # None /\ p # None
  BY DEF SocketWorkerAssumption
<1>3. \A q \in Pools : socket[q] # k
  BY <1>1, <1>2 DEF LifeInv, ClosingPoolAwaitsClose
<1>4. SocketsOwned'
  BY <1>1, <1>2 DEF LifeInv, SocketsOwned
<1> QED
  BY <1>1, <1>3, <1>4

LEMMA ConnectLife ==
  ASSUME SocketWorkerAssumption, TypeOK, LifeInv,
         NEW p \in Pools, NEW k \in Sockets, Connect(p, k),
         p \notin closing',
         \A q \in Pools \ {p} : q \in closing' <=> q \in closing,
         \A q \in Pools \ {p} : members'[q] = members[q],
         \A q \in Pools \ {p} : identity'[q] = identity[q],
         members'[p] # {},
         \A q \in Pools \ {p} : /\ q \in idleTimer' <=> q \in idleTimer
                                /\ q \in reconnectTimer' <=> q \in reconnectTimer
  PROVE  LifeInv'
<1>1. k # None
  BY DEF SocketWorkerAssumption
<1>2. NoPoolStranded'
  BY <1>1, ConnectEffect DEF LifeInv, NoPoolStranded
<1>3. EmptyPoolRetires'
  BY DEF LifeInv, EmptyPoolRetires
<1>4. ClosingPoolAwaitsClose'
  <2>1. ASSUME NEW q \in Pools, socket'[q] # None
        PROVE  creator'[socket'[q]] = q /\ readyState'[socket'[q]] # "FREE"
    <3>1. CASE q = p
      BY <3>1, ConnectEffect
    <3>2. CASE q # p
      <4>1. socket'[q] = socket[q] /\ socket[q] # k /\ socket[q] \in Sockets
        BY <2>1, <3>2, ConnectEffect DEF TypeOK
      <4> QED
        BY <2>1, <4>1, ConnectEffect DEF LifeInv, ClosingPoolAwaitsClose
    <3> QED
      BY <3>1, <3>2
  <2>2. ASSUME NEW q \in Pools, q \in closing', members'[q] # {}
        PROVE  socket'[q] # None /\ readyState'[socket'[q]] = "CLOSING"
    <3>1. q # p /\ q \in closing /\ members[q] # {}
      BY <2>2
    <3>2. socket[q] # None /\ readyState[socket[q]] = "CLOSING"
      BY <3>1 DEF LifeInv, ClosingPoolAwaitsClose
    <3>3. socket'[q] = socket[q] /\ socket[q] # k /\ socket[q] \in Sockets
      BY <3>1, <3>2, ConnectEffect DEF TypeOK
    <3> QED
      BY <3>2, <3>3, ConnectEffect
  <2> QED
    BY <2>1, <2>2 DEF ClosingPoolAwaitsClose
<1>5. SocketsOwned'
  BY ConnectEffect
<1> QED
  BY <1>2, <1>3, <1>4, <1>5 DEF LifeInv

LEMMA JoinPoolEffect ==
  ASSUME TypeOK, NEW c \in Ports, NEW s \in StreamIds, NEW i \in Identities,
         NEW p \in Pools, JoinPool(c, s, i, p)
  PROVE  /\ p \notin closing
         /\ \A q \in Pools : members'[q] = IF q = p THEN members[q] \cup {s} ELSE members[q]
         /\ idleTimer' = idleTimer \ {p}
         /\ UNCHANGED <<identity, closing, reconnectTimer>>
BY DEF TypeOK, JoinPool, Reusable, Register, catalog

LEMMA OpenStreamLife ==
  ASSUME SocketWorkerAssumption, TypeOK, LifeInv,
         NEW c \in Ports, NEW s \in StreamIds, NEW i \in Identities, OpenStream(c, s, i)
  PROVE  LifeInv'
<1>1. CASE \/ OpenRefused(c, s, i)
           \/ OpenAgain(c, s, i)
           \/ OpenWithoutPool(c, s, i)
  BY <1>1, SameLife
  DEF OpenRefused, OnlyPost, state, catalog, OpenAgain, OpenWithoutPool
<1>2. CASE OpenInFullPool(c, s, i)
  <2>1. pools[i] \in Pools /\ members[pools[i]] # {}
    <3>1. pools[i] \in Pools /\ Cardinality(members[pools[i]]) >= MaxStreamsPerPool
      BY <1>2 DEF OpenInFullPool, Reusable, TypeOK
    <3>2. MaxStreamsPerPool \in Nat \ {0}
      BY DEF SocketWorkerAssumption
    <3>3. Cardinality({}) = 0
      BY FS_EmptySet
    <3>4. ~(0 >= MaxStreamsPerPool)
      BY <3>2
    <3> QED
      BY <3>1, <3>3, <3>4
  <2>2. /\ idleTimer' = idleTimer \ {pools[i]}
        /\ UNCHANGED <<identity, closing, members, socket, reconnectTimer, physical>>
    BY <1>2 DEF OpenInFullPool, catalog
  <2> QED
    BY <2>1, <2>2 DEF LifeInv, NoPoolStranded, EmptyPoolRetires, ClosingPoolAwaitsClose,
                      SocketsOwned, physical
<1>3. ASSUME NEW p \in Pools, NEW k \in Sockets, OpenInNewPool(c, s, i, p, k)
      PROVE  LifeInv'
  <2>1. /\ Connect(p, k)
        /\ identity' = [identity EXCEPT ![p] = i]
        /\ closing' = closing \ {p}
        /\ members' = [members EXCEPT ![p] = @ \cup {s}]
        /\ UNCHANGED <<idleTimer, reconnectTimer>>
    BY <1>3 DEF OpenInNewPool, Register, timers
  <2>2. /\ \A q \in Pools : members'[q] = IF q = p THEN members[q] \cup {s} ELSE members[q]
        /\ \A q \in Pools : identity'[q] = IF q = p THEN i ELSE identity[q]
    BY <2>1 DEF TypeOK
  <2> QED
    BY <2>1, <2>2, ConnectLife
<1>4. ASSUME NEW p \in Pools, NEW k \in Sockets, OpenAndConnect(c, s, i, p, k)
      PROVE  LifeInv'
  <2>1. JoinPool(c, s, i, p) /\ Connect(p, k)
    BY <1>4 DEF OpenAndConnect
  <2>2. /\ p \notin closing
        /\ \A q \in Pools : members'[q] = IF q = p THEN members[q] \cup {s} ELSE members[q]
        /\ idleTimer' = idleTimer \ {p}
        /\ UNCHANGED <<identity, closing, reconnectTimer>>
    BY <2>1, JoinPoolEffect
  <2> QED
    BY <2>1, <2>2, ConnectLife
<1>5. ASSUME NEW p \in Pools,
             OpenWhileConnecting(c, s, i, p) \/ OpenOnOpenSocket(c, s, i, p)
      PROVE  LifeInv'
  <2>1. JoinPool(c, s, i, p) /\ socket[p] # None /\ UNCHANGED <<socket, physical>>
    BY <1>5 DEF OpenWhileConnecting, OpenOnOpenSocket, IsOpen
  <2>2. /\ p \notin closing
        /\ \A q \in Pools : members'[q] = IF q = p THEN members[q] \cup {s} ELSE members[q]
        /\ idleTimer' = idleTimer \ {p}
        /\ UNCHANGED <<identity, closing, reconnectTimer>>
    BY <2>1, JoinPoolEffect
  <2>3. NoPoolStranded'
    BY <2>1, <2>2 DEF LifeInv, NoPoolStranded
  <2>4. EmptyPoolRetires'
    BY <2>2 DEF LifeInv, EmptyPoolRetires
  <2>5. ClosingPoolAwaitsClose'
    BY <2>1, <2>2 DEF LifeInv, ClosingPoolAwaitsClose, physical
  <2>6. SocketsOwned'
    BY <2>1 DEF LifeInv, SocketsOwned, physical
  <2> QED
    BY <2>3, <2>4, <2>5, <2>6 DEF LifeInv
<1> QED
  BY <1>1, <1>2, <1>3, <1>4, <1>5 DEF OpenStream

LEMMA IdleTimeoutLife ==
  ASSUME SocketWorkerAssumption, TypeOK, LifeInv, NEW p \in Pools, IdleTimeout(p)
  PROVE  LifeInv'
<1>1. CASE /\ members[p] # {}
           /\ idleTimer' = idleTimer \ {p}
           /\ UNCHANGED <<catalog, reconnectTimer, socket, readyState, members, creator>>
  BY <1>1 DEF LifeInv, NoPoolStranded, EmptyPoolRetires, ClosingPoolAwaitsClose,
              SocketsOwned, catalog
<1>2. CASE /\ members[p] = {}
           /\ Retire(p)
           /\ socket' = [socket EXCEPT ![p] = None]
           /\ readyState' = [k \in Sockets |-> IF k = socket[p] THEN "CLOSING"
                                                                ELSE readyState[k]]
           /\ UNCHANGED <<members, creator>>
  <2>1. /\ \A q \in Pools : socket'[q] = IF q = p THEN None ELSE socket[q]
        /\ \A k \in Sockets : readyState'[k] = IF k = socket[p] THEN "CLOSING"
                                                                ELSE readyState[k]
    BY <1>2 DEF TypeOK
  <2>2. /\ closing' = closing \cup {p}
        /\ UNCHANGED identity
        /\ \A q \in Pools \ {p} : /\ q \in idleTimer' <=> q \in idleTimer
                                  /\ q \in reconnectTimer' <=> q \in reconnectTimer
    BY <1>2 DEF Retire
  <2>3. NoPoolStranded'
    BY <1>2, <2>1, <2>2 DEF LifeInv, NoPoolStranded
  <2>4. EmptyPoolRetires'
    BY <1>2, <2>2 DEF LifeInv, EmptyPoolRetires
  <2>5. ClosingPoolAwaitsClose'
    BY <1>2, <2>1, <2>2 DEF LifeInv, ClosingPoolAwaitsClose, TypeOK
  <2>6. SocketsOwned'
    BY <1>2, <2>1 DEF LifeInv, SocketsOwned, ClosingPoolAwaitsClose, SocketWorkerAssumption
  <2> QED
    BY <2>3, <2>4, <2>5, <2>6 DEF LifeInv
<1> QED
  BY <1>1, <1>2 DEF IdleTimeout

LEMMA ReconnectTimeoutLife ==
  ASSUME SocketWorkerAssumption, TypeOK, LifeInv, NEW p \in Pools, ReconnectTimeout(p)
  PROVE  LifeInv'
<1>1. /\ reconnectTimer' = reconnectTimer \ {p}
      /\ UNCHANGED <<identity, closing, members, idleTimer>>
  BY DEF ReconnectTimeout, catalog
<1>2. CASE ~ReconnectWanted(p) /\ UNCHANGED <<socket, physical>>
  BY <1>1, <1>2 DEF ReconnectWanted, LifeInv, NoPoolStranded, EmptyPoolRetires,
                    ClosingPoolAwaitsClose, SocketsOwned, physical
<1>3. ASSUME NEW k \in Sockets, ReconnectWanted(p), Connect(p, k)
      PROVE  LifeInv'
  BY <1>1, <1>3, ConnectLife DEF ReconnectWanted
<1> QED
  BY <1>2, <1>3 DEF ReconnectTimeout

\* The callbacks that only change the state of a socket.
LEMMA SocketAdvancesLife ==
  ASSUME TypeOK, LifeInv, NEW k \in Sockets, NEW next \in {"OPEN", "CLOSING"},
         readyState[k] # "FREE",
         readyState' = [readyState EXCEPT ![k] = next],
         UNCHANGED <<identity, closing, members, socket, timers, creator>>,
         next = "OPEN" => \A p \in closing : socket[p] = k => members[p] = {}
  PROVE  LifeInv'
<1>1. \A j \in Sockets : readyState'[j] = IF j = k THEN next ELSE readyState[j]
  BY DEF TypeOK
<1>2. NoPoolStranded' /\ EmptyPoolRetires'
  BY DEF LifeInv, NoPoolStranded, EmptyPoolRetires, timers
<1>3. ClosingPoolAwaitsClose'
  BY <1>1 DEF LifeInv, ClosingPoolAwaitsClose, TypeOK
<1>4. SocketsOwned'
  BY <1>1 DEF LifeInv, SocketsOwned
<1> QED
  BY <1>2, <1>3, <1>4 DEF LifeInv

LEMMA SocketClosesLife ==
  ASSUME SocketWorkerAssumption, TypeOK, LifeInv, NEW k \in Sockets,
         NEW code, NEW errored, SocketCloses(k, code, errored)
  PROVE  LifeInv'
<1> DEFINE p == creator[k]
<1>1. p \in Pools
  BY CreatorIsPool DEF SocketCloses, LifeInv
<1>2. \A j \in Sockets : /\ readyState'[j] = IF j = k THEN "FREE" ELSE readyState[j]
                         /\ creator'[j] = IF j = k THEN None ELSE creator[j]
  BY DEF SocketCloses, Discard, TypeOK
<1>3. SocketsOwned'
  BY <1>2 DEF LifeInv, SocketsOwned
<1>4. \A q \in Pools : socket[q] = k => q = p
  BY DEF LifeInv, ClosingPoolAwaitsClose, SocketWorkerAssumption
<1>5. CASE /\ socket[p] # k
           /\ UNCHANGED <<registry, catalog, members, socket, timers>>
  <2>1. NoPoolStranded' /\ EmptyPoolRetires'
    BY <1>5 DEF LifeInv, NoPoolStranded, EmptyPoolRetires, catalog, timers
  <2>2. ClosingPoolAwaitsClose'
    <3>1. \A q \in Pools : socket[q] # k
      BY <1>4, <1>5
    <3> QED
      BY <1>2, <1>5, <3>1 DEF LifeInv, ClosingPoolAwaitsClose, TypeOK, catalog
  <2> QED
    BY <1>3, <2>1, <2>2 DEF LifeInv
<1>6. CASE /\ p \notin closing
           /\ socket' = [socket EXCEPT ![p] = None]
           /\ \E messages : ScheduleReconnect(p, messages)
           /\ UNCHANGED <<registry, catalog, members, idleTimer>>
  <2>1. \A q \in Pools : socket'[q] = IF q = p THEN None ELSE socket[q]
    BY <1>6 DEF TypeOK
  <2>2. reconnectTimer' = reconnectTimer \cup {p}
    BY <1>6 DEF ScheduleReconnect
  <2>3. NoPoolStranded'
    BY <1>6, <2>1, <2>2 DEF LifeInv, NoPoolStranded, catalog
  <2>4. EmptyPoolRetires'
    BY <1>6 DEF LifeInv, EmptyPoolRetires, catalog
  <2>5. ClosingPoolAwaitsClose'
    BY <1>2, <1>4, <1>6, <2>1 DEF LifeInv, ClosingPoolAwaitsClose, TypeOK, catalog
  <2> QED
    BY <1>3, <2>3, <2>4, <2>5 DEF LifeInv
<1>7. CASE /\ socket' = [socket EXCEPT ![p] = None]
           /\ \E messages : ClosePool(p, messages)
  <2>1. \A q \in Pools : socket'[q] = IF q = p THEN None ELSE socket[q]
    BY <1>7 DEF TypeOK
  <2>2. /\ closing' = closing \cup {p}
        /\ \A q \in Pools : members'[q] = IF q = p THEN {} ELSE members[q]
        /\ \A q \in Pools \ {p} : /\ q \in idleTimer' <=> q \in idleTimer
                                  /\ q \in reconnectTimer' <=> q \in reconnectTimer
        /\ UNCHANGED identity
    BY <1>1, <1>7, ClosePoolEffect
  <2>3. NoPoolStranded'
    BY <2>1, <2>2 DEF LifeInv, NoPoolStranded
  <2>4. EmptyPoolRetires'
    BY <2>2 DEF LifeInv, EmptyPoolRetires
  <2>5. ClosingPoolAwaitsClose'
    BY <1>2, <1>4, <2>1, <2>2 DEF LifeInv, ClosingPoolAwaitsClose, TypeOK
  <2> QED
    BY <1>3, <2>3, <2>4, <2>5 DEF LifeInv
<1> QED
  BY <1>5, <1>6, <1>7 DEF SocketCloses

LEMMA LifeStep ==
  ASSUME SocketWorkerAssumption, Inv, Next
  PROVE  LifeInv'
<1>0. TypeOK /\ RegistryAgrees /\ LifeInv /\ SocketsOwned
  BY DEF Inv, LifeInv
<1>1. ASSUME NEW c \in Ports, NEW s \in StreamIds, NEW i \in Identities, OpenStream(c, s, i)
      PROVE  LifeInv'
  BY <1>0, <1>1, OpenStreamLife
<1>2. ASSUME NEW c \in Ports, NEW s \in StreamIds,
             \/ NotOwned(c, s)
             \/ Heartbeat(c, s) \/ CloseThrows(c, s)
             \/ \E n \in DataBytes : Send(c, s, n)
      PROVE  LifeInv'
  BY <1>0, <1>2, SameLife
  DEF NotOwned, OnlyPost, state, Heartbeat, CloseThrows, Send, catalog
<1>3. ASSUME NEW c \in Ports, NEW s \in StreamIds, CloseStream(c, s)
      PROVE  LifeInv'
  BY <1>0, <1>3, BoundHasPool, DetachLife DEF CloseStream, Owns
<1>4. ASSUME NEW s \in StreamIds, LeaseExpires(s)
      PROVE  LifeInv'
  BY <1>0, <1>4, SameLife DEF LeaseExpires, catalog
<1>5. ASSUME NEW s \in StreamIds, Evict(s)
      PROVE  LifeInv'
  <2>1. s \in Bound
    BY <1>0, <1>5 DEF Evict, RegistryAgrees
  <2> QED
    BY <1>0, <1>5, <2>1, BoundHasPool, DetachLife DEF Evict
<1>6. ASSUME NEW S, BeginEviction(S)
      PROVE  LifeInv'
  BY <1>0, <1>6, SameLife DEF BeginEviction, catalog
<1>7. ASSUME NEW p \in Pools, FlushTimeout(p)
      PROVE  LifeInv'
  BY <1>0, <1>7, SameLife DEF FlushTimeout, catalog
<1>8. ASSUME NEW k \in Sockets, OrphanOpens(k)
      PROVE  LifeInv'
  <2>1. \A p \in closing : socket[p] = k => members[p] = {}
    BY <1>0, <1>8 DEF OrphanOpens, LifeInv, ClosingPoolAwaitsClose, TypeOK
  <2> QED
    BY <1>0, <1>8, <2>1, SocketAdvancesLife DEF OrphanOpens, catalog
<1>9. ASSUME NEW k \in Sockets, NEW p \in Pools, SocketOpens(p, k)
      PROVE  LifeInv'
  <2>1. \A q \in closing : socket[q] = k => members[q] = {}
    BY <1>0, <1>9 DEF SocketOpens, Opening, LifeInv, ClosingPoolAwaitsClose, TypeOK
  <2> QED
    BY <1>0, <1>9, <2>1, SocketAdvancesLife DEF SocketOpens, Opening, catalog
<1>10. ASSUME NEW k \in Sockets, ServerStartsClose(k)
       PROVE  LifeInv'
  BY <1>0, <1>10, SocketAdvancesLife DEF ServerStartsClose, catalog
<1>11. ASSUME NEW k \in Sockets, NEW p \in Pools, NegotiationFails(p, k)
       PROVE  LifeInv'
  BY <1>0, <1>11, ProtocolViolationLife DEF NegotiationFails
<1>12. ASSUME NEW k \in Sockets, ServerBreaksProtocol(k)
       PROVE  LifeInv'
  BY <1>0, <1>12, CreatorIsPool, ProtocolViolationLife DEF ServerBreaksProtocol, Incoming
<1>13. ASSUME NEW k \in Sockets, NEW s \in StreamIds, ServerClosesStream(k, s)
       PROVE  LifeInv'
  <2>1. creator[k] \in Pools /\ s \in members[creator[k]]
    BY <1>0, <1>13, CreatorIsPool DEF ServerClosesStream, Incoming
  <2>2. boundTo[s] \in Pools
    BY <1>0, <2>1, MemberBound
  <2> QED
    BY <1>0, <1>13, <2>2, DetachLife DEF ServerClosesStream
<1>14. ASSUME NEW k \in Sockets,
              (\E to \in SUBSET StreamIds : ServerMessage(k, to)) \/ Drain(k)
       PROVE  LifeInv'
  BY <1>0, <1>14, SameLife DEF ServerMessage, OnlyPost, state, Drain, catalog
<1>15. PageRequest => LifeInv'
  BY <1>1, <1>2, <1>3 DEF PageRequest
<1>16. Housekeeping => LifeInv'
  BY <1>0, <1>4, <1>5, <1>6, <1>7, IdleTimeoutLife, ReconnectTimeoutLife
  DEF Housekeeping, LeaseSweep, CleanupPort
<1>17. SocketEvent => LifeInv'
  BY <1>0, <1>8, <1>9, <1>10, <1>11, <1>12, <1>13, <1>14, SocketClosesLife DEF SocketEvent
<1> QED
  BY <1>15, <1>16, <1>17 DEF Next

-----------------------------------------------------------------------------
(* The theorems. *)

LEMMA InitInv ==
  ASSUME SocketWorkerAssumption, Init
  PROVE  Inv
<1>1. TypeOK
  BY NoMessages DEF Init, TypeOK, Messages
<1>2. RegistryAgrees
  BY DEF Init, RegistryAgrees, Bound, SocketWorkerAssumption
<1>3. NoPoolStranded /\ EmptyPoolRetires /\ ClosingPoolAwaitsClose /\ SocketsOwned
  BY DEF Init, NoPoolStranded, EmptyPoolRetires, ClosingPoolAwaitsClose, SocketsOwned
<1> QED
  BY <1>1, <1>2, <1>3 DEF Inv

LEMMA StutterInv ==
  ASSUME Inv, UNCHANGED vars
  PROVE  Inv'
BY DEF Inv, TypeOK, RegistryAgrees, Bound, NoPoolStranded, EmptyPoolRetires,
       ClosingPoolAwaitsClose, SocketsOwned,
       vars, state, registry, catalog, timers, backlog, physical, wire

\* Every reachable state satisfies the inductive invariant.
THEOREM Invariance == Spec => []Inv
<1>1. Init => Inv
  BY InitInv, SocketWorkerAssumption
<1>2. Inv /\ [Next]_vars => Inv'
  <2>1. ASSUME Inv, Next PROVE Inv'
    BY <2>1, TypeStep, RegistryStep, LifeStep, SocketWorkerAssumption DEF Inv, LifeInv
  <2> QED
    BY <2>1, StutterInv
<1> QED
  BY <1>1, <1>2, PTL DEF Spec

\* Every variable but the backlog keeps its type.
THEOREM TypeCorrect == Spec => []TypeOK
<1>1. Inv => TypeOK
  BY DEF Inv
<1> QED
  BY <1>1, Invariance, PTL

\* The stream map, the pools' streams and the index by port never disagree, also
\* within the loops that detach many streams.
THEOREM RegistryConsistent == Spec => []RegistryAgrees
<1>1. Inv => RegistryAgrees
  BY DEF Inv
<1> QED
  BY <1>1, Invariance, PTL

\* A pool with streams always has a socket or a reconnect timer that will connect.
THEOREM PoolsNeverStranded == Spec => []NoPoolStranded
<1>1. Inv => NoPoolStranded
  BY DEF Inv
<1> QED
  BY <1>1, Invariance, PTL

\* A live pool without streams always has its idle timer armed.
THEOREM EmptyPoolsRetire == Spec => []EmptyPoolRetires
<1>1. Inv => EmptyPoolRetires
  BY DEF Inv
<1> QED
  BY <1>1, Invariance, PTL

\* A closing pool that still has streams waits for a socket that is closing.
THEOREM ClosingPoolsAwaitClose == Spec => []ClosingPoolAwaitsClose
<1>1. Inv => ClosingPoolAwaitsClose
  BY DEF Inv
<1> QED
  BY <1>1, Invariance, PTL

LEMMA ClosingStep ==
  ASSUME SocketWorkerAssumption, Inv, Next, NEW p \in closing
  PROVE  \/ p \in closing' /\ socket'[p] \in {socket[p], None}
         \/ Unreachable(p)
<1> DEFINE Goal == \/ p \in closing' /\ socket'[p] \in {socket[p], None}
                   \/ Unreachable(p)
<1>0. /\ TypeOK /\ RegistryAgrees /\ SocketsOwned
      /\ p \in Pools
  BY DEF Inv, TypeOK
<1>1. CASE closing \subseteq closing' /\ UNCHANGED socket
  BY <1>1
<1>2. ASSUME NEW q \in Pools, closing \subseteq closing',
             socket' = [socket EXCEPT ![q] = None]
      PROVE  Goal
  BY <1>0, <1>2 DEF TypeOK
<1>3. ASSUME NEW q \in Pools, NEW k \in Sockets, Connect(q, k), UNCHANGED closing,
             q \notin closing
      PROVE  Goal
  BY <1>0, <1>3 DEF Connect, TypeOK
<1>4. ASSUME NEW c \in Ports, NEW s \in StreamIds, NEW i \in Identities, OpenStream(c, s, i)
      PROVE  Goal
  <2>1. CASE \/ OpenRefused(c, s, i)
             \/ OpenAgain(c, s, i)
             \/ OpenWithoutPool(c, s, i)
             \/ OpenInFullPool(c, s, i)
             \/ \E q \in Pools : OpenWhileConnecting(c, s, i, q) \/ OpenOnOpenSocket(c, s, i, q)
    BY <1>1, <2>1
    DEF OpenRefused, OnlyPost, state, catalog, OpenAgain, OpenWithoutPool, OpenInFullPool,
        OpenWhileConnecting, OpenOnOpenSocket, JoinPool
  <2>2. ASSUME NEW q \in Pools, NEW k \in Sockets, OpenInNewPool(c, s, i, q, k)
        PROVE  Goal
    BY <1>0, <2>2 DEF OpenInNewPool, Connect, TypeOK
  <2>3. ASSUME NEW q \in Pools, NEW k \in Sockets, OpenAndConnect(c, s, i, q, k)
        PROVE  Goal
    BY <1>3, <2>3 DEF OpenAndConnect, JoinPool, Reusable, catalog
  <2> QED
    BY <1>4, <2>1, <2>2, <2>3 DEF OpenStream
<1>5. ASSUME NEW q \in Pools, ProtocolViolation(q)
      PROVE  Goal
  BY <1>1, <1>5 DEF ProtocolViolation, ClosePool, Retire
<1>6. ASSUME NEW s, NEW told, NEW messages, Detach(s, told, messages)
      PROVE  Goal
  BY <1>1, <1>6 DEF Detach, catalog
<1>7. PageRequest => Goal
  BY <1>1, <1>4, <1>6
  DEF PageRequest, NotOwned, OnlyPost, state, Heartbeat, Send, CloseStream, CloseThrows, catalog
<1>8. ASSUME NEW q \in Pools, IdleTimeout(q) \/ ReconnectTimeout(q) \/ FlushTimeout(q)
      PROVE  Goal
  <2>1. CASE IdleTimeout(q)
    BY <1>1, <1>2, <2>1 DEF IdleTimeout, Retire, catalog
  <2>2. CASE ReconnectTimeout(q)
    BY <1>1, <1>3, <2>2 DEF ReconnectTimeout, ReconnectWanted, catalog
  <2>3. CASE FlushTimeout(q)
    BY <1>1, <2>3 DEF FlushTimeout, catalog
  <2> QED
    BY <1>8, <2>1, <2>2, <2>3
<1>9. Housekeeping => Goal
  BY <1>1, <1>6, <1>8
  DEF Housekeeping, LeaseExpires, Evict, LeaseSweep, CleanupPort, BeginEviction, catalog
<1>10. ASSUME NEW k \in Sockets, NEW code, NEW errored, SocketCloses(k, code, errored)
       PROVE  Goal
  <2>1. creator[k] \in Pools
    BY <1>0, <1>10, CreatorIsPool DEF SocketCloses
  <2>2. UNCHANGED catalog \/ \E messages : ClosePool(creator[k], messages)
    BY <1>10 DEF SocketCloses
  <2>3. closing \subseteq closing'
    BY <2>2 DEF ClosePool, Retire, catalog
  <2> QED
    BY <1>1, <1>2, <1>10, <2>1, <2>3 DEF SocketCloses
<1>11. ASSUME NEW k \in Sockets,
              \/ OrphanOpens(k)
              \/ \E q \in Pools : NegotiationFails(q, k) \/ SocketOpens(q, k)
              \/ \E to \in SUBSET StreamIds : ServerMessage(k, to)
              \/ \E s \in StreamIds : ServerClosesStream(k, s)
              \/ ServerBreaksProtocol(k)
              \/ ServerStartsClose(k)
              \/ Drain(k)
       PROVE  Goal
  BY <1>0, <1>1, <1>5, <1>6, <1>11, CreatorIsPool
  DEF OrphanOpens, NegotiationFails, SocketOpens, ServerMessage, OnlyPost, state, Incoming,
      ServerClosesStream, ServerBreaksProtocol, ServerStartsClose, Drain, catalog
<1>12. SocketEvent => Goal
  BY <1>10, <1>11 DEF SocketEvent
<1> QED
  BY <1>7, <1>9, <1>12 DEF Next

\* No step gives a closing pool another socket or brings it back to life, unless the
\* step takes an object that nothing refers to any more.
THEOREM ClosingFinal == Spec => ClosingIsFinal
<1>1. Inv /\ [Next]_vars =>
        [\A p \in closing : \/ p \in closing' /\ socket'[p] \in {socket[p], None}
                            \/ Unreachable(p)]_vars
  BY ClosingStep, SocketWorkerAssumption
<1> QED
  BY <1>1, Invariance, PTL DEF Spec, ClosingIsFinal

-----------------------------------------------------------------------------
(* What the pages hear. *)

\* Messages that tell stream s that it is closed.
Tells(messages, s) ==
  \E i \in DOMAIN messages : messages[i].event = "close" /\ s \in messages[i].to

LEMMA PostTells ==
  ASSUME NEW to \in SUBSET StreamIds, NEW event \in EventNames, NEW t
  PROVE  Tells(Post(to, event), t) <=> event = "close" /\ t \in to
<1>1. CASE to = {}
  BY <1>1 DEF Tells, Post
<1>2. CASE to # {}
  <2>1. Post(to, event) = <<[to |-> to, event |-> event]>>
    BY <1>2 DEF Post
  <2> QED BY <2>1 DEF Tells
<1> QED BY <1>1, <1>2

LEMMA PostPoolTells ==
  ASSUME TypeOK, NEW p \in Pools, NEW event \in EventNames, NEW t
  PROVE  Tells(PostPool(p, event), t) <=> event = "close" /\ t \in members[p]
<1>1. members[p] \in SUBSET StreamIds
  BY DEF TypeOK
<1> QED BY <1>1, PostTells DEF PostPool

LEMMA ReplyTells ==
  ASSUME NEW s \in StreamIds, NEW ok \in BOOLEAN, NEW t
  PROVE  ~Tells(Reply(s, ok), t)
<1>1. {s} \in SUBSET StreamIds /\ (IF ok THEN "ok" ELSE "fail") \in EventNames
  BY DEF EventNames
<1> QED BY <1>1, PostTells DEF Reply

LEMMA ConcatTells ==
  ASSUME NEW a \in Messages, NEW b \in Messages, NEW t
  PROVE  Tells(a \o b, t) <=> Tells(a, t) \/ Tells(b, t)
<1>1. /\ Len(a) \in Nat /\ Len(b) \in Nat /\ DOMAIN a = 1..Len(a) /\ DOMAIN b = 1..Len(b)
      /\ DOMAIN (a \o b) = 1..Len(a) + Len(b)
      /\ \A i \in 1..Len(a) + Len(b) :
           (a \o b)[i] = IF i =< Len(a) THEN a[i] ELSE b[i - Len(a)]
  BY DEF Messages
<1>2. ASSUME Tells(a \o b, t) PROVE Tells(a, t) \/ Tells(b, t)
  <2>1. PICK i \in 1..Len(a) + Len(b) : (a \o b)[i].event = "close" /\ t \in (a \o b)[i].to
    BY <1>1, <1>2 DEF Tells
  <2>2. CASE i =< Len(a)
    BY <1>1, <2>1, <2>2 DEF Tells
  <2>3. CASE i > Len(a)
    <3>1. i - Len(a) \in 1..Len(b) /\ (a \o b)[i] = b[i - Len(a)]
      BY <1>1, <2>3
    <3> QED BY <1>1, <2>1, <3>1 DEF Tells
  <2> QED BY <1>1, <2>2, <2>3
<1>3. ASSUME Tells(a, t) PROVE Tells(a \o b, t)
  <2>1. PICK i \in 1..Len(a) : a[i].event = "close" /\ t \in a[i].to
    BY <1>1, <1>3 DEF Tells
  <2>2. i \in 1..Len(a) + Len(b) /\ (a \o b)[i] = a[i]
    BY <1>1
  <2> QED BY <1>1, <2>1, <2>2 DEF Tells
<1>4. ASSUME Tells(b, t) PROVE Tells(a \o b, t)
  <2>1. PICK i \in 1..Len(b) : b[i].event = "close" /\ t \in b[i].to
    BY <1>1, <1>4 DEF Tells
  <2>2. i + Len(a) \in 1..Len(a) + Len(b) /\ (a \o b)[i + Len(a)] = b[i]
    BY <1>1
  <2> QED BY <1>1, <2>1, <2>2 DEF Tells
<1> QED BY <1>2, <1>3, <1>4

LEMMA CloseToldStep ==
  ASSUME SocketWorkerAssumption, Inv, Next, NEW t \in Bound
  PROVE  /\ HearsClose(t)' => t \notin Bound'
         /\ t \notin Bound' => HearsClose(t)' \/ t \in evicting
<1> DEFINE Goal == /\ HearsClose(t)' => t \notin Bound'
                   /\ t \notin Bound' => HearsClose(t)' \/ t \in evicting
<1>0. /\ TypeOK /\ RegistryAgrees /\ SocketsOwned
      /\ t \in StreamIds /\ boundTo[t] \in Pools /\ None \notin Pools
  BY BoundHasPool DEF Inv, SocketWorkerAssumption
<1>1. /\ HearsClose(t)' <=> Tells(out', t)
      /\ t \in Bound' <=> boundTo'[t] # None
  BY <1>0 DEF HearsClose, Tells, Bound
<1>2. ASSUME boundTo'[t] # None, ~Tells(out', t) PROVE Goal
  BY <1>1, <1>2
<1>3. ASSUME boundTo'[t] = None, Tells(out', t) \/ t \in evicting PROVE Goal
  BY <1>1, <1>3
<1>4. ASSUME UNCHANGED boundTo, ~Tells(out', t) PROVE Goal
  BY <1>0, <1>2, <1>4
<1>5. ~Tells(<<>>, t)
  BY DEF Tells
<1> HIDE DEF Goal
<1>6. ASSUME NEW s \in StreamIds, NEW told, NEW messages, Detach(s, told, messages),
             Tells(messages, t) <=> t = s /\ s \notin evicting
      PROVE  Goal
  <2>1. out' = messages /\ boundTo'[t] = IF t = s THEN None ELSE boundTo[t]
    BY <1>0, <1>6 DEF Detach, Unbind
  <2> QED BY <1>0, <1>2, <1>3, <1>6, <2>1
<1>7. ASSUME NEW p \in Pools, NEW messages \in Messages, ~Tells(messages, t),
             ClosePool(p, messages)
      PROVE  Goal
  <2>1. /\ out' = messages \o PostPool(p, "close")
        /\ boundTo'[t] = IF t \in members[p] THEN None ELSE boundTo[t]
    BY <1>0, <1>7 DEF ClosePool, Unbind
  <2>2. "close" \in EventNames
    BY DEF EventNames
  <2>3. Tells(out', t) <=> t \in members[p]
    BY <1>0, <1>7, <2>1, <2>2, PostPoolType, PostPoolTells, ConcatTells
  <2> QED BY <1>0, <1>2, <1>3, <2>1, <2>3
<1>8. ASSUME NEW p \in Pools
      PROVE  PostPool(p, "error") \in Messages /\ ~Tells(PostPool(p, "error"), t)
  BY <1>0, PostPoolType, PostPoolTells DEF EventNames
<1>9. ASSUME NEW p \in Pools, ProtocolViolation(p) PROVE Goal
  BY <1>4, <1>7, <1>8, <1>9 DEF ProtocolViolation, registry
<1>10. ASSUME NEW s \in StreamIds
       PROVE  /\ Reply(s, TRUE) \in Messages /\ ~Tells(Reply(s, TRUE), t)
              /\ Reply(s, FALSE) \in Messages /\ ~Tells(Reply(s, FALSE), t)
  BY ReplyType, ReplyTells
<1>11. ASSUME NEW c \in Ports, NEW s \in StreamIds, NEW i \in Identities, OpenStream(c, s, i)
       PROVE  Goal
  <2>1. ~Tells(Post({s}, "open") \o Reply(s, TRUE), t)
    <3>1. {s} \in SUBSET StreamIds /\ "open" \in EventNames /\ "open" # "close"
      BY DEF EventNames
    <3>2. Post({s}, "open") \in Messages /\ ~Tells(Post({s}, "open"), t)
      BY <3>1, PostType, PostTells
    <3> QED BY <1>10, <3>2, ConcatTells
  <2>2. CASE OpenRefused(c, s, i) \/ OpenAgain(c, s, i)
    BY <1>4, <1>10, <2>2 DEF OpenRefused, OnlyPost, state, registry, OpenAgain, RenewLease
  <2>3. CASE OpenWithoutPool(c, s, i) \/ OpenInFullPool(c, s, i)
    BY <1>4, <1>10, <2>3 DEF OpenWithoutPool, OpenInFullPool, registry
  <2>4. ASSUME NEW p \in Pools, Register(c, s, p), ~Tells(out', t) PROVE Goal
    <3>1. boundTo'[t] # None
      BY <1>0, <2>4 DEF Register, TypeOK
    <3> QED BY <1>2, <2>4, <3>1
  <2>5. ASSUME NEW p \in Pools, NEW k \in Sockets,
               OpenInNewPool(c, s, i, p, k) \/ OpenAndConnect(c, s, i, p, k)
        PROVE  Goal
    BY <1>10, <2>4, <2>5 DEF OpenInNewPool, OpenAndConnect, JoinPool
  <2>6. ASSUME NEW p \in Pools,
               OpenWhileConnecting(c, s, i, p) \/ OpenOnOpenSocket(c, s, i, p)
        PROVE  Goal
    BY <1>10, <2>1, <2>4, <2>6 DEF OpenWhileConnecting, OpenOnOpenSocket, JoinPool
  <2> QED
    BY <1>11, <2>2, <2>3, <2>5, <2>6 DEF OpenStream
<1>12. ASSUME NEW c \in Ports, NEW s \in StreamIds, CloseStream(c, s) PROVE Goal
  <2>1. {s} \in SUBSET StreamIds /\ "close" \in EventNames
    BY DEF EventNames
  <2>2. Post({s}, "close") \in Messages /\ (Tells(Post({s}, "close"), t) <=> t = s)
    BY <2>1, PostType, PostTells
  <2>3. Tells(Post({s}, "close") \o Reply(s, TRUE), t) <=> t = s
    BY <1>10, <2>2, ConcatTells
  <2> QED BY <1>6, <1>12, <2>3 DEF CloseStream, AtRest
<1>13. PageRequest => Goal
  <2>1. ASSUME NEW c \in Ports, NEW s \in StreamIds,
               \/ NotOwned(c, s)
               \/ Heartbeat(c, s) \/ CloseThrows(c, s)
               \/ \E n \in DataBytes : Send(c, s, n)
        PROVE  Goal
    BY <1>4, <1>10, <2>1
    DEF NotOwned, OnlyPost, state, registry, Heartbeat, CloseThrows, Send, RenewLease
  <2> QED BY <1>11, <1>12, <2>1 DEF PageRequest
<1>14. Housekeeping => Goal
  <2>1. CASE UNCHANGED boundTo /\ out' = <<>>
    BY <1>4, <1>5, <2>1
  <2>2. ASSUME NEW s \in StreamIds, Evict(s) PROVE Goal
    BY <1>5, <1>6, <2>2 DEF Evict
  <2>3. ASSUME NEW p \in Pools, IdleTimeout(p) \/ ReconnectTimeout(p) \/ FlushTimeout(p)
        PROVE  UNCHANGED boundTo /\ out' = <<>>
    BY <2>3 DEF IdleTimeout, ReconnectTimeout, FlushTimeout, registry
  <2>4. ASSUME \/ \E s \in StreamIds : LeaseExpires(s)
               \/ LeaseSweep
               \/ \E c \in Ports : CleanupPort(c)
        PROVE  UNCHANGED boundTo /\ out' = <<>>
    BY <2>4 DEF LeaseExpires, LeaseSweep, CleanupPort, BeginEviction
  <2> QED BY <2>1, <2>2, <2>3, <2>4 DEF Housekeeping
<1>15. ASSUME NEW k \in Sockets, NEW s \in StreamIds, ServerClosesStream(k, s) PROVE Goal
  <2>1. {s} \in SUBSET StreamIds /\ "close" \in EventNames
    BY DEF EventNames
  <2>2. Tells(Post({s}, "close"), t) <=> t = s
    BY <2>1, PostTells
  <2> QED BY <1>6, <1>15, <2>2 DEF ServerClosesStream, Incoming, AtRest
<1>16. ASSUME NEW k \in Sockets, NEW code, NEW errored, SocketCloses(k, code, errored)
       PROVE  Goal
  <2> DEFINE p == creator[k]
             error == IF errored THEN PostPool(p, "error") ELSE <<>>
  <2>1. p \in Pools
    BY <1>0, <1>16, CreatorIsPool DEF SocketCloses
  <2>2. error \in Messages /\ ~Tells(error, t)
    BY <1>5, <1>8, <2>1, NoMessages
  <2>3. \/ out' = error /\ UNCHANGED registry
        \/ ScheduleReconnect(p, error) /\ UNCHANGED registry
        \/ ClosePool(p, error)
    BY <1>16 DEF SocketCloses
  <2> HIDE DEF p, error
  <2>4. ASSUME ScheduleReconnect(p, error) PROVE ~Tells(out', t)
    <3> DEFINE news == IF p \in reconnectTimer THEN <<>> ELSE PostPool(p, "reconnecting")
    <3>1. PostPool(p, "reconnecting") \in Messages /\ ~Tells(PostPool(p, "reconnecting"), t)
      BY <1>0, <2>1, PostPoolType, PostPoolTells DEF EventNames
    <3>2. news \in Messages /\ ~Tells(news, t)
      BY <1>5, <3>1, NoMessages
    <3>3. out' = error \o news
      BY <2>4 DEF ScheduleReconnect
    <3> QED BY <2>2, <3>2, <3>3, ConcatTells
  <2> QED BY <1>4, <1>7, <2>1, <2>2, <2>3, <2>4 DEF registry
<1>17. ASSUME NEW k \in Sockets,
              OrphanOpens(k) \/ ServerStartsClose(k) \/ Drain(k)
       PROVE  Goal
  BY <1>4, <1>5, <1>17 DEF OrphanOpens, ServerStartsClose, Drain, registry
<1>18. ASSUME NEW k \in Sockets, NEW p \in Pools, SocketOpens(p, k) PROVE Goal
  <2>1. ~Tells(PostPool(p, "open"), t)
    BY <1>0, PostPoolTells DEF EventNames
  <2> QED BY <1>4, <1>18, <2>1 DEF SocketOpens, registry
<1>19. ASSUME NEW k \in Sockets, NEW to \in SUBSET StreamIds, ServerMessage(k, to) PROVE Goal
  <2>1. ~Tells(Post(to, "message"), t)
    BY PostTells DEF EventNames
  <2> QED BY <1>4, <1>19, <2>1 DEF ServerMessage, OnlyPost, state, registry
<1>20. ASSUME NEW k \in Sockets,
              \/ \E p \in Pools : NegotiationFails(p, k)
              \/ ServerBreaksProtocol(k)
       PROVE  Goal
  BY <1>0, <1>9, <1>20, CreatorIsPool DEF NegotiationFails, ServerBreaksProtocol, Incoming
<1>21. SocketEvent => Goal
  BY <1>15, <1>16, <1>17, <1>18, <1>19, <1>20 DEF SocketEvent
<1>22. Goal
  BY <1>13, <1>14, <1>21 DEF Next
<1> QED BY <1>22 DEF Goal

\* A page hears close exactly when the worker forgets its stream, but for leases and
\* ports that ended.
THEOREM CloseTold == Spec => CloseToldWhenForgotten
<1>1. Inv /\ [Next]_vars =>
        [\A s \in Bound : /\ HearsClose(s)' => s \notin Bound'
                          /\ s \notin Bound' => HearsClose(s)' \/ s \in evicting]_vars
  BY CloseToldStep, SocketWorkerAssumption
<1> QED
  BY <1>1, Invariance, PTL DEF Spec, CloseToldWhenForgotten

-----------------------------------------------------------------------------
(* What a step does to one stream, and what it posts: stated for those that use the *)
(* worker through its ports.                                                        *)

Kept(t) == boundTo'[t] = boundTo[t] /\ portOf'[t] = portOf[t]

\* Events, and no answer, for the streams S.
EventsOf(messages, S) ==
  \A i \in DOMAIN messages : /\ messages[i].to \subseteq S
                             /\ messages[i].event \notin {"ok", "fail"}

LEMMA NoEvents == ASSUME NEW S PROVE EventsOf(<<>>, S)
BY DEF EventsOf

LEMMA PostEvents ==
  ASSUME NEW to \in SUBSET StreamIds, NEW event \in EventNames \ {"ok", "fail"},
         NEW S, to \subseteq S
  PROVE  Post(to, event) \in Messages /\ EventsOf(Post(to, event), S)
<1>1. Post(to, event) \in Messages
  BY PostType
<1>2. CASE to = {}
  BY <1>1, <1>2 DEF Post, EventsOf
<1>3. CASE to # {}
  <2>1. Post(to, event) = <<[to |-> to, event |-> event]>>
    BY <1>3 DEF Post
  <2> QED BY <1>1, <2>1 DEF EventsOf
<1> QED BY <1>2, <1>3

LEMMA PostPoolEvents ==
  ASSUME TypeOK, RegistryAgrees, SocketWorkerAssumption, NEW p \in Pools,
         NEW event \in EventNames \ {"ok", "fail"}
  PROVE  PostPool(p, event) \in Messages /\ EventsOf(PostPool(p, event), Bound)
<1>1. members[p] \in SUBSET StreamIds
  BY DEF TypeOK
<1>2. members[p] \subseteq Bound
  BY <1>1 DEF RegistryAgrees, Bound, SocketWorkerAssumption
<1> QED BY <1>1, <1>2, PostEvents DEF PostPool

LEMMA ConcatEvents ==
  ASSUME NEW a \in Messages, NEW b \in Messages, NEW S, EventsOf(a, S), EventsOf(b, S)
  PROVE  a \o b \in Messages /\ EventsOf(a \o b, S)
<1>1. a \o b \in Messages
  BY ConcatType
<1>2. /\ Len(a) \in Nat /\ Len(b) \in Nat /\ DOMAIN a = 1..Len(a) /\ DOMAIN b = 1..Len(b)
      /\ DOMAIN (a \o b) = 1..Len(a) + Len(b)
      /\ \A i \in 1..Len(a) + Len(b) :
           (a \o b)[i] = IF i =< Len(a) THEN a[i] ELSE b[i - Len(a)]
  BY DEF Messages
<1>3. ASSUME NEW i \in 1..Len(a) + Len(b)
      PROVE  (a \o b)[i].to \subseteq S /\ (a \o b)[i].event \notin {"ok", "fail"}
  <2>1. CASE i =< Len(a)
    BY <1>2, <2>1 DEF EventsOf
  <2>2. CASE i > Len(a)
    <3>1. i - Len(a) \in 1..Len(b) /\ (a \o b)[i] = b[i - Len(a)]
      BY <1>2, <2>2
    <3> QED BY <1>2, <3>1 DEF EventsOf
  <2> QED BY <1>2, <2>1, <2>2
<1> QED BY <1>1, <1>2, <1>3 DEF EventsOf

LEMMA RepliesAre ==
  ASSUME NEW s \in StreamIds
  PROVE  /\ Reply(s, TRUE) = <<[to |-> {s}, event |-> "ok"]>>
         /\ Reply(s, FALSE) = <<[to |-> {s}, event |-> "fail"]>>
BY DEF Reply, Post

LEMMA Pair ==
  ASSUME NEW S, NEW a \in S, NEW b \in S
  PROVE  <<a>> \o <<b>> = <<a, b>>
<1> DEFINE x == <<a>> \o <<b>>
           y == <<a, b>>
<1>1. <<a>> \in Seq(S) /\ <<b>> \in Seq(S) /\ y \in Seq(S)
  OBVIOUS
<1>2. x \in Seq(S) /\ Len(x) = 2 /\ x[1] = a /\ x[2] = b
  BY <1>1
<1>3. Len(y) = 2 /\ y[1] = a /\ y[2] = b
  OBVIOUS
<1> HIDE DEF x, y
<1>4. x \in [1..2 -> S] /\ y \in [1..2 -> S]
  BY <1>1, <1>2, <1>3
<1>5. \A i \in 1..2 : x[i] = y[i]
  <2>1. \A i \in 1..2 : i = 1 \/ i = 2
    OBVIOUS
  <2> QED BY <1>2, <1>3, <2>1
<1>6. x = y
  BY <1>4, <1>5
<1> QED BY <1>6 DEF x, y

\* An event for stream s, then the answer.
LEMMA EventThenReply ==
  ASSUME NEW s \in StreamIds, NEW event
  PROVE  Post({s}, event) \o Reply(s, TRUE)
           = <<[to |-> {s}, event |-> event], [to |-> {s}, event |-> "ok"]>>
<1> DEFINE a == [to |-> {s}, event |-> event]
           b == [to |-> {s}, event |-> "ok"]
<1>1. Post({s}, event) = <<a>> /\ Reply(s, TRUE) = <<b>>
  BY RepliesAre DEF Post
<1>2. a \in {a, b} /\ b \in {a, b}
  OBVIOUS
<1> HIDE DEF a, b
<1>3. <<a>> \o <<b>> = <<a, b>>
  BY <1>2, Pair
<1> QED BY <1>1, <1>3 DEF a, b

\* A stream that a page asks to open is bound to its port, or stays as it is; open is
\* told of a new binding only.
OpenEffect(c, s) ==
  /\ \A t \in StreamIds \ {s} : Kept(t)
  /\ Kept(s) \/ (boundTo[s] = None /\ boundTo'[s] # None /\ portOf'[s] = c)
  /\ \/ out' \in {<<[to |-> {s}, event |-> "ok"]>>, <<[to |-> {s}, event |-> "fail"]>>}
     \/ /\ out' = <<[to |-> {s}, event |-> "open"], [to |-> {s}, event |-> "ok"]>>
        /\ ~Kept(s)

\* open_stream binds its stream to the asking port or leaves the registry as it is, and
\* says open only of a new binding (attach, acquirePool, openStream).
THEOREM OpenEffects ==
  Inv => \A c \in Ports, s \in StreamIds, i \in Identities :
           OpenStream(c, s, i) => OpenEffect(c, s)
<1> SUFFICES ASSUME Inv, NEW c \in Ports, NEW s \in StreamIds, NEW i \in Identities,
                    OpenStream(c, s, i)
             PROVE  OpenEffect(c, s)
  OBVIOUS
<1>0. TypeOK /\ None \notin Pools
  BY SocketWorkerAssumption DEF Inv
<1>1. /\ Reply(s, TRUE) = <<[to |-> {s}, event |-> "ok"]>>
      /\ Reply(s, FALSE) = <<[to |-> {s}, event |-> "fail"]>>
      /\ Post({s}, "open") \o Reply(s, TRUE)
           = <<[to |-> {s}, event |-> "open"], [to |-> {s}, event |-> "ok"]>>
  BY RepliesAre, EventThenReply
<1>2. CASE OpenRefused(c, s, i) \/ OpenAgain(c, s, i)
  BY <1>1, <1>2 DEF OpenRefused, OnlyPost, state, registry, OpenAgain, RenewLease,
     OpenEffect, Kept
<1>3. CASE OpenWithoutPool(c, s, i) \/ OpenInFullPool(c, s, i)
  BY <1>1, <1>3 DEF OpenWithoutPool, OpenInFullPool, registry, OpenEffect, Kept
<1>4. ASSUME NEW p \in Pools, Register(c, s, p), s \notin Bound
      PROVE  /\ \A t \in StreamIds \ {s} : Kept(t)
             /\ boundTo[s] = None /\ boundTo'[s] # None /\ portOf'[s] = c
  BY <1>0, <1>4 DEF Register, TypeOK, Bound, Kept
<1>5. ASSUME NEW p \in Pools, NEW k \in Sockets,
             OpenInNewPool(c, s, i, p, k) \/ OpenAndConnect(c, s, i, p, k)
      PROVE  OpenEffect(c, s)
  <2>1. Register(c, s, p) /\ s \notin Bound /\ out' = Reply(s, TRUE)
    BY <1>5 DEF OpenInNewPool, OpenAndConnect, JoinPool, Admitted
  <2> QED BY <1>1, <1>4, <2>1 DEF OpenEffect
<1>6. ASSUME NEW p \in Pools,
             OpenWhileConnecting(c, s, i, p) \/ OpenOnOpenSocket(c, s, i, p)
      PROVE  OpenEffect(c, s)
  <2>1. /\ Register(c, s, p) /\ s \notin Bound
        /\ out' \in {Reply(s, TRUE), Reply(s, FALSE), Post({s}, "open") \o Reply(s, TRUE)}
    BY <1>6 DEF OpenWhileConnecting, OpenOnOpenSocket, JoinPool, Admitted
  <2>2. ~Kept(s)
    BY <1>4, <2>1 DEF Kept
  <2> QED BY <1>1, <1>4, <2>1, <2>2 DEF OpenEffect
<1> QED BY <1>2, <1>3, <1>5, <1>6 DEF OpenStream

CloseEffect(c, s) ==
  /\ \A t \in StreamIds \ {s} : Kept(t)
  /\ boundTo[s] # None /\ portOf[s] = c /\ boundTo'[s] = None
  /\ out' = <<[to |-> {s}, event |-> "close"], [to |-> {s}, event |-> "ok"]>>

\* The other requests: only close_stream of an owned stream forgets it, telling close
\* before ok; of what the owning port asks only a send and a close whose reason does not
\* fit are refused, and the refusal leaves every stream where it is (port.onmessage).
THEOREM RequestEffects ==
  Inv => \A c \in Ports, s \in StreamIds :
    /\ NotOwned(c, s) => /\ ~(boundTo[s] # None /\ portOf[s] = c)
                         /\ \A t \in StreamIds : Kept(t)
                         /\ out' = <<[to |-> {s}, event |-> "fail"]>>
    /\ Heartbeat(c, s) => /\ \A t \in StreamIds : Kept(t)
                          /\ out' = <<[to |-> {s}, event |-> "ok"]>>
    /\ \A n \in DataBytes :
         Send(c, s, n) => /\ \A t \in StreamIds : Kept(t)
                          /\ out' \in {<<[to |-> {s}, event |-> "ok"]>>,
                                      <<[to |-> {s}, event |-> "fail"]>>}
    /\ CloseStream(c, s) => CloseEffect(c, s)
    /\ CloseThrows(c, s) => /\ \A t \in StreamIds : Kept(t)
                            /\ out' = <<[to |-> {s}, event |-> "fail"]>>
<1> SUFFICES ASSUME Inv, NEW c \in Ports, NEW s \in StreamIds
             PROVE  /\ NotOwned(c, s) => /\ ~(boundTo[s] # None /\ portOf[s] = c)
                                         /\ \A t \in StreamIds : Kept(t)
                                         /\ out' = <<[to |-> {s}, event |-> "fail"]>>
                    /\ Heartbeat(c, s) => /\ \A t \in StreamIds : Kept(t)
                                          /\ out' = <<[to |-> {s}, event |-> "ok"]>>
                    /\ \A n \in DataBytes :
                         Send(c, s, n) => /\ \A t \in StreamIds : Kept(t)
                                          /\ out' \in {<<[to |-> {s}, event |-> "ok"]>>,
                                                      <<[to |-> {s}, event |-> "fail"]>>}
                    /\ CloseStream(c, s) => CloseEffect(c, s)
                    /\ CloseThrows(c, s) => /\ \A t \in StreamIds : Kept(t)
                                            /\ out' = <<[to |-> {s}, event |-> "fail"]>>
  OBVIOUS
<1>0. TypeOK
  BY DEF Inv
<1>1. /\ Reply(s, TRUE) = <<[to |-> {s}, event |-> "ok"]>>
      /\ Reply(s, FALSE) = <<[to |-> {s}, event |-> "fail"]>>
      /\ Post({s}, "close") \o Reply(s, TRUE)
           = <<[to |-> {s}, event |-> "close"], [to |-> {s}, event |-> "ok"]>>
  BY RepliesAre, EventThenReply
<1>2. NotOwned(c, s) => /\ ~(boundTo[s] # None /\ portOf[s] = c)
                        /\ \A t \in StreamIds : Kept(t)
                        /\ out' = <<[to |-> {s}, event |-> "fail"]>>
  BY <1>1 DEF NotOwned, Owns, Bound, OnlyPost, state, registry, Kept
<1>3. Heartbeat(c, s) => /\ \A t \in StreamIds : Kept(t)
                         /\ out' = <<[to |-> {s}, event |-> "ok"]>>
  BY <1>1 DEF Heartbeat, RenewLease, Kept
<1>4. ASSUME NEW n \in DataBytes, Send(c, s, n)
      PROVE  /\ \A t \in StreamIds : Kept(t)
             /\ out' \in {<<[to |-> {s}, event |-> "ok"]>>, <<[to |-> {s}, event |-> "fail"]>>}
  BY <1>1, <1>4 DEF Send, RenewLease, Kept
<1>5. CloseStream(c, s) => CloseEffect(c, s)
  BY <1>0, <1>1 DEF CloseStream, Owns, Bound, Detach, Unbind, CloseEffect, Kept
<1>6. CloseThrows(c, s) => /\ \A t \in StreamIds : Kept(t)
                           /\ out' = <<[to |-> {s}, event |-> "fail"]>>
  BY <1>1 DEF CloseThrows, RenewLease, Kept
<1> QED BY <1>2, <1>3, <1>4, <1>5, <1>6

\* Without a request streams are only forgotten, and the events that are posted are of
\* streams that were bound.
OwnEffect ==
  /\ \A t \in StreamIds : Kept(t) \/ boundTo'[t] = None
  /\ out' \in Messages /\ EventsOf(out', Bound)

\* Timers, socket callbacks and the sweep never bind a stream, and post events, not
\* answers, for streams that were bound.
THEOREM OwnEffects == Inv /\ (Housekeeping \/ SocketEvent) => OwnEffect
<1> SUFFICES ASSUME Inv, Housekeeping \/ SocketEvent PROVE OwnEffect
  OBVIOUS
<1>0. TypeOK /\ RegistryAgrees /\ SocketsOwned
  BY DEF Inv
<1>1. CASE UNCHANGED <<boundTo, portOf>> /\ out' = <<>>
  BY <1>1, NoEvents, NoMessages DEF OwnEffect, Kept
<1>2. ASSUME NEW S, NEW messages \in Messages, EventsOf(messages, Bound), Unbind(S),
             out' = messages
      PROVE  OwnEffect
  BY <1>0, <1>2 DEF OwnEffect, Kept, Unbind, TypeOK
<1>3. ASSUME NEW p \in Pools, NEW messages \in Messages, EventsOf(messages, Bound),
             ClosePool(p, messages)
      PROVE  OwnEffect
  <2>1. PostPool(p, "close") \in Messages /\ EventsOf(PostPool(p, "close"), Bound)
    BY <1>0, PostPoolEvents, SocketWorkerAssumption DEF EventNames
  <2> QED BY <1>2, <1>3, <2>1, ConcatEvents DEF ClosePool
<1>4. ASSUME NEW p \in Pools, NEW event \in {"error", "open", "reconnecting"}
      PROVE  PostPool(p, event) \in Messages /\ EventsOf(PostPool(p, event), Bound)
  BY <1>0, PostPoolEvents, SocketWorkerAssumption DEF EventNames
<1>5. ASSUME UNCHANGED registry, out' \in Messages, EventsOf(out', Bound) PROVE OwnEffect
  BY <1>5 DEF registry, OwnEffect, Kept
<1>6. ASSUME NEW p \in Pools, ProtocolViolation(p) PROVE OwnEffect
  BY <1>3, <1>4, <1>5, <1>6 DEF ProtocolViolation
<1>7. Housekeeping => OwnEffect
  <2>1. ASSUME NEW s \in StreamIds, Evict(s) PROVE OwnEffect
    BY <1>2, <2>1, NoEvents, NoMessages DEF Evict, Detach
  <2>2. ASSUME \/ \E s \in StreamIds : LeaseExpires(s)
               \/ LeaseSweep
               \/ \E c \in Ports : CleanupPort(c)
        PROVE  UNCHANGED <<boundTo, portOf>> /\ out' = <<>>
    BY <2>2 DEF LeaseExpires, LeaseSweep, CleanupPort, BeginEviction
  <2>3. ASSUME NEW p \in Pools, IdleTimeout(p) \/ ReconnectTimeout(p) \/ FlushTimeout(p)
        PROVE  UNCHANGED <<boundTo, portOf>> /\ out' = <<>>
    BY <2>3 DEF IdleTimeout, ReconnectTimeout, FlushTimeout, registry
  <2> QED BY <1>1, <2>1, <2>2, <2>3 DEF Housekeeping
<1>8. ASSUME NEW k \in Sockets, OrphanOpens(k) \/ ServerStartsClose(k) \/ Drain(k)
      PROVE  OwnEffect
  BY <1>1, <1>8 DEF OrphanOpens, ServerStartsClose, Drain, registry
<1>9. ASSUME NEW k \in Sockets, NEW p \in Pools, SocketOpens(p, k) PROVE OwnEffect
  BY <1>4, <1>5, <1>9 DEF SocketOpens
<1>10. ASSUME NEW k \in Sockets,
              \/ \E p \in Pools : NegotiationFails(p, k)
              \/ ServerBreaksProtocol(k)
       PROVE  OwnEffect
  BY <1>0, <1>6, <1>10, CreatorIsPool DEF NegotiationFails, ServerBreaksProtocol, Incoming
<1>11. ASSUME NEW k \in Sockets, NEW to \in SUBSET StreamIds, ServerMessage(k, to)
       PROVE  OwnEffect
  <2>1. creator[k] \in Pools
    BY <1>0, <1>11, CreatorIsPool DEF ServerMessage, Incoming
  <2>2. to \subseteq members[creator[k]]
    BY <1>11 DEF ServerMessage
  <2>3. to \subseteq Bound
    BY <1>0, <2>1, <2>2, SocketWorkerAssumption DEF RegistryAgrees, Bound
  <2>4. Post(to, "message") \in Messages /\ EventsOf(Post(to, "message"), Bound)
    BY <2>3, PostEvents DEF EventNames
  <2> QED BY <1>5, <1>11, <2>4 DEF ServerMessage, OnlyPost, state
<1>12. ASSUME NEW k \in Sockets, NEW s \in StreamIds, ServerClosesStream(k, s)
       PROVE  OwnEffect
  <2>1. creator[k] \in Pools
    BY <1>0, <1>12, CreatorIsPool DEF ServerClosesStream, Incoming
  <2>2. {s} \subseteq Bound
    BY <1>0, <1>12, <2>1, SocketWorkerAssumption DEF ServerClosesStream, RegistryAgrees, Bound
  <2>3. Post({s}, "close") \in Messages /\ EventsOf(Post({s}, "close"), Bound)
    BY <2>2, PostEvents DEF EventNames
  <2> QED BY <1>2, <1>12, <2>3 DEF ServerClosesStream, Detach
<1>13. ASSUME NEW k \in Sockets, NEW code, NEW errored, SocketCloses(k, code, errored)
       PROVE  OwnEffect
  <2> DEFINE p == creator[k]
             error == IF errored THEN PostPool(p, "error") ELSE <<>>
             news == IF p \in reconnectTimer THEN <<>> ELSE PostPool(p, "reconnecting")
  <2>1. p \in Pools
    BY <1>0, <1>13, CreatorIsPool DEF SocketCloses
  <2>2. error \in Messages /\ EventsOf(error, Bound) /\ news \in Messages /\ EventsOf(news, Bound)
    BY <1>4, <2>1, NoEvents, NoMessages
  <2>3. \/ out' = error /\ UNCHANGED registry
        \/ out' = error \o news /\ UNCHANGED registry
        \/ ClosePool(p, error)
    BY <1>13, ZenonT(60) DEF SocketCloses, ScheduleReconnect
  <2> HIDE DEF p, error, news
  <2> QED BY <1>3, <1>5, <2>1, <2>2, <2>3, ConcatEvents
<1>14. SocketEvent => OwnEffect
  BY <1>8, <1>9, <1>10, <1>11, <1>12, <1>13 DEF SocketEvent
<1> QED BY <1>7, <1>14

\* Without a request, too, close is told of a stream only in the step in which the worker
\* forgets it (closePool, and the server's stream_close).
THEOREM CloseEffects ==
  Inv /\ (Housekeeping \/ SocketEvent) =>
    \A i \in DOMAIN out' : \A s \in out'[i].to :
      out'[i].event = "close" => s \in StreamIds /\ boundTo'[s] = None
<1> SUFFICES ASSUME Inv, Housekeeping \/ SocketEvent, NEW i \in DOMAIN out',
                    NEW s \in out'[i].to, out'[i].event = "close"
             PROVE  s \in StreamIds /\ boundTo'[s] = None
  OBVIOUS
<1>1. s \in Bound
  BY OwnEffects DEF OwnEffect, EventsOf
<1>2. HearsClose(s)'
  BY DEF HearsClose
<1>3. s \notin Bound'
  BY <1>1, <1>2, CloseToldStep, SocketWorkerAssumption DEF Next
<1> QED BY <1>1, <1>3 DEF Bound

-----------------------------------------------------------------------------
(* The worker keeps the table of StreamOwnership. *)

\* Nothing but the detach loop changes evicting, except to start that loop.
LEMMA LoopIsAtomic ==
  ASSUME Next
  PROVE  \/ AtRest /\ evicting' = {}
         \/ AtRest /\ (LeaseSweep \/ \E c \in Ports : CleanupPort(c))
         \/ \E s \in StreamIds : Evict(s)
<1> DEFINE Calm == AtRest /\ evicting' = {}
<1>1. ASSUME AtRest, NEW S, Unbind(S) PROVE Calm
  BY <1>1 DEF AtRest, Unbind
<1>2. ASSUME AtRest, UNCHANGED evicting PROVE Calm
  BY <1>2 DEF AtRest
<1> HIDE DEF Calm
<1>3. ASSUME NEW p, ProtocolViolation(p), AtRest PROVE Calm
  BY <1>1, <1>2, <1>3 DEF ProtocolViolation, ClosePool, registry
<1>4. ASSUME NEW c \in Ports, NEW s \in StreamIds, NEW i \in Identities, OpenStream(c, s, i)
      PROVE  Calm
  <2>1. AtRest /\ UNCHANGED evicting
    BY <1>4 DEF OpenStream, OpenRefused, OnlyPost, state, registry, OpenAgain, RenewLease,
       OpenWithoutPool, OpenInFullPool, OpenInNewPool, OpenAndConnect, OpenWhileConnecting,
       OpenOnOpenSocket, JoinPool, Admitted, Register
  <2> QED BY <1>2, <2>1
<1>5. ASSUME NEW c \in Ports, NEW s \in StreamIds,
             \/ NotOwned(c, s) \/ Heartbeat(c, s) \/ CloseThrows(c, s)
             \/ \E n \in DataBytes : Send(c, s, n)
      PROVE  Calm
  BY <1>2, <1>5
  DEF NotOwned, OnlyPost, state, registry, Heartbeat, CloseThrows, Send, RenewLease
<1>6. ASSUME NEW c \in Ports, NEW s \in StreamIds, CloseStream(c, s) PROVE Calm
  BY <1>1, <1>6 DEF CloseStream, Detach
<1>7. ASSUME NEW s \in StreamIds, LeaseExpires(s) PROVE Calm
  BY <1>2, <1>7 DEF LeaseExpires
<1>8. ASSUME LeaseSweep \/ \E c \in Ports : CleanupPort(c) PROVE AtRest
  BY <1>8 DEF LeaseSweep, CleanupPort, BeginEviction
<1>9. ASSUME NEW p \in Pools, IdleTimeout(p) \/ ReconnectTimeout(p) \/ FlushTimeout(p)
      PROVE  Calm
  BY <1>2, <1>9 DEF IdleTimeout, ReconnectTimeout, FlushTimeout, registry
<1>10. ASSUME NEW k \in Sockets, OrphanOpens(k) \/ ServerStartsClose(k) \/ Drain(k)
       PROVE  Calm
  BY <1>2, <1>10 DEF OrphanOpens, ServerStartsClose, Drain, registry
<1>11. ASSUME NEW k \in Sockets, NEW p \in Pools, SocketOpens(p, k) PROVE Calm
  BY <1>2, <1>11 DEF SocketOpens, Opening, registry
<1>12. ASSUME NEW k \in Sockets,
              (\E p \in Pools : NegotiationFails(p, k)) \/ ServerBreaksProtocol(k)
       PROVE  Calm
  BY <1>3, <1>12 DEF NegotiationFails, Opening, ServerBreaksProtocol, Incoming
<1>13. ASSUME NEW k \in Sockets, NEW to \in SUBSET StreamIds, ServerMessage(k, to) PROVE Calm
  BY <1>2, <1>13 DEF ServerMessage, OnlyPost, state, registry
<1>14. ASSUME NEW k \in Sockets, NEW s \in StreamIds, ServerClosesStream(k, s) PROVE Calm
  BY <1>1, <1>14 DEF ServerClosesStream, Incoming, Detach
<1>15. ASSUME NEW k \in Sockets, NEW code, NEW errored, SocketCloses(k, code, errored)
       PROVE  Calm
  <2> DEFINE error == IF errored THEN PostPool(creator[k], "error") ELSE <<>>
  <2>1. AtRest /\ (UNCHANGED registry \/ ClosePool(creator[k], error))
    BY <1>15, ZenonT(60) DEF SocketCloses
  <2> HIDE DEF error
  <2>2. CASE UNCHANGED registry
    BY <1>2, <2>1, <2>2 DEF registry
  <2>3. CASE ClosePool(creator[k], error)
    BY <1>1, <2>1, <2>3 DEF ClosePool
  <2> QED BY <2>1, <2>2, <2>3
<1>16. PageRequest => Calm
  BY <1>4, <1>5, <1>6 DEF PageRequest
<1>17. SocketEvent => Calm
  BY <1>10, <1>11, <1>12, <1>13, <1>14, <1>15 DEF SocketEvent
<1>18. Housekeeping => \/ Calm
                       \/ AtRest /\ (LeaseSweep \/ \E c \in Ports : CleanupPort(c))
                       \/ \E s \in StreamIds : Evict(s)
  BY <1>7, <1>8, <1>9 DEF Housekeeping
<1> QED BY <1>16, <1>17, <1>18 DEF Next, Calm

\* Finite sets and their sizes are the same within StreamOwnership.
LEMMA SameSizes ==
  \A S : /\ Ownership!IsFiniteSet(S) <=> IsFiniteSet(S)
         /\ Ownership!Cardinality(S) = Cardinality(S)
BY DEF Ownership!IsFiniteSet, Ownership!Cardinality, IsFiniteSet, Cardinality

LEMMA RoomIs ==
  ASSUME NEW c
  PROVE  Ownership!Room(c) <=>
           /\ Cardinality(Ownership!Owned) < MaxStreams
           /\ c \in Ownership!Owners \/ Cardinality(Ownership!Owners) < MaxPorts
BY SameSizes DEF Ownership!Room

LEMMA LimitsAre ==
  Ownership!WithinLimits <=>
    /\ IsFiniteSet(Ownership!Owned) /\ Cardinality(Ownership!Owned) <= MaxStreams
    /\ IsFiniteSet(Ownership!Owners) /\ Cardinality(Ownership!Owners) <= MaxPorts
BY SameSizes DEF Ownership!WithinLimits

\* The abstract table reads the registry as attach does.
LEMMA TableIsRegistry ==
  ASSUME SocketWorkerAssumption, TypeOK, RegistryAgrees
  PROVE  /\ Ownership!Owned = Bound
         /\ Ownership!Owners = {d \in Ports : streamsByPort[d] # {}}
         /\ \A s \in StreamIds : portOf[s] = None <=> boundTo[s] = None
<1>1. \A s \in StreamIds : portOf[s] = None <=> boundTo[s] = None
  BY DEF RegistryAgrees
<1>2. Ownership!Owned = Bound
  BY <1>1 DEF Ownership!Owned, Bound
<1>3. ASSUME NEW d \in Ports
      PROVE  (\E s \in StreamIds : portOf[s] = d) <=> streamsByPort[d] # {}
  <2>1. streamsByPort[d] \subseteq StreamIds
    BY DEF TypeOK
  <2> QED BY <2>1 DEF RegistryAgrees
<1>4. Ownership!Owners = {d \in Ports : streamsByPort[d] # {}}
  BY <1>3 DEF Ownership!Owners
<1> QED BY <1>1, <1>2, <1>4

LEMMA RowUpdate ==
  ASSUME TypeOK, TypeOK', NEW s \in StreamIds,
         \A t \in StreamIds \ {s} : portOf'[t] = portOf[t]
  PROVE  portOf' = [portOf EXCEPT ![s] = portOf'[s]]
BY DEF TypeOK

LEMMA TableKept ==
  ASSUME TypeOK, TypeOK', \A t \in StreamIds : portOf'[t] = portOf[t]
  PROVE  portOf' = portOf
BY DEF TypeOK

\* An answer to open_stream is true, and a new binding found room.
LEMMA OpenIsTrue ==
  ASSUME Inv, Ownership!WithinLimits, NEW c \in Ports, NEW s \in StreamIds, NEW i \in Identities,
         OpenStream(c, s, i)
  PROVE  /\ Kept(s) => out' = <<[to |-> {s}, event |-> "fail"]>> \/ portOf[s] = c
         /\ Kept(s) \/ Ownership!Room(c)
<1>0. /\ TypeOK /\ RegistryAgrees /\ None \notin Pools /\ None \notin Ports
      /\ Reply(s, FALSE) = <<[to |-> {s}, event |-> "fail"]>>
      /\ {MaxPorts, MaxStreams} \subseteq Nat
  BY SocketWorkerAssumption, RepliesAre DEF Inv, SocketWorkerAssumption
<1>1. CASE OpenRefused(c, s, i) \/ OpenWithoutPool(c, s, i) \/ OpenInFullPool(c, s, i)
  BY <1>0, <1>1 DEF OpenRefused, OnlyPost, state, registry, OpenWithoutPool, OpenInFullPool,
     Kept
<1>2. CASE OpenAgain(c, s, i)
  BY <1>0, <1>2 DEF OpenAgain, RenewLease, AttachRefused, Kept
<1>3. ASSUME NEW p \in Pools, Register(c, s, p), Admitted(c, s, i)
      PROVE  ~Kept(s) /\ Ownership!Room(c)
  <2>1. ~Kept(s)
    BY <1>0, <1>3 DEF Register, Admitted, Bound, TypeOK, Kept
  <2>2. /\ ~(Cardinality(Bound) >= MaxStreams)
        /\ ~(/\ streamsByPort[c] = {}
             /\ Cardinality({d \in Ports : streamsByPort[d] # {}}) >= MaxPorts)
    BY <1>3 DEF Admitted, AttachRefused
  <2>3. Ownership!Room(c)
    <3>1. Cardinality(Ownership!Owned) \in Nat /\ Cardinality(Ownership!Owners) \in Nat
      BY FS_CardinalityType, LimitsAre
    <3>2. /\ Ownership!Owned = Bound
          /\ Ownership!Owners = {d \in Ports : streamsByPort[d] # {}}
      BY <1>0, TableIsRegistry, SocketWorkerAssumption
    <3>3. c \in Ownership!Owners <=> streamsByPort[c] # {}
      BY <3>2
    <3> QED BY <1>0, <2>2, <3>1, <3>2, <3>3, RoomIs
  <2> QED BY <2>1, <2>3
<1>4. ASSUME NEW p \in Pools,
             \/ \E k \in Sockets : OpenInNewPool(c, s, i, p, k) \/ OpenAndConnect(c, s, i, p, k)
             \/ OpenWhileConnecting(c, s, i, p)
             \/ OpenOnOpenSocket(c, s, i, p)
      PROVE  Register(c, s, p) /\ Admitted(c, s, i)
  BY <1>4 DEF OpenInNewPool, OpenAndConnect, OpenWhileConnecting, OpenOnOpenSocket, JoinPool
<1> QED BY <1>1, <1>2, <1>3, <1>4 DEF OpenStream

\* What an answer says of the table.
LEMMA RequestIsAbstract ==
  ASSUME Inv, Inv', Ownership!WithinLimits, NEW c \in Ports, NEW s \in StreamIds,
         \/ \E i \in Identities : OpenStream(c, s, i)
         \/ NotOwned(c, s) \/ Heartbeat(c, s) \/ \E n \in DataBytes : Send(c, s, n)
         \/ CloseStream(c, s) \/ CloseThrows(c, s)
  PROVE  Ownership!Request
<1> DEFINE ok == [to |-> {s}, event |-> "ok"]
           fail == [to |-> {s}, event |-> "fail"]
           Goal == \/ Ownership!Refuse(s)
                   \/ Ownership!Open(c, s) \/ Ownership!Use(c, s) \/ Ownership!Close(c, s)
<1> SUFFICES Goal
  BY DEF Ownership!Request
<1>0. TypeOK /\ TypeOK' /\ RegistryAgrees /\ RegistryAgrees' /\ None \notin Ports
  BY SocketWorkerAssumption DEF Inv, SocketWorkerAssumption
<1>1. ASSUME \A t \in StreamIds : Kept(t), out' = <<fail>> PROVE Goal
  BY <1>0, <1>1, TableKept DEF Kept, Ownership!Refuse, Ownership!Answer, Ownership!Tell
<1>2. ASSUME \A t \in StreamIds : Kept(t), out' = <<ok>>, portOf[s] = c PROVE Goal
  BY <1>0, <1>2, TableKept DEF Kept, Ownership!Use, Ownership!Answer, Ownership!Tell
<1>3. ASSUME NEW i \in Identities, OpenStream(c, s, i) PROVE Goal
  <2>1. OpenEffect(c, s)
    BY <1>3, OpenEffects
  <2>2. CASE Kept(s)
    <3>1. \A t \in StreamIds : Kept(t)
      BY <2>1, <2>2 DEF OpenEffect
    <3>2. out' = <<ok>> \/ out' = <<fail>>
      BY <2>1, <2>2 DEF OpenEffect
    <3>3. out' = <<fail>> \/ portOf[s] = c
      BY <1>3, <2>2, OpenIsTrue
    <3> QED BY <1>1, <1>2, <3>1, <3>2, <3>3
  <2>3. CASE ~Kept(s)
    <3>1. boundTo[s] = None /\ portOf'[s] = c /\ \A t \in StreamIds \ {s} : Kept(t)
      BY <2>1, <2>3 DEF OpenEffect
    <3>2. portOf' = [portOf EXCEPT ![s] = c]
      BY <1>0, <3>1, RowUpdate DEF Kept
    <3>3. portOf[s] = None /\ Ownership!Room(c)
      BY <1>0, <1>3, <2>3, <3>1, OpenIsTrue DEF RegistryAgrees
    <3>4. \/ out' = <<ok>> \/ out' = <<fail>>
          \/ out' = <<[to |-> {s}, event |-> "open"], ok>>
      BY <2>1 DEF OpenEffect
    <3> QED BY <3>2, <3>3, <3>4 DEF Ownership!Open, Ownership!Answer, Ownership!Tell
  <2> QED BY <2>2, <2>3
<1>4. CASE NotOwned(c, s) \/ CloseThrows(c, s)
  <2>1. (\A t \in StreamIds : Kept(t)) /\ out' = <<fail>>
    BY <1>4, RequestEffects
  <2> QED BY <1>1, <2>1
<1>5. CASE Heartbeat(c, s)
  <2>1. portOf[s] = c
    BY <1>5 DEF Heartbeat, Owns
  <2>2. (\A t \in StreamIds : Kept(t)) /\ out' = <<ok>>
    BY <1>5, RequestEffects
  <2> QED BY <1>2, <2>1, <2>2
<1>6. ASSUME NEW n \in DataBytes, Send(c, s, n) PROVE Goal
  <2>1. portOf[s] = c
    BY <1>6 DEF Send, Owns
  <2>2. (\A t \in StreamIds : Kept(t)) /\ (out' = <<ok>> \/ out' = <<fail>>)
    BY <1>6, RequestEffects
  <2> QED BY <1>1, <1>2, <2>1, <2>2
<1>7. CASE CloseStream(c, s)
  <2>1. CloseEffect(c, s)
    BY <1>7, RequestEffects
  <2>2. portOf'[s] = None
    BY <1>0, <2>1 DEF CloseEffect, RegistryAgrees
  <2>3. portOf' = [portOf EXCEPT ![s] = None]
    BY <1>0, <2>1, <2>2, RowUpdate DEF CloseEffect, Kept
  <2>4. Ownership!Close(c, s)
    BY <2>1, <2>3 DEF CloseEffect, Ownership!Close, Ownership!Tell
  <2> QED BY <2>4
<1> HIDE DEF Goal
<1> QED BY <1>3, <1>4, <1>5, <1>6, <1>7

\* A step that nobody asked for, outside the detach loop.
LEMMA OwnIsAbstract ==
  ASSUME Inv, Inv', Housekeeping \/ SocketEvent, evicting = {}
  PROVE  \E S \in SUBSET StreamIds : Ownership!Lose(S)
<1> DEFINE S == {t \in Bound : boundTo'[t] = None}
<1>0. /\ TypeOK /\ TypeOK' /\ RegistryAgrees /\ RegistryAgrees'
      /\ S \subseteq Bound /\ Bound \subseteq StreamIds
  BY DEF Inv, Bound
<1>1. OwnEffect
  BY OwnEffects
<1>2. ASSUME NEW t \in Bound
      PROVE  HearsClose(t)' <=> boundTo'[t] = None
  <2>1. Next
    BY DEF Next
  <2>2. t \in StreamIds /\ (t \in Bound' <=> boundTo'[t] # None)
    BY DEF Bound
  <2> QED BY <2>1, <2>2, CloseToldStep, SocketWorkerAssumption
<1>3. ASSUME NEW t \in StreamIds PROVE t \in S <=> HearsClose(t)'
  <2>1. CASE t \in Bound
    BY <1>2, <2>1
  <2>2. CASE t \notin Bound
    <3>1. ~HearsClose(t)'
      BY <1>1, <2>2 DEF OwnEffect, EventsOf, HearsClose
    <3> QED BY <2>2, <3>1
  <2> QED BY <2>1, <2>2
<1>4. ASSUME NEW t \in StreamIds
      PROVE  portOf'[t] = IF t \in S THEN None ELSE portOf[t]
  <2>1. CASE t \in S
    BY <1>0, <2>1 DEF RegistryAgrees
  <2>2. CASE t \in Bound \ S
    BY <1>1, <2>2 DEF OwnEffect, Kept
  <2>3. CASE t \notin Bound
    <3>1. portOf[t] = None
      BY <1>0, <2>3 DEF RegistryAgrees, Bound
    <3>2. portOf'[t] = None
      BY <1>0, <1>1, <3>1 DEF OwnEffect, Kept, RegistryAgrees
    <3> QED BY <1>0, <2>3, <3>1, <3>2
  <2> QED BY <2>1, <2>2, <2>3
<1>5. portOf' = [t \in StreamIds |-> IF t \in S THEN None ELSE portOf[t]]
  BY <1>0, <1>4 DEF TypeOK
<1>6. Ownership!Owned = Bound
  BY <1>0, TableIsRegistry, SocketWorkerAssumption
<1>7. \A i \in DOMAIN out' : /\ out'[i].to \subseteq Bound
                             /\ out'[i].event \notin {"ok", "fail"}
  BY <1>1 DEF OwnEffect, EventsOf
<1> HIDE DEF S
<1>8. Ownership!Lose(S)
  BY <1>0, <1>3, <1>5, <1>6, <1>7 DEF Ownership!Lose, HearsClose
<1>9. S \in SUBSET StreamIds
  BY <1>0
<1> QED BY <1>8, <1>9

\* One turn of the detach loop.
LEMMA EvictIsForget ==
  ASSUME Inv, Inv', NEW s \in StreamIds, Evict(s)
  PROVE  Ownership!Forget(s)
<1>1. /\ s \in evicting /\ out' = <<>>
      /\ evicting' = evicting \ {s}
      /\ portOf' = [t \in StreamIds |-> IF t \in {s} THEN None ELSE portOf[t]]
  BY DEF Evict, Detach, Unbind
<1>2. TypeOK
  BY DEF Inv
<1>3. portOf' = [portOf EXCEPT ![s] = None]
  BY <1>1, <1>2 DEF TypeOK
<1> QED BY <1>1, <1>3 DEF Ownership!Forget

\* The detach loop begins.
LEMMA LoopIsLeave ==
  ASSUME Inv, LeaseSweep \/ \E c \in Ports : CleanupPort(c)
  PROVE  \E S \in SUBSET StreamIds : Ownership!Leave(S)
<1>0. TypeOK /\ RegistryAgrees /\ None \notin Ports
  BY SocketWorkerAssumption DEF Inv, SocketWorkerAssumption
<1>1. Ownership!Owned = Bound
  BY <1>0, TableIsRegistry, SocketWorkerAssumption
<1>2. ASSUME NEW c \in Ports PROVE streamsByPort[c] \subseteq Bound
  <2>1. streamsByPort[c] \subseteq StreamIds
    BY <1>0 DEF TypeOK
  <2> QED BY <1>0, <2>1 DEF RegistryAgrees, Bound
<1>3. PICK S : BeginEviction(S) /\ S \subseteq Bound
  <2>1. CASE LeaseSweep
    BY <1>0, <2>1 DEF LeaseSweep, RegistryAgrees
  <2>2. CASE \E c \in Ports : CleanupPort(c)
    BY <1>2, <2>2 DEF CleanupPort
  <2> QED BY <2>1, <2>2
<1>4. Ownership!Leave(S)
  BY <1>1, <1>3 DEF BeginEviction, Ownership!Leave
<1>5. S \in SUBSET StreamIds
  BY <1>3 DEF Bound
<1> QED BY <1>4, <1>5

LEMMA StepIsAbstract ==
  ASSUME Inv, Inv', Ownership!WithinLimits, Next
  PROVE  Ownership!Next
<1>1. CASE \E s \in StreamIds : Evict(s)
  BY <1>1, EvictIsForget DEF Ownership!Next
<1>2. CASE AtRest /\ (LeaseSweep \/ \E c \in Ports : CleanupPort(c))
  BY <1>2, LoopIsLeave DEF Ownership!Next, AtRest
<1>3. CASE AtRest /\ evicting' = {}
  <2>1. CASE PageRequest
    <3>1. Ownership!Request
      BY <2>1, RequestIsAbstract DEF PageRequest
    <3> QED BY <1>3, <3>1 DEF Ownership!Next, AtRest
  <2>2. CASE Housekeeping \/ SocketEvent
    <3>1. \E S \in SUBSET StreamIds : Ownership!Lose(S)
      BY <1>3, <2>2, OwnIsAbstract DEF AtRest
    <3> QED BY <1>3, <3>1 DEF Ownership!Next, AtRest
  <2> QED BY <2>1, <2>2 DEF Next
<1> QED BY <1>1, <1>2, <1>3, LoopIsAtomic

\* The limits follow from the table alone: only Open adds a stream or an owner.
LEMMA LimitsStep ==
  ASSUME TypeOK, Ownership!WithinLimits, Ownership!Next
  PROVE  Ownership!WithinLimits'
<1> DEFINE owned == Ownership!Owned
           owners == Ownership!Owners
<1>0. /\ IsFiniteSet(owned) /\ Cardinality(owned) \in Nat /\ Cardinality(owned) <= MaxStreams
      /\ IsFiniteSet(owners) /\ Cardinality(owners) \in Nat /\ Cardinality(owners) <= MaxPorts
      /\ MaxStreams \in Nat /\ MaxPorts \in Nat /\ None \notin Ports
      /\ portOf \in [StreamIds -> Ports \cup {None}]
  BY FS_CardinalityType, LimitsAre, SocketWorkerAssumption DEF TypeOK, SocketWorkerAssumption
<1>1. ASSUME NEW X, NEW Y, IsFiniteSet(X), IsFiniteSet(Y),
             Cardinality(X) <= MaxStreams, Cardinality(Y) <= MaxPorts,
             owned' \subseteq X, owners' \subseteq Y
      PROVE  Ownership!WithinLimits'
  <2>1. /\ IsFiniteSet(owned') /\ Cardinality(owned') <= Cardinality(X)
        /\ IsFiniteSet(owners') /\ Cardinality(owners') <= Cardinality(Y)
    BY <1>1, FS_Subset
  <2>2. /\ Cardinality(owned') \in Nat /\ Cardinality(X) \in Nat
        /\ Cardinality(owners') \in Nat /\ Cardinality(Y) \in Nat
    BY <1>1, <2>1, FS_CardinalityType
  <2>3. Cardinality(owned') <= MaxStreams /\ Cardinality(owners') <= MaxPorts
    BY <1>0, <1>1, <2>1, <2>2
  <2> QED BY <2>1, <2>3, SameSizes DEF Ownership!WithinLimits
<1>2. ASSUME \A t \in StreamIds : portOf'[t] \in {portOf[t], None}
      PROVE  Ownership!WithinLimits'
  <2>1. owned' \subseteq owned /\ owners' \subseteq owners
    BY <1>0, <1>2 DEF Ownership!Owned, Ownership!Owners
  <2> QED BY <1>0, <1>1, <2>1
<1>3. ASSUME NEW c \in Ports, NEW s \in StreamIds, Ownership!Open(c, s)
      PROVE  Ownership!WithinLimits'
  <2>1. /\ Ownership!Room(c) /\ portOf' = [portOf EXCEPT ![s] = c]
    BY <1>3 DEF Ownership!Open
  <2>2. owned' \subseteq owned \cup {s} /\ owners' \subseteq owners \cup {c}
    BY <1>0, <2>1 DEF Ownership!Owned, Ownership!Owners
  <2>3. /\ IsFiniteSet(owned \cup {s})
        /\ Cardinality(owned \cup {s}) \in {Cardinality(owned), Cardinality(owned) + 1}
        /\ IsFiniteSet(owners \cup {c})
        /\ Cardinality(owners \cup {c}) = IF c \in owners THEN Cardinality(owners)
                                          ELSE Cardinality(owners) + 1
    BY <1>0, FS_AddElement
  <2>4. Cardinality(owned) < MaxStreams /\ (c \in owners \/ Cardinality(owners) < MaxPorts)
    BY <2>1, RoomIs
  <2>5. Cardinality(owned \cup {s}) <= MaxStreams /\ Cardinality(owners \cup {c}) <= MaxPorts
    BY <1>0, <2>3, <2>4
  <2> QED BY <1>1, <2>2, <2>3, <2>5
<1>4. ASSUME NEW s \in StreamIds,
             \/ Ownership!Refuse(s) \/ Ownership!Forget(s)
             \/ \E c \in Ports : Ownership!Use(c, s) \/ Ownership!Close(c, s)
      PROVE  \A t \in StreamIds : portOf'[t] \in {portOf[t], None}
  BY <1>0, <1>4 DEF Ownership!Refuse, Ownership!Forget, Ownership!Use, Ownership!Close
<1>5. ASSUME NEW S \in SUBSET StreamIds, Ownership!Lose(S) \/ Ownership!Leave(S)
      PROVE  \A t \in StreamIds : portOf'[t] \in {portOf[t], None}
  BY <1>0, <1>5 DEF Ownership!Lose, Ownership!Leave
<1> QED BY <1>2, <1>3, <1>4, <1>5 DEF Ownership!Next, Ownership!Request

\* A step of the worker, with what is known of the states around it.
LEMMA OwnershipStep ==
  Inv /\ Inv' /\ Ownership!WithinLimits /\ [Next]_vars =>
    [Ownership!Next]_(Ownership!table) /\ Ownership!WithinLimits'
<1>1. ASSUME Inv, Inv', Ownership!WithinLimits, Next
      PROVE  Ownership!Next /\ Ownership!WithinLimits'
  BY <1>1, StepIsAbstract, LimitsStep DEF Inv
<1>2. ASSUME Ownership!WithinLimits, UNCHANGED vars
      PROVE  UNCHANGED Ownership!table /\ Ownership!WithinLimits'
  BY <1>2 DEF Ownership!table, Ownership!WithinLimits, Ownership!Owned, Ownership!Owners,
     vars, state, registry
<1> QED BY <1>1, <1>2

LEMMA OwnershipInit ==
  Init => Ownership!Init /\ Ownership!WithinLimits
<1> SUFFICES ASSUME Init PROVE Ownership!Init /\ Ownership!WithinLimits
  OBVIOUS
<1>1. Ownership!Init
  BY DEF Init, Ownership!Init
<1>2. Ownership!Owned = {} /\ Ownership!Owners = {}
  BY SocketWorkerAssumption
     DEF Init, Ownership!Owned, Ownership!Owners, SocketWorkerAssumption
<1>3. Ownership!WithinLimits
  BY <1>2, FS_EmptySet, LimitsAre, SocketWorkerAssumption DEF SocketWorkerAssumption
<1> QED BY <1>1, <1>3

\* At most MAX_STREAMS streams are bound, and at most MAX_PORTS ports have one: attach
\* asks before it binds, and no other handler binds a stream.
THEOREM LimitsHold == Spec => []Ownership!WithinLimits
<1> QED
  BY OwnershipInit, OwnershipStep, Invariance, PTL DEF Spec

\* The worker implements StreamOwnership: every step is one of the table's, or changes
\* neither the table nor what the pages hear.
THEOREM OwnershipKept == Spec => KeepsOwnership
<1> QED
  BY OwnershipInit, OwnershipStep, Invariance, LimitsHold, PTL
     DEF Spec, KeepsOwnership, Ownership!Spec
-----------------------------------------------------------------------------
(* Liveness.  The provers know nothing of ENABLED, so fairness is stated by what the  *)
(* event loop waits for: what is due either stops being due again and again, or       *)
(* happens again and again.                                                           *)

\* An idle timer that is armed fires.
IdleTimerFires(p) == []<>(p \notin idleTimer) \/ []<><<IdleTimeout(p)>>_vars

\* So does a reconnect timer, when there is an object for a new socket.
AllInUse == \A k \in Sockets : readyState[k] # "FREE"
ReconnectTimerFires(p) ==
  []<>(p \notin reconnectTimer \/ AllInUse) \/ []<><<ReconnectTimeout(p)>>_vars

\* A socket that is closing gets its close event.
CloseArrives(k) == []<>(readyState[k] # "CLOSING") \/ []<><<CloseCompletes(k)>>_vars

\* Strong fairness means this much once detach loops end: a timer is enabled whenever it is
\* armed and no loop runs.  What is left of the fairness of the runs is enabledness alone.
LEMMA FairTimersFire ==
  ASSUME NEW p \in Pools
  PROVE  /\ SF_vars(IdleTimeout(p)) /\ []<>AtRest
            /\ [](AtRest /\ ~(p \notin idleTimer) => ENABLED <<IdleTimeout(p)>>_vars)
            => IdleTimerFires(p)
         /\ SF_vars(ReconnectTimeout(p)) /\ []<>AtRest
            /\ [](AtRest /\ ~(p \notin reconnectTimer \/ AllInUse)
                    => ENABLED <<ReconnectTimeout(p)>>_vars)
            => ReconnectTimerFires(p)
BY PTL DEF IdleTimerFires, ReconnectTimerFires

\* The same of a socket that is closing.
LEMMA FairClosesArrive ==
  ASSUME NEW k \in Sockets
  PROVE  SF_vars(CloseCompletes(k)) /\ []<>AtRest
         /\ [](AtRest /\ ~(readyState[k] # "CLOSING") => ENABLED <<CloseCompletes(k)>>_vars)
         => CloseArrives(k)
BY PTL DEF CloseArrives

\* A pool object, once it was used, has an identity for ever.
LEMMA IdentityKept ==
  ASSUME SocketWorkerAssumption, Inv, [Next]_vars, NEW p \in Pools, identity[p] # None
  PROVE  identity'[p] # None
<1>0. identity \in [Pools -> Identities \cup {None}]
  BY DEF Inv, TypeOK
<1>1. CASE UNCHANGED identity
  BY <1>1
<1>2. ASSUME NEW c \in Ports, NEW s \in StreamIds, NEW i \in Identities, OpenStream(c, s, i)
      PROVE  identity'[p] # None
  <2>1. \/ UNCHANGED identity
        \/ \E q \in Pools : identity' = [identity EXCEPT ![q] = i]
    BY <1>2
    DEF OpenStream, OpenRefused, OnlyPost, state, catalog, OpenAgain, OpenWithoutPool,
        OpenInFullPool, OpenWhileConnecting, OpenOnOpenSocket, OpenAndConnect, JoinPool,
        OpenInNewPool
  <2> QED
    BY <1>0, <2>1 DEF SocketWorkerAssumption
<1>3. PageRequest => identity'[p] # None
  BY <1>1, <1>2
  DEF PageRequest, NotOwned, OnlyPost, state, Heartbeat, Send, CloseStream, CloseThrows,
      Detach, catalog
<1>4. Housekeeping => UNCHANGED identity
  BY DEF Housekeeping, LeaseExpires, Evict, Detach, LeaseSweep, CleanupPort, BeginEviction,
         IdleTimeout, ReconnectTimeout, FlushTimeout, Retire, catalog
<1>5. \A q, messages : ProtocolViolation(q) \/ ClosePool(q, messages) => UNCHANGED identity
  BY DEF ProtocolViolation, ClosePool, Retire
<1>6. ASSUME NEW k \in Sockets, NEW code, NEW errored, SocketCloses(k, code, errored)
      PROVE  UNCHANGED identity
  BY <1>5, <1>6 DEF SocketCloses, catalog
<1>7. SocketEvent => UNCHANGED identity
  BY <1>5, <1>6
  DEF SocketEvent, OrphanOpens, NegotiationFails, SocketOpens, ServerMessage, OnlyPost, state,
      ServerClosesStream, Detach, ServerBreaksProtocol, ServerStartsClose, Drain, catalog
<1> QED
  BY <1>1, <1>3, <1>4, <1>7 DEF Next, vars, state, catalog

\* An empty pool gets a stream again or is closed, whatever else goes on, when armed
\* idle timers fire: EmptyPoolRetires says that the timer is armed.
THEOREM IdlePoolsClose == Spec /\ (\A p \in Pools : IdleTimerFires(p)) => IdlePoolCloses
<1> SUFFICES ASSUME NEW p \in Pools
             PROVE  Spec /\ IdleTimerFires(p)
                      => (identity[p] # None /\ members[p] = {}
                            ~> members[p] # {} \/ p \in closing)
  BY DEF IdlePoolCloses
<1> DEFINE Empty == identity[p] # None /\ members[p] = {}
           Ended == members[p] # {} \/ p \in closing
<1>1. Inv /\ Empty /\ [Next]_vars => Empty' \/ Ended'
  BY IdentityKept, SocketWorkerAssumption
<1>2. Inv /\ Empty /\ ~Ended => ~(p \notin idleTimer)
  BY DEF Inv, EmptyPoolRetires
<1>3. Empty /\ <<IdleTimeout(p)>>_vars => Ended'
  BY DEF IdleTimeout, Retire
<1> HIDE DEF Empty, Ended
<1>4. Spec /\ IdleTimerFires(p) => (Empty ~> Ended)
  BY <1>1, <1>2, <1>3, Invariance, PTL DEF Spec, IdleTimerFires
<1> QED
  BY <1>4 DEF Empty, Ended

\* A pool that lost its socket while it has streams gets another one, or there is no
\* object for it, when armed reconnect timers fire: NoPoolStranded says that the timer
\* is armed, and that it will connect.
THEOREM LostSocketsReplaced ==
  Spec /\ (\A p \in Pools : ReconnectTimerFires(p)) => LostSocketReplaced
<1> SUFFICES ASSUME NEW p \in Pools
             PROVE  Spec /\ ReconnectTimerFires(p)
                      => (members[p] # {} /\ socket[p] = None
                            ~> \/ members[p] = {} \/ socket[p] # None
                               \/ \A k \in Sockets : readyState[k] # "FREE")
  BY DEF LostSocketReplaced
<1> DEFINE Lost == members[p] # {} /\ socket[p] = None
           Ended == \/ members[p] = {} \/ socket[p] # None
                    \/ \A k \in Sockets : readyState[k] # "FREE"
<1>1. Lost' \/ Ended'
  OBVIOUS
<1>2. Inv /\ Lost /\ ~Ended => ~(p \notin reconnectTimer \/ AllInUse)
  BY DEF Inv, NoPoolStranded, AllInUse
<1>3. Inv /\ Lost /\ <<ReconnectTimeout(p)>>_vars => Ended'
  BY SocketWorkerAssumption
  DEF Inv, NoPoolStranded, ReconnectTimeout, ReconnectWanted, Connect, TypeOK
<1> HIDE DEF Lost, Ended
<1>4. Spec /\ ReconnectTimerFires(p) => (Lost ~> Ended)
  BY <1>1, <1>2, <1>3, Invariance, PTL DEF Spec, ReconnectTimerFires
<1> QED
  BY <1>4 DEF Lost, Ended

\* A closing pool that has socket k keeps it until its streams are released, and the close
\* event of k releases them.
LEMMA ClosingWaits ==
  ASSUME SocketWorkerAssumption, Inv, Inv', [Next]_vars, NEW p \in Pools, NEW k \in Sockets,
         p \in closing, members[p] # {}, socket[p] = k
  PROVE  /\ (p \in closing' /\ socket'[p] = k) \/ members'[p] = {}
         /\ CloseCompletes(k) => members'[p] = {}
<1>1. (p \in closing' /\ socket'[p] = k) \/ members'[p] = {}
  <2>1. CASE UNCHANGED vars
    BY <2>1 DEF vars, state, catalog
  <2>2. CASE Next
    <3>1. p \in closing' /\ socket'[p] \in {k, None}
      BY <2>2, ClosingStep DEF Unreachable
    <3>2. p \in closing' /\ members'[p] # {} => socket'[p] # None
      BY DEF Inv, ClosingPoolAwaitsClose
    <3> QED
      BY <3>1, <3>2
  <2> QED
    BY <2>1, <2>2
<1>2. ASSUME CloseCompletes(k) PROVE members'[p] = {}
  <2>1. creator[k] = p /\ members \in [Pools -> SUBSET StreamIds]
    BY DEF Inv, ClosingPoolAwaitsClose, SocketWorkerAssumption, TypeOK
  <2> QED
    BY <1>2, <2>1 DEF CloseCompletes, SocketCloses, ClosePool
<1> QED
  BY <1>1, <1>2

\* Once a pool is being closed its streams are all released, when sockets that are
\* closing get their close event: ClosingPoolAwaitsClose says that the pool waits for one,
\* and ClosingIsFinal that it stays the same one.
THEOREM ClosingPoolsEmpty ==
  Spec /\ (\A k \in Sockets : CloseArrives(k)) => ClosingPoolEmpties
<1> SUFFICES ASSUME NEW p \in Pools
             PROVE  Spec /\ (\A k \in Sockets : CloseArrives(k))
                      => (p \in closing ~> members[p] = {})
  BY DEF ClosingPoolEmpties
<1> DEFINE Closing == p \in closing
           Released == members[p] = {}
           WaitsFor(k) == p \in closing /\ members[p] # {} /\ socket[p] = k
<1>1. ASSUME NEW k \in Sockets
      PROVE  Spec /\ CloseArrives(k) => [](WaitsFor(k) => <>Released)
  <2>1. Inv /\ Inv' /\ WaitsFor(k) /\ [Next]_vars => WaitsFor(k)' \/ Released'
    BY ClosingWaits, SocketWorkerAssumption
  <2>2. Inv /\ Inv' /\ WaitsFor(k) /\ [Next]_vars /\ <<CloseCompletes(k)>>_vars => Released'
    BY ClosingWaits, SocketWorkerAssumption
  <2>3. Inv /\ WaitsFor(k) => ~(readyState[k] # "CLOSING")
    BY DEF Inv, ClosingPoolAwaitsClose
  <2> HIDE DEF WaitsFor, Released
  <2> QED
    BY <2>1, <2>2, <2>3, Invariance, PTL DEF Spec, CloseArrives
<1>2. Inv /\ Closing => Released \/ \E k \in Sockets : WaitsFor(k)
  BY DEF Inv, TypeOK, ClosingPoolAwaitsClose
<1> HIDE DEF Closing, WaitsFor, Released
<1>3. Spec /\ (\A k \in Sockets : CloseArrives(k))
        => \A k \in Sockets : [](WaitsFor(k) => <>Released)
  BY <1>1
<1>4. (\A k \in Sockets : [](WaitsFor(k) => <>Released))
        => [](\A k \in Sockets : WaitsFor(k) => <>Released)
  OBVIOUS
<1>5. (\A k \in Sockets : WaitsFor(k) => <>Released)
        => ((\E k \in Sockets : WaitsFor(k)) => <>Released)
  OBVIOUS
<1>6. Spec /\ (\A k \in Sockets : CloseArrives(k)) => (Closing ~> Released)
  BY <1>2, <1>3, <1>4, <1>5, Invariance, PTL
<1> QED
  BY <1>6 DEF Closing, Released

=============================================================================
