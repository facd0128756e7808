---------------------------- MODULE SocketWorker ----------------------------
(***************************************************************************)
(* The SharedWorker that multiplexes the logical streams of many pages     *)
(* over few physical WebSockets (workers/socket.shared-worker.ts).         *)
(*                                                                         *)
(* The worker is single-threaded: a handler, a timer callback or a socket  *)
(* callback runs to completion, so each is one action.  The one exception  *)
(* is the loop that detaches many streams (evicting), one turn of which is *)
(* a step; nothing else happens while it runs (AtRest).                    *)
(*                                                                         *)
(* Pages, the browser's sockets and the server are the environment and may *)
(* do whatever the interface allows.  Pool and socket objects come from    *)
(* finite sets and are taken again once the worker cannot reach them, so   *)
(* runs are unbounded although only that many live at the same time.       *)
(***************************************************************************)
EXTENDS Integers, FiniteSets, Sequences

CONSTANTS
  Ports,              \* MessagePorts, one for each connected page
  StreamIds,          \* logical stream identifiers
  Identities,         \* pool identities (endpoint, pool_key, mode, protocols)
  MuxIdentities,      \* those whose mode is ores_mux_v1; the others are send_only
  Pools, Sockets,     \* SocketPool and WebSocket objects
  None,               \* undefined
  MaxPorts, MaxPools, MaxStreams, MaxStreamsPerPool,
  MaxPendingFrames, MaxPendingBytes, MaxFrameBytes,
  ControlBytes,       \* size of an encoded stream_open or stream_close frame
  DataBytes,          \* sizes of the data frames that pages send
  CloseCodes          \* codes a close event may carry

ASSUME SocketWorkerAssumption ==
  /\ MuxIdentities \subseteq Identities
  /\ None \notin Ports \cup StreamIds \cup Identities \cup Pools \cup Sockets
  /\ {MaxPorts, MaxPools, MaxStreams, MaxStreamsPerPool} \subseteq Nat \ {0}
  /\ {MaxPendingFrames, MaxPendingBytes, MaxFrameBytes} \subseteq Nat
  /\ ControlBytes \in 1..MaxFrameBytes
  /\ DataBytes \subseteq Nat \ {0}

VARIABLES
  \* The stream map, the index by port and the leases.
  boundTo, portOf,    \* pool and port of a stream's binding, or None
  streamsByPort,      \* port -> streams; the empty set stands for no entry
  stale,              \* streams whose last_seen_ms is older than the lease
  evicting,           \* streams that the running detach loop has still to visit
  \* The pool map and each pool's fields.
  pools,              \* identity -> registered pool
  identity, closing, members, socket, idleTimer, reconnectTimer,
  queue, queuedBytes, flushTimer,
  \* Each socket's state in the browser and what the server made of its frames.
  readyState,         \* "FREE" before construction and after the close event
  creator,            \* the pool the socket's callbacks close over
  congested,          \* sockets whose bufferedAmount exceeds the high water mark
  announced,          \* the streams the server owns on the socket
  misled,             \* sockets on which data came of a stream the server did not own
  \* What the last step posted to the pages, in order.
  out

registry == <<boundTo, portOf, streamsByPort, stale, evicting>>
catalog == <<pools, identity, closing>>
timers == <<idleTimer, reconnectTimer>>
backlog == <<queue, queuedBytes, flushTimer>>
physical == <<readyState, creator>>
wire == <<congested, announced, misled>>
state == <<registry, catalog, members, socket, timers, backlog, physical, wire>>
vars == <<state, out>>

Bound == {s \in StreamIds : boundTo[s] # None}
AtRest == evicting = {}

Init ==
  /\ boundTo = [s \in StreamIds |-> None] /\ portOf = [s \in StreamIds |-> None]
  /\ streamsByPort = [c \in Ports |-> {}]
  /\ stale = {} /\ evicting = {}
  /\ pools = [i \in Identities |-> None]
  /\ identity = [p \in Pools |-> None] /\ closing = {}
  /\ members = [p \in Pools |-> {}] /\ socket = [p \in Pools |-> None]
  /\ idleTimer = {} /\ reconnectTimer = {} /\ flushTimer = {}
  /\ queue = [p \in Pools |-> <<>>] /\ queuedBytes = [p \in Pools |-> 0]
  /\ readyState = [k \in Sockets |-> "FREE"] /\ creator = [k \in Sockets |-> None]
  /\ congested = {} /\ announced = [k \in Sockets |-> {}] /\ misled = {}
  /\ out = <<>>

-----------------------------------------------------------------------------
(* Messages to the pages. *)

Post(to, event) == IF to = {} THEN <<>> ELSE <<[to |-> to, event |-> event]>>
PostPool(p, event) == Post(members[p], event)
Reply(s, ok) == Post({s}, IF ok THEN "ok" ELSE "fail")

\* A handler that changes nothing but what the pages hear.
OnlyPost(messages) == AtRest /\ out' = messages /\ UNCHANGED state

-----------------------------------------------------------------------------
(* Frames, the backlog and the wire. *)

ControlFrame(s, kind) == [stream |-> s, kind |-> kind, bytes |-> ControlBytes]
DataFrame(s, n) == [stream |-> s, kind |-> "data", bytes |-> n]
SumBytes(q) ==
  LET sum[i \in 0..Len(q)] == IF i = 0 THEN 0 ELSE sum[i - 1] + q[i].bytes
  IN  sum[Len(q)]

IsMux(p) == identity[p] \in MuxIdentities
IsOpen(p) == socket[p] # None /\ readyState[socket[p]] = "OPEN"
Writable(p) == IsOpen(p) /\ socket[p] \notin congested

RetainAfterDetach(f) == f.kind = "close"
Deliverable(p, f) == RetainAfterDetach(f) \/ f.stream \in members[p]

\* The streams the server owns once it has read the frames fs: stream_open adds a
\* stream, stream_close removes it.
OwnedAfter(owned, fs) ==
  LET At(s, kind) == {i \in DOMAIN fs : fs[i].stream = s /\ fs[i].kind = kind}
  IN  {s \in StreamIds :
        \/ s \in owned /\ At(s, "close") = {}
        \/ \E i \in At(s, "open") : \A j \in At(s, "close") : j < i}

\* Some data frame of fs is of a stream the server does not own when it reads it.
Misleads(owned, fs) ==
  \E i \in DOMAIN fs : /\ fs[i].kind = "data"
                       /\ fs[i].stream \notin OwnedAfter(owned, SubSeq(fs, 1, i - 1))

ServerReads(k, owned, fs) ==
  /\ announced' = [announced EXCEPT ![k] = OwnedAfter(owned, fs)]
  /\ misled' = IF IsMux(creator[k]) /\ Misleads(owned, fs)
               THEN misled \cup {k} ELSE misled

HasRoom(q, bytes, f) ==
  Len(q) < MaxPendingFrames /\ bytes + f.bytes <= MaxPendingBytes

\* scheduleFlush: flushTimer once the queue of pool p has come to q; armed is
\* flushTimer before.  NeverScheduleFlush is a mutant, as are the other definitions
\* marked so: each stands before the definition it breaks.
NeverScheduleFlush(p, q, armed) == armed
ScheduleFlush(p, q, armed) == IF q = <<>> THEN armed ELSE armed \cup {p}

\* sendFrame on pool p, whose queue the handler has brought to q (bytes in all).
\* The frame goes out at once when the socket takes it, whatever is queued.
SendFrame(p, q, bytes, f) ==
  \/ /\ Writable(p)
     /\ ServerReads(socket[p], announced[socket[p]], <<f>>)
     /\ congested' \in {congested, congested \cup {socket[p]}}
     /\ queue' = [queue EXCEPT ![p] = q]
     /\ queuedBytes' = [queuedBytes EXCEPT ![p] = bytes]
     /\ UNCHANGED flushTimer
  \/ /\ ~Writable(p) /\ HasRoom(q, bytes, f)
     /\ queue' = [queue EXCEPT ![p] = Append(q, f)]
     /\ queuedBytes' = [queuedBytes EXCEPT ![p] = bytes + f.bytes]
     /\ flushTimer' = IF IsOpen(p) THEN ScheduleFlush(p, Append(q, f), flushTimer)
                                   ELSE flushTimer
     /\ UNCHANGED wire

SendFrameThrows(p, q, bytes, f) == ~Writable(p) /\ ~HasRoom(q, bytes, f)

\* flushQueue on a pool whose socket is open.  Unless the socket is congested, the
\* first n frames leave the queue: those of detached streams are skipped, the others
\* sent, until one congests the socket (full).  owned: the streams the server owns at
\* the start; armed: flushTimer then.
FlushQueue(p, owned, armed) ==
  LET q == queue[p]
      k == socket[p]
  IN \E n \in 0..Len(q), full \in BOOLEAN :
       LET rest == SubSeq(q, n + 1, Len(q))
       IN /\ IF k \in congested THEN full /\ n = 0
             ELSE IF full THEN n > 0 /\ Deliverable(p, q[n])
             ELSE n = Len(q)
          /\ ServerReads(k, owned,
                         SelectSeq(SubSeq(q, 1, n), LAMBDA f : Deliverable(p, f)))
          /\ congested' = IF full THEN congested \cup {k} ELSE congested
          /\ queue' = [queue EXCEPT ![p] = rest]
          /\ queuedBytes' = [queuedBytes EXCEPT ![p] = @ - SumBytes(SubSeq(q, 1, n))]
          /\ flushTimer' = ScheduleFlush(p, rest, armed)

-----------------------------------------------------------------------------
(* Bindings and pools. *)

Register(c, s, p) ==
  /\ boundTo' = [boundTo EXCEPT ![s] = p]
  /\ portOf' = [portOf EXCEPT ![s] = c]
  /\ streamsByPort' = [streamsByPort EXCEPT ![c] = @ \cup {s}]
  /\ members' = [members EXCEPT ![p] = @ \cup {s}]
  /\ UNCHANGED <<stale, evicting>>

\* releasePortStream.
KeepPortStreams(c, S) == streamsByPort[c]  \* mutant
BlankPortStreams(c, S) ==  \* mutant
  LET gone == {s \in S : portOf[s] = c}
  IN  (streamsByPort[c] \ gone) \cup {None : s \in gone}
ReleasePortStreams(c, S) == streamsByPort[c] \ {s \in S : portOf[s] = c}

Unbind(S) ==
  /\ boundTo' = [s \in StreamIds |-> IF s \in S THEN None ELSE boundTo[s]]
  /\ portOf' = [s \in StreamIds |-> IF s \in S THEN None ELSE portOf[s]]
  /\ streamsByPort' = [c \in Ports |-> ReleasePortStreams(c, S)]
  /\ stale' = stale \ S
  /\ evicting' = evicting \ S

\* removeQueuedStreamData: what stays of the queue, and the size of what does not.
Discarded(f, s) == f.stream = s /\ ~RetainAfterDetach(f)
KeepQueued(q, s) == q  \* mutant
WithoutStream(q, s) ==
  LET kept[i \in 0..Len(q)] == IF i = 0 THEN <<>>
                               ELSE IF Discarded(q[i], s) THEN kept[i - 1]
                               ELSE Append(kept[i - 1], q[i])
  IN  kept[Len(q)]
NoDiscardedBytes(q, s) == 0  \* mutant
DiscardedBytes(q, s) ==
  LET removed[i \in 0..Len(q)] ==
        IF i = 0 THEN 0
        ELSE removed[i - 1] + IF Discarded(q[i], s) THEN q[i].bytes ELSE 0
  IN  removed[Len(q)]

\* scheduleIdleClose: idleTimer once pool p has the streams left.
NeverScheduleIdleClose(p, left) == idleTimer  \* mutant
ScheduleIdleClose(p, left) == IF left = {} THEN idleTimer \cup {p} ELSE idleTimer

\* detach, with the idle close it schedules, posting messages.
Detach(s, notifyServer, messages) ==
  LET p == boundTo[s]
      q == WithoutStream(queue[p], s)
      bytes == queuedBytes[p] - DiscardedBytes(queue[p], s)
      bye == ControlFrame(s, "close")
      told == notifyServer /\ IsMux(p)
  IN /\ \/ told /\ SendFrame(p, q, bytes, bye)
        \/ /\ told => SendFrameThrows(p, q, bytes, bye)
           /\ queue' = [queue EXCEPT ![p] = q]
           /\ queuedBytes' = [queuedBytes EXCEPT ![p] = bytes]
           /\ UNCHANGED <<flushTimer, wire>>
     /\ Unbind({s})
     /\ members' = [members EXCEPT ![p] = @ \ {s}]
     /\ idleTimer' = ScheduleIdleClose(p, members[p] \ {s})
     /\ out' = messages
     /\ UNCHANGED <<catalog, socket, reconnectTimer, physical>>

\* What closePool and the idle timeout share.  The map entry is deleted by
\* identity, whichever pool it holds.
Retire(p) ==
  /\ pools' = [pools EXCEPT ![identity[p]] = None]
  /\ closing' = closing \cup {p}
  /\ idleTimer' = idleTimer \ {p}
  /\ reconnectTimer' = reconnectTimer \ {p}
  /\ flushTimer' = flushTimer \ {p}
  /\ queue' = [queue EXCEPT ![p] = <<>>]
  /\ queuedBytes' = [queuedBytes EXCEPT ![p] = 0]
  /\ UNCHANGED identity

\* closePool after messages were posted.
ClosePool(p, messages) ==
  /\ Retire(p)
  /\ Unbind(members[p])
  /\ members' = [members EXCEPT ![p] = {}]
  /\ out' = messages \o PostPool(p, "close")

\* protocolViolation looks at the pool's current socket, whichever socket the
\* offending frame came from.
ProtocolViolation(p) ==
  \/ /\ socket[p] # None /\ readyState[socket[p]] # "CLOSING"
     /\ closing' = closing \cup {p}
     /\ readyState' = [readyState EXCEPT ![socket[p]] = "CLOSING"]
     /\ out' = PostPool(p, "error")
     /\ UNCHANGED <<registry, pools, identity, members, socket, timers, backlog,
                    creator, wire>>
  \/ /\ socket[p] # None => readyState[socket[p]] = "CLOSING"
     /\ ClosePool(p, PostPool(p, "error"))
     /\ UNCHANGED <<socket, physical, wire>>

\* connectPool: a new socket k becomes the pool's; the one it replaces stays as it is.
Connect(p, k) ==
  /\ readyState[k] = "FREE"
  /\ readyState' = [readyState EXCEPT ![k] = "CONNECTING"]
  /\ creator' = [creator EXCEPT ![k] = p]
  /\ socket' = [socket EXCEPT ![p] = k]

-----------------------------------------------------------------------------
(* Requests of the pages. *)

ReusableWhileClosing(i) == pools[i] # None  \* mutant
Reusable(i) == pools[i] # None /\ pools[i] \notin closing
PoolsBeside(i) == {j \in Identities \ {i} : pools[j] # None}
Unreachable(p) == /\ \A i \in Identities : pools[i] # p
                  /\ members[p] = {}
                  /\ p \notin idleTimer \cup reconnectTimer \cup flushTimer
                  /\ \A k \in Sockets : creator[k] # p

\* attach gives up before it looks for a pool.
AttachRefused(c, s, i) ==
  IF s \in Bound
  THEN portOf[s] # c \/ identity[boundTo[s]] # i
  ELSE \/ /\ streamsByPort[c] = {}
          /\ Cardinality({d \in Ports : streamsByPort[d] # {}}) >= MaxPorts
       \/ Cardinality(Bound) >= MaxStreams

OpenRefused(c, s, i) == AttachRefused(c, s, i) /\ OnlyPost(Reply(s, FALSE))

\* ownedBinding and attach renew the lease of a stream that is bound.
RenewLease(s) ==
  /\ stale' = stale \ {s}
  /\ UNCHANGED <<boundTo, portOf, streamsByPort, evicting>>

OpenAgain(c, s, i) ==
  /\ AtRest /\ s \in Bound /\ ~AttachRefused(c, s, i)
  /\ RenewLease(s)
  /\ out' = Reply(s, TRUE)
  /\ UNCHANGED <<catalog, members, socket, timers, backlog, physical, wire>>

Admitted(c, s, i) == AtRest /\ s \notin Bound /\ ~AttachRefused(c, s, i)

\* createPool throws; a pool that is closing has already lost its map entry.
OpenWithoutPool(c, s, i) ==
  /\ Admitted(c, s, i) /\ ~Reusable(i)
  /\ Cardinality(PoolsBeside(i)) >= MaxPools
  /\ pools' = [pools EXCEPT ![i] = None]
  /\ out' = Reply(s, FALSE)
  /\ UNCHANGED <<registry, identity, closing, members, socket, timers, backlog,
                 physical, wire>>

OpenInNewPool(c, s, i, p, k) ==
  /\ Admitted(c, s, i) /\ ~Reusable(i)
  /\ Cardinality(PoolsBeside(i)) < MaxPools
  /\ Unreachable(p)
  /\ pools' = [pools EXCEPT ![i] = p]
  /\ identity' = [identity EXCEPT ![p] = i]
  /\ closing' = closing \ {p}
  /\ queue' = [queue EXCEPT ![p] = <<>>]
  /\ queuedBytes' = [queuedBytes EXCEPT ![p] = 0]
  /\ Register(c, s, p)
  /\ Connect(p, k)
  /\ out' = Reply(s, TRUE)
  /\ UNCHANGED <<timers, flushTimer, wire>>

OpenInFullPool(c, s, i) ==
  /\ Admitted(c, s, i) /\ Reusable(i)
  /\ Cardinality(members[pools[i]]) >= MaxStreamsPerPool
  /\ idleTimer' = idleTimer \ {pools[i]}
  /\ out' = Reply(s, FALSE)
  /\ UNCHANGED <<registry, catalog, members, socket, reconnectTimer, backlog,
                 physical, wire>>

JoinPool(c, s, i, p) ==
  /\ Admitted(c, s, i) /\ Reusable(i) /\ p = pools[i]
  /\ Cardinality(members[p]) < MaxStreamsPerPool
  /\ Register(c, s, p)
  /\ idleTimer' = idleTimer \ {p}
  /\ UNCHANGED <<catalog, reconnectTimer>>

\* No usable socket: attach connects at once, and a reconnect timer stays armed.
OpenAndConnect(c, s, i, p, k) ==
  /\ JoinPool(c, s, i, p)
  /\ socket[p] # None => readyState[socket[p]] = "CLOSING"
  /\ Connect(p, k)
  /\ out' = Reply(s, TRUE)
  /\ UNCHANGED <<backlog, wire>>

OpenWhileConnecting(c, s, i, p) ==
  /\ JoinPool(c, s, i, p)
  /\ socket[p] # None /\ readyState[socket[p]] = "CONNECTING"
  /\ out' = Reply(s, TRUE)
  /\ UNCHANGED <<socket, backlog, physical, wire>>

\* An open socket: announce the stream, then post open.  When the queue has no
\* room for the announcement the request fails, and the binding stays.
OpenOnOpenSocket(c, s, i, p) ==
  LET hello == ControlFrame(s, "open")
  IN /\ JoinPool(c, s, i, p)
     /\ IsOpen(p)
     /\ \/ /\ IsMux(p) /\ SendFrame(p, queue[p], queuedBytes[p], hello)
           /\ out' = Post({s}, "open") \o Reply(s, TRUE)
        \/ /\ IsMux(p) /\ SendFrameThrows(p, queue[p], queuedBytes[p], hello)
           /\ out' = Reply(s, FALSE)
           /\ UNCHANGED <<backlog, wire>>
        \/ /\ ~IsMux(p)
           /\ out' = Post({s}, "open") \o Reply(s, TRUE)
           /\ UNCHANGED <<backlog, wire>>
     /\ UNCHANGED <<socket, physical>>

OpenStream(c, s, i) ==
  \/ OpenRefused(c, s, i)
  \/ OpenAgain(c, s, i)
  \/ OpenWithoutPool(c, s, i)
  \/ OpenInFullPool(c, s, i)
  \/ \E p \in Pools, k \in Sockets : OpenInNewPool(c, s, i, p, k)
  \/ \E p \in Pools, k \in Sockets : OpenAndConnect(c, s, i, p, k)
  \/ \E p \in Pools : OpenWhileConnecting(c, s, i, p)
  \/ \E p \in Pools : OpenOnOpenSocket(c, s, i, p)

\* ownedBinding throws unless the stream is bound to the port that asks.
Owns(c, s) == s \in Bound /\ portOf[s] = c
NotOwned(c, s) == ~Owns(c, s) /\ OnlyPost(Reply(s, FALSE))

Heartbeat(c, s) ==
  /\ AtRest /\ Owns(c, s)
  /\ RenewLease(s)
  /\ out' = Reply(s, TRUE)
  /\ UNCHANGED <<catalog, members, socket, timers, backlog, physical, wire>>

Send(c, s, n) ==
  LET p == boundTo[s]
      f == DataFrame(s, n)
  IN /\ AtRest /\ Owns(c, s)
     /\ RenewLease(s)
     /\ \/ /\ n <= MaxFrameBytes
           /\ SendFrame(p, queue[p], queuedBytes[p], f)
           /\ out' = Reply(s, TRUE)
        \/ /\ n > MaxFrameBytes \/ SendFrameThrows(p, queue[p], queuedBytes[p], f)
           /\ out' = Reply(s, FALSE)
           /\ UNCHANGED <<backlog, wire>>
     /\ UNCHANGED <<catalog, members, socket, timers, physical>>

CloseStream(c, s) ==
  /\ AtRest /\ Owns(c, s)
  /\ Detach(s, TRUE, Post({s}, "close") \o Reply(s, TRUE))

\* The reason is no string or longer than 123 bytes: normalizeSocketCloseReason throws
\* when the lease is renewed already, and the stream stays.
CloseThrows(c, s) ==
  /\ AtRest /\ Owns(c, s)
  /\ RenewLease(s)
  /\ out' = Reply(s, FALSE)
  /\ UNCHANGED <<catalog, members, socket, timers, backlog, physical, wire>>

-----------------------------------------------------------------------------
(* Leases and ports that went away. *)

\* The lease time passes without a request for stream s.
LeaseExpires(s) ==
  /\ AtRest /\ s \in Bound \ stale
  /\ stale' = stale \cup {s}
  /\ out' = <<>>
  /\ UNCHANGED <<boundTo, portOf, streamsByPort, evicting, catalog, members, socket,
                 timers, backlog, physical, wire>>

BeginEviction(S) ==
  /\ AtRest /\ S # {}
  /\ evicting' = S
  /\ out' = <<>>
  /\ UNCHANGED <<boundTo, portOf, streamsByPort, stale, catalog, members, socket,
                 timers, backlog, physical, wire>>

SweepFresh == BeginEviction(Bound \ stale)  \* mutant
LeaseSweep == BeginEviction(stale)
CleanupPort(c) == BeginEviction(streamsByPort[c])

\* One turn of the loop of LeaseSweep or CleanupPort; the page is told nothing.
Evict(s) == s \in evicting /\ Detach(s, TRUE, <<>>)

-----------------------------------------------------------------------------
(* Timers. *)

IdleTimeout(p) ==
  /\ AtRest /\ p \in idleTimer
  /\ out' = <<>>
  /\ \/ /\ members[p] # {}
        /\ idleTimer' = idleTimer \ {p}
        /\ UNCHANGED <<catalog, reconnectTimer, backlog, socket, readyState>>
     \/ /\ members[p] = {}
        /\ Retire(p)
        /\ socket' = [socket EXCEPT ![p] = None]
        /\ readyState' = [k \in Sockets |-> IF k = socket[p] THEN "CLOSING"
                                                             ELSE readyState[k]]
  /\ UNCHANGED <<registry, members, creator, wire>>

\* What the reconnect timer asks before it connects.
ReconnectWantedAnyway(p) == members[p] # {}  \* mutant
ReconnectWanted(p) == members[p] # {} /\ p \notin closing

ReconnectTimeout(p) ==
  /\ AtRest /\ p \in reconnectTimer
  /\ reconnectTimer' = reconnectTimer \ {p}
  /\ out' = <<>>
  /\ \/ ~ReconnectWanted(p) /\ UNCHANGED <<socket, physical>>
     \/ ReconnectWanted(p) /\ \E k \in Sockets : Connect(p, k)
  /\ UNCHANGED <<registry, catalog, members, idleTimer, backlog, wire>>

FlushTimeout(p) ==
  /\ AtRest /\ p \in flushTimer
  /\ out' = <<>>
  /\ \/ /\ ~IsOpen(p)
        /\ flushTimer' = flushTimer \ {p}
        /\ UNCHANGED <<queue, queuedBytes, wire>>
     \/ /\ IsOpen(p)
        /\ FlushQueue(p, announced[socket[p]], flushTimer \ {p})
  /\ UNCHANGED <<registry, catalog, members, socket, timers, physical>>

-----------------------------------------------------------------------------
(* Callbacks of the sockets. *)

\* A socket that is no longer its pool's opens: onopen returns, the socket stays.
OrphanOpens(k) ==
  /\ AtRest
  /\ readyState[k] = "CONNECTING"
  /\ socket[creator[k]] # k \/ creator[k] \in closing
  /\ readyState' = [readyState EXCEPT ![k] = "OPEN"]
  /\ out' = <<>>
  /\ UNCHANGED <<registry, catalog, members, socket, timers, backlog, creator, wire>>

Opening(p, k) ==
  /\ AtRest
  /\ readyState[k] = "CONNECTING" /\ creator[k] = p
  /\ socket[p] = k /\ p \notin closing

\* The server chose no subprotocol.
NegotiationFails(p, k) == Opening(p, k) /\ ProtocolViolation(p)

\* Every stream of the pool is announced, then hears open, then the queue is flushed.
\* (256 announcements are too few bytes to congest a new socket.)
SocketOpens(p, k) ==
  /\ Opening(p, k)
  /\ readyState' = [readyState EXCEPT ![k] = "OPEN"]
  /\ out' = PostPool(p, "open")
  /\ FlushQueue(p, IF IsMux(p) THEN members[p] ELSE {}, flushTimer)
  /\ UNCHANGED <<registry, catalog, members, socket, timers, creator>>

\* A frame arrives on socket k; a send_only pool ignores it.
Incoming(k) == AtRest /\ readyState[k] = "OPEN" /\ IsMux(creator[k])

\* A broadcast, or data of one stream.
ServerMessage(k, to) ==
  /\ Incoming(k)
  /\ to = members[creator[k]] \/ \E s \in members[creator[k]] : to = {s}
  /\ OnlyPost(Post(to, "message"))

ServerClosesSilently(k, s) ==  \* mutant
  Incoming(k) /\ s \in members[creator[k]] /\ Detach(s, FALSE, <<>>)

ServerClosesStream(k, s) ==
  /\ Incoming(k) /\ s \in members[creator[k]]
  /\ Detach(s, FALSE, Post({s}, "close"))

\* A frame that is not text, too long, not an envelope, or a stream_open.
ServerBreaksProtocol(k) == Incoming(k) /\ ProtocolViolation(creator[k])

\* The closing handshake that the server started reaches the browser.
ServerStartsClose(k) ==
  /\ AtRest
  /\ readyState[k] = "OPEN"
  /\ readyState' = [readyState EXCEPT ![k] = "CLOSING"]
  /\ out' = <<>>
  /\ UNCHANGED <<registry, catalog, members, socket, timers, backlog, creator, wire>>

ShouldReconnect(code) == code \in {1001, 1006, 1011, 1012, 1013, 1014}

\* scheduleReconnect after messages were posted.
NeverScheduleReconnect(p, messages) ==  \* mutant
  out' = messages /\ UNCHANGED reconnectTimer

ScheduleReconnect(p, messages) ==
  /\ reconnectTimer' = reconnectTimer \cup {p}
  /\ out' = messages \o (IF p \in reconnectTimer THEN <<>>
                         ELSE PostPool(p, "reconnecting"))

\* The socket object is unreachable once its close event has run.
Discard(k) ==
  /\ readyState' = [readyState EXCEPT ![k] = "FREE"]
  /\ creator' = [creator EXCEPT ![k] = None]
  /\ congested' = congested \ {k}
  /\ announced' = [announced EXCEPT ![k] = {}]
  /\ misled' = misled \ {k}

\* onclose of socket k, in one task with the onerror that may precede it.
SocketCloses(k, code, errored) ==
  LET p == creator[k]
      error == IF errored THEN PostPool(p, "error") ELSE <<>>
  IN /\ AtRest
     /\ readyState[k] # "FREE"
     /\ errored \/ readyState[k] = "CONNECTING" => code = 1006
     /\ Discard(k)
     /\ \/ /\ socket[p] # k
           /\ out' = error
           /\ UNCHANGED <<registry, catalog, members, socket, timers, backlog>>
        \/ /\ socket[p] = k
           /\ p \notin closing /\ members[p] # {} /\ ShouldReconnect(code)
           /\ socket' = [socket EXCEPT ![p] = None]
           /\ ScheduleReconnect(p, error)
           /\ UNCHANGED <<registry, catalog, members, idleTimer, backlog>>
        \/ /\ socket[p] = k
           /\ p \in closing \/ members[p] = {} \/ ~ShouldReconnect(code)
           /\ socket' = [socket EXCEPT ![p] = None]
           /\ ClosePool(p, error)

\* The browser hands buffered bytes to the network.
Drain(k) ==
  /\ AtRest /\ k \in congested
  /\ congested' = congested \ {k}
  /\ out' = <<>>
  /\ UNCHANGED <<registry, catalog, members, socket, timers, backlog, physical,
                 announced, misled>>

-----------------------------------------------------------------------------
PageRequest ==
  \E c \in Ports, s \in StreamIds :
    \/ \E i \in Identities : OpenStream(c, s, i)
    \/ NotOwned(c, s)
    \/ Heartbeat(c, s)
    \/ \E n \in DataBytes : Send(c, s, n)
    \/ CloseStream(c, s) \/ CloseThrows(c, s)

Housekeeping ==
  \/ \E s \in StreamIds : LeaseExpires(s) \/ Evict(s)
  \/ LeaseSweep
  \/ \E c \in Ports : CleanupPort(c)
  \/ \E p \in Pools : IdleTimeout(p) \/ ReconnectTimeout(p) \/ FlushTimeout(p)

SocketEvent ==
  \E k \in Sockets :
    \/ OrphanOpens(k)
    \/ \E p \in Pools : NegotiationFails(p, k) \/ SocketOpens(p, k)
    \/ \E to \in SUBSET StreamIds : ServerMessage(k, to)
    \/ \E s \in StreamIds : ServerClosesStream(k, s)
    \/ ServerBreaksProtocol(k)
    \/ ServerStartsClose(k)
    \/ \E code \in CloseCodes, errored \in BOOLEAN : SocketCloses(k, code, errored)
    \/ Drain(k)

Next == PageRequest \/ Housekeeping \/ SocketEvent

Spec == Init /\ [][Next]_vars

CloseCompletes(k) ==
  /\ readyState[k] = "CLOSING"
  /\ \E code \in CloseCodes, errored \in BOOLEAN : SocketCloses(k, code, errored)

\* The browser's event loop fires timers, runs a loop to its end, and gives a closing
\* socket its close event.  A detach loop is one task in the program but several steps
\* here, and may hold the others back again and again: hence strong fairness.  Nothing
\* is assumed of pages, network or server.
Fairness ==
  /\ \A p \in Pools : /\ SF_vars(IdleTimeout(p))
                      /\ SF_vars(ReconnectTimeout(p))
                      /\ SF_vars(FlushTimeout(p))
  /\ \A s \in StreamIds : WF_vars(Evict(s))
  /\ \A k \in Sockets : SF_vars(CloseCompletes(k))

FairSpec == Spec /\ Fairness
=============================================================================
