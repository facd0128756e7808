----------------------- MODULE SocketWorkerProperties -----------------------
(***************************************************************************)
(* What the shared socket worker promises, and three promises it does not  *)
(* keep (the last section).                                                *)
(***************************************************************************)
EXTENDS SocketWorker

EventNames == {"open", "reconnecting", "message", "error", "close", "ok", "fail"}
Frame == [stream : StreamIds, kind : {"open", "data", "close"}, bytes : Nat]

\* The type of every variable but the backlog (see BacklogAccounted).
TypeOK ==
  /\ boundTo \in [StreamIds -> Pools \cup {None}]
  /\ portOf \in [StreamIds -> Ports \cup {None}]
  /\ streamsByPort \in [Ports -> SUBSET StreamIds]
  /\ stale \subseteq StreamIds /\ evicting \subseteq StreamIds
  /\ pools \in [Identities -> Pools \cup {None}]
  /\ identity \in [Pools -> Identities \cup {None}]
  /\ members \in [Pools -> SUBSET StreamIds]
  /\ socket \in [Pools -> Sockets \cup {None}]
  /\ closing \subseteq Pools
  /\ idleTimer \subseteq Pools /\ reconnectTimer \subseteq Pools /\ flushTimer \subseteq Pools
  /\ readyState \in [Sockets -> {"FREE", "CONNECTING", "OPEN", "CLOSING"}]
  /\ creator \in [Sockets -> Pools \cup {None}]
  /\ congested \subseteq Sockets /\ misled \subseteq Sockets
  /\ announced \in [Sockets -> SUBSET StreamIds]
  /\ out \in Seq([to : SUBSET StreamIds, event : EventNames])

-----------------------------------------------------------------------------
(* Safety. *)

\* The stream map, each pool's own streams and the index by port are three copies
\* of one relation, updated by hand in attach, detach, closePool, releasePortStream
\* and cleanupPort.  They agree between any two handlers and inside the detach loops;
\* what a loop or a lease still names is bound.
RegistryAgrees ==
  /\ \A s \in StreamIds, p \in Pools : boundTo[s] = p <=> s \in members[p]
  /\ \A s \in StreamIds, c \in Ports : portOf[s] = c <=> s \in streamsByPort[c]
  /\ \A s \in StreamIds : boundTo[s] = None <=> portOf[s] = None
  /\ stale \cup evicting \subseteq Bound

\* A pool with streams always has someone who will act for it: a socket whose close
\* event is still to come, or an armed reconnect timer that will connect (one that
\* fires on a closing pool does nothing).
NoPoolStranded ==
  \A p \in Pools : members[p] # {} =>
    \/ socket[p] # None
    \/ p \in reconnectTimer /\ p \notin closing

\* A live pool that lost its last stream has its idle timer armed, whichever of the
\* six ways a stream can leave emptied it: no socket is kept for nobody.
EmptyPoolRetires ==
  \A p \in Pools :
    identity[p] # None /\ members[p] = {} /\ p \notin closing => p \in idleTimer

\* Frames that wait on an open socket have a flush timer armed: nothing else would
\* send them before the next reconnect.
BacklogScheduled ==
  \A p \in Pools : IsOpen(p) /\ queue[p] # <<>> => p \in flushTimer

\* queued_bytes is the size of the frames queued, through every push, flush, filter
\* and reset; a drift would refuse frames for ever or never.  The two limits hold.
BacklogAccounted ==
  \A p \in Pools : /\ queue[p] \in Seq(Frame)
                   /\ queuedBytes[p] = SumBytes(queue[p])
                   /\ queuedBytes[p] <= MaxPendingBytes
                   /\ Len(queue[p]) <= MaxPendingFrames

\* No data and no stream_open outlives its stream in a pool's queue, by whichever path the
\* stream goes: what waits is of a stream the pool has, or a stream_close
\* (removeQueuedStreamData, 225-235).
BacklogOfMembers ==
  \A p \in Pools : \A i \in DOMAIN queue[p] :
    RetainAfterDetach(queue[p][i]) \/ queue[p][i].stream \in members[p]

\* A pool's current socket is alive and was made for that pool, and a pool that is
\* closing while it still has streams waits for a socket that is closing too: this is
\* the close event that will release its streams.
ClosingPoolAwaitsClose ==
  \A p \in Pools :
    /\ socket[p] # None => creator[socket[p]] = p /\ readyState[socket[p]] # "FREE"
    /\ p \in closing /\ members[p] # {} =>
         socket[p] # None /\ readyState[socket[p]] = "CLOSING"

-----------------------------------------------------------------------------
(* Action properties. *)

HearsClose(s) == \E i \in DOMAIN out : out[i].event = "close" /\ s \in out[i].to

\* A page hears close for a stream only when the worker forgets the stream, and always
\* then except when a lease or a port ended (those pages are gone).  A page that heard close while
\* the stream stays bound would leave it behind; one that did not would wait for ever.
CloseToldWhenForgotten ==
  [][\A s \in Bound : /\ HearsClose(s)' => s \notin Bound'
                      /\ s \notin Bound' => HearsClose(s)' \/ s \in evicting]_vars

\* Closing a pool on purpose is final: it gets no other socket, and it never comes
\* back to life (until nothing refers to the object any more).
ClosingIsFinal ==
  [][\A p \in closing : \/ p \in closing' /\ socket'[p] \in {socket[p], None}
                        \/ Unreachable(p)]_vars

-----------------------------------------------------------------------------
(* What all of it is for. *)

Ownership == INSTANCE StreamOwnership WITH owner <- portOf, leaving <- evicting, told <- out

\* Behind its pools, sockets and queues the worker keeps a table of who owns a stream:
\* one port at a time and within the limits, no answer but a true one, no stream lost
\* without a close to its page except where a lease or a port ended.
KeepsOwnership == Ownership!Spec

-----------------------------------------------------------------------------
(* Liveness, under Fairness. *)

\* An empty pool gets a stream again or is closed: idle sockets do not pile up.
IdlePoolCloses ==
  \A p \in Pools : identity[p] # None /\ members[p] = {} ~> members[p] # {} \/ p \in closing

\* Once a pool is being closed its streams are all released, whatever the server, the
\* pages or orphaned sockets do meanwhile.
ClosingPoolEmpties == \A p \in Pools : p \in closing ~> members[p] = {}

\* A pool that lost its socket gets another one while it has streams (or all of
\* Sockets, the bound of the model, are in use).
LostSocketReplaced ==
  \A p \in Pools : members[p] # {} /\ socket[p] = None ~>
    \/ members[p] = {} \/ socket[p] # None
    \/ \A k \in Sockets : readyState[k] # "FREE"

-----------------------------------------------------------------------------
(* Promises of the browser test that the code does not keep. *)

\* tools/verify_ores_sw_20_browser.mjs: "data must follow stream_open".  The server
\* reads no data frame of a stream it has not been told of on that socket.
DataFollowsOpen == misled = {}

\* "single-flight reconnect", "exactly one replacement physical socket": a pool never
\* has two sockets connecting or open.
SinglePhysicalSocket ==
  \A p \in Pools :
    Cardinality({k \in Sockets : /\ creator[k] = p
                                 /\ readyState[k] \in {"CONNECTING", "OPEN"}}) <= 1

\* "replacement tabs reuse existing physical socket": two live pools with streams
\* differ in identity.
OnePoolPerIdentity ==
  \A p, q \in Pools :
    /\ p # q /\ {p, q} \cap closing = {}
    /\ members[p] # {} /\ members[q] # {}
    => identity[p] # identity[q]
=============================================================================
