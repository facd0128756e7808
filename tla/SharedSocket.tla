---------------------------- MODULE SharedSocket ----------------------------
(***************************************************************************)
(* Pages, their ports and the worker together: SharedSocketClient and      *)
(* SocketWorker over the channels between them.  The worker takes the      *)
(* requests of a port in order; what it posts in a step is appended to the *)
(* ports of the streams' pages, the events before the response.            *)
(*                                                                         *)
(* All pages of the model use one pool identity.                           *)
(***************************************************************************)
EXTENDS SharedSocketClient
LOCAL INSTANCE SequencesExt

CONSTANTS
  Identities, MuxIdentities, Pools, Sockets, None,
  MaxPorts, MaxPools, MaxStreams, MaxStreamsPerPool,
  MaxPendingFrames, MaxPendingBytes, MaxFrameBytes, ControlBytes, DataBytes,
  CloseCodes,
  Address,            \* the pages' url, pool_key, mode and protocols
  MaxEvents           \* bound on the messages a page has still to handle

ASSUME SharedSocketAssumption == Address \in Identities /\ MaxEvents \in Nat \ {0}

VARIABLES
  boundTo, portOf, streamsByPort, stale, evicting,
  pools, identity, closing, members, socket, idleTimer, reconnectTimer,
  queue, queuedBytes, flushTimer,
  readyState, creator, congested, announced, misled, out

Worker == INSTANCE SocketWorker

ASSUME WorkerAssumption == Worker!SocketWorkerAssumption

workerVars ==
  <<boundTo, portOf, streamsByPort, stale, evicting, pools, identity, closing, members,
    socket, idleTimer, reconnectTimer, queue, queuedBytes, flushTimer, readyState,
    creator, congested, announced, misled, out>>
vars == <<clientVars, workerVars>>

Init == ClientInit /\ Worker!Init

\* A step of the page alone.
PageStep(A) == A /\ UNCHANGED workerVars

-----------------------------------------------------------------------------
(* What the worker posts.  In a step that handles a request, "ok" and "fail" answer *)
(* it; the other messages are events. *)

\* out' as port c gets it: one message for each of its streams (owner: portOf before
\* or after the step, whichever knows the stream).
OwnerOf(s) == IF portOf[s] # None THEN portOf[s] ELSE portOf'[s]

EventsFor(c) ==
  FlattenSeq([i \in DOMAIN out' |->
    LET S == {s \in out'[i].to : OwnerOf(s) = c}
    IN  IF out'[i].event \in {"ok", "fail"} THEN <<>>
        ELSE SetToSeq({Event(out'[i].event, s) : s \in S})])

AnswerTo(request) == Response(Last(out').event, request)

\* A closed port takes no more messages.
Delivered(c, messages) == IF finalized[c] THEN <<>> ELSE toPage[c] \o messages

\* The worker's step A, in which no request is handled.
WorkerStep(A) ==
  /\ A
  /\ toPage' = [c \in Ports |-> Delivered(c, EventsFor(c))]
  /\ heard' = [c \in Ports |-> "nothing"]
  /\ UNCHANGED <<client, toWorker>>

\* A step of the outside world, for which the bounds must leave room: a page may answer
\* an event with one more request.
HasRoom(c) == Len(toPage[c]) < MaxEvents /\ Unanswered(c) <= MaxRequests
WorldStep(A) == WorkerStep(A) /\ \A c \in Ports : HasRoom(c) \/ toPage'[c] = toPage[c]

\* What the worker does with a request of port c; no close throws there (CloseThrows),
\* since close() has checked its reason and pagehide has a fixed one.
Serve(c, request) ==
  LET s == request.stream
  IN \/ request.action = "open_stream" /\ Worker!OpenStream(c, s, Address)
     \/ request.action # "open_stream" /\ Worker!NotOwned(c, s)
     \/ request.action = "heartbeat" /\ Worker!Heartbeat(c, s)
     \/ request.action = "send" /\ \E n \in DataBytes : Worker!Send(c, s, n)
     \/ request.action = "close_stream" /\ Worker!CloseStream(c, s)

HandleRequest(c) ==
  LET request == Head(toWorker[c])
  IN /\ toWorker[c] # <<>>
     /\ Serve(c, request)
     /\ toWorker' = [toWorker EXCEPT ![c] = Tail(@)]
     /\ toPage' = [d \in Ports |->
          Delivered(d, EventsFor(d) \o IF d = c THEN <<AnswerTo(request)>> ELSE <<>>)]
     /\ heard' = [d \in Ports |-> "nothing"]
     /\ UNCHANGED client

-----------------------------------------------------------------------------
\* Stream identifiers are taken again once nobody has or hears of them.
Fresh(s) == /\ boundTo[s] = None
            /\ \A c \in Ports : s # currentStreamId[c] /\ s \notin StreamsUnderWay(c)
            /\ \A p \in Pools : \A i \in DOMAIN queue[p] : queue[p][i].stream # s

PageAction(c) ==
  \/ PageStep(PageHide(c))
  \/ \E s \in StreamIds : Fresh(s) /\ PageStep(PageShow(c, s))
  \/ PageStep(PageSends(c))
  \/ PageStep(PageCloses(c))
  \/ PageStep(WorkerError(c))

Heartbeats(c) == PageStep(HeartbeatTimer(c))
Handles(c) == PageStep(HandleWorkerMessage(c))

Next ==
  \/ \E c \in Ports : PageAction(c) \/ Heartbeats(c) \/ Handles(c) \/ HandleRequest(c)
  \/ WorkerStep(Worker!Housekeeping)
  \/ WorldStep(Worker!SocketEvent)

Spec == Init /\ [][Next]_vars

\* The lease of a page's stream runs out, the page having fallen silent for good.
SilenceExpires(c) ==
  /\ finalized[c] /\ toWorker[c] = <<>>
  /\ WorkerStep(\E s \in streamsByPort[c] : Worker!LeaseExpires(s))

\* Both event loops run, intervals fire, and a silent page's lease does run out.  What
\* the worker does may be held back again and again by a detach loop, which is one task
\* in the program, and the bounds may disable a heartbeat or a close event between times,
\* which the program does not: hence strong fairness.
Fairness ==
  /\ \A c \in Ports : /\ SF_vars(Heartbeats(c))
                      /\ WF_vars(Handles(c))
                      /\ SF_vars(HandleRequest(c))
                      /\ SF_vars(SilenceExpires(c))
  /\ SF_vars(WorkerStep(Worker!LeaseSweep))
  /\ \A s \in StreamIds : WF_vars(WorkerStep(Worker!Evict(s)))
  /\ \A k \in Sockets : SF_vars(WorldStep(Worker!CloseCompletes(k)))

FairSpec == Spec /\ Fairness
=============================================================================
