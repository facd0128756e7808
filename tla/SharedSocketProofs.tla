-------------------------- MODULE SharedSocketProofs --------------------------
(* What is proved of SharedSocket. *)
EXTENDS SharedSocketProperties, TLAPS
LOCAL INSTANCE SequencesExt

Shown == {"CONNECTING", "OPEN", "CLOSING", "CLOSED"}

\* The part of TypeOK that the client's own flags need.
ClientTypeOK ==
  /\ logical \in [Ports -> Shown]
  /\ suspended \in [Ports -> BOOLEAN]
  /\ manualClose \in [Ports -> BOOLEAN]
  /\ finalized \in [Ports -> BOOLEAN]

ClientInv == ClientTypeOK /\ OpenIsWanted

\* A step that touches port c only, and leaves it showing something other than OPEN,
\* or wanted.
LEMMA StepOfOne ==
  ASSUME ClientInv, NEW c \in Ports, NEW shown \in Shown,
         NEW hidden \in BOOLEAN, NEW closed \in BOOLEAN, NEW done \in BOOLEAN,
         logical' = [logical EXCEPT ![c] = shown],
         suspended' = [suspended EXCEPT ![c] = hidden],
         manualClose' = [manualClose EXCEPT ![c] = closed],
         finalized' = [finalized EXCEPT ![c] = done],
         shown = "OPEN" => ~hidden /\ ~closed /\ ~done
  PROVE  ClientInv'
<1>1. ClientTypeOK'
  BY DEF ClientInv, ClientTypeOK
<1>2. OpenIsWanted'
  <2> SUFFICES ASSUME NEW d \in Ports, logical'[d] = "OPEN"
               PROVE  ~suspended'[d] /\ ~manualClose'[d] /\ ~finalized'[d]
    BY DEF OpenIsWanted
  <2>1. CASE d = c
    BY <2>1 DEF ClientInv, ClientTypeOK
  <2>2. CASE d # c
    BY <2>2 DEF ClientInv, ClientTypeOK, OpenIsWanted
  <2> QED BY <2>1, <2>2
<1> QED BY <1>1, <1>2 DEF ClientInv

\* The flags of a port are what they are.
LEMMA Unflagged ==
  ASSUME ClientTypeOK, NEW c \in Ports
  PROVE  /\ suspended = [suspended EXCEPT ![c] = suspended[c]]
         /\ manualClose = [manualClose EXCEPT ![c] = manualClose[c]]
         /\ finalized = [finalized EXCEPT ![c] = finalized[c]]
         /\ logical = [logical EXCEPT ![c] = logical[c]]
         /\ logical[c] \in Shown
         /\ {suspended[c], manualClose[c], finalized[c]} \subseteq BOOLEAN
BY DEF ClientTypeOK

\* A step that leaves every client as it is.
LEMMA ClientUnchanged ==
  ASSUME ClientInv, UNCHANGED client
  PROVE  ClientInv'
BY DEF ClientInv, ClientTypeOK, OpenIsWanted, client, connection, lifecycle

\* Every step of a page's own, and every message it handles.
LEMMA PageEventStep ==
  ASSUME ClientInv, NEW c \in Ports,
         \/ PageHide(c) \/ (\E s \in StreamIds : PageShow(c, s))
         \/ HeartbeatTimer(c) \/ PageSends(c) \/ PageCloses(c) \/ WorkerError(c)
  PROVE  ClientInv'
<1> USE DEF Shown
<1>0. ClientTypeOK
  BY DEF ClientInv
<1>1. CASE PageHide(c)
  <2>1. /\ logical' = [logical EXCEPT ![c] = "CLOSING"]
        /\ suspended' = [suspended EXCEPT ![c] = TRUE]
        /\ manualClose' = [manualClose EXCEPT ![c] = manualClose[c]]
        /\ finalized' = [finalized EXCEPT ![c] = finalized[c]]
    BY <1>0, <1>1, Unflagged DEF PageHide, CloseForHide, CloseLogical
  <2> QED BY <1>0, <2>1, Unflagged, StepOfOne
<1>2. ASSUME NEW s \in StreamIds, PageShow(c, s) PROVE ClientInv'
  <2>1. /\ logical' = [logical EXCEPT ![c] = "CONNECTING"]
        /\ suspended' = [suspended EXCEPT ![c] = FALSE]
        /\ manualClose' = [manualClose EXCEPT ![c] = manualClose[c]]
        /\ finalized' = [finalized EXCEPT ![c] = finalized[c]]
    BY <1>0, <1>2, Unflagged DEF PageShow, OpenStreamOf, OpeningAfterShow
  <2> QED BY <1>0, <2>1, Unflagged, StepOfOne
<1>3. CASE HeartbeatTimer(c) \/ PageSends(c)
  BY <1>3, ClientUnchanged DEF HeartbeatTimer, PageSends
<1>4. CASE PageCloses(c)
  <2>1. /\ logical' = [logical EXCEPT ![c] = "CLOSING"]
        /\ suspended' = [suspended EXCEPT ![c] = suspended[c]]
        /\ manualClose' = [manualClose EXCEPT ![c] = TRUE]
        /\ finalized' = [finalized EXCEPT ![c] = finalized[c]]
    BY <1>0, <1>4, Unflagged DEF PageCloses, CloseLogical
  <2> QED BY <1>0, <2>1, Unflagged, StepOfOne
<1>5. CASE WorkerError(c)
  <2>1. PICK closes \in BOOLEAN :
          /\ ListenerCloses(c, closes)
          /\ logical' = [logical EXCEPT ![c] = IF closes THEN "CLOSING" ELSE "CLOSED"]
    BY <1>5 DEF WorkerError
  <2> DEFINE shown == IF closes THEN "CLOSING" ELSE "CLOSED"
             closed == manualClose[c] \/ closes
  <2>2. /\ suspended' = [suspended EXCEPT ![c] = suspended[c]]
        /\ manualClose' = [manualClose EXCEPT ![c] = closed]
        /\ finalized' = [finalized EXCEPT ![c] = TRUE]
        /\ logical' = [logical EXCEPT ![c] = shown]
    BY <1>0, <1>5, <2>1, Unflagged DEF WorkerError, ListenerCloses
  <2>3. shown \in Shown /\ shown # "OPEN" /\ closed \in BOOLEAN
    OBVIOUS
  <2> HIDE DEF shown, closed
  <2> QED BY <1>0, <2>2, <2>3, Unflagged, StepOfOne
<1> QED BY <1>1, <1>2, <1>3, <1>4, <1>5

\* handleLogicalClose never leaves a client OPEN.
LEMMA LogicalCloseStep ==
  ASSUME ClientInv, NEW c \in Ports, HandleLogicalClose(c)
  PROVE  ClientInv'
<1>0. ClientTypeOK
  BY DEF ClientInv
<1>1. PICK closes \in BOOLEAN :
        /\ ListenerCloses(c, closes)
        /\ logical' = [logical EXCEPT ![c] = IF closes THEN "CLOSING" ELSE "CLOSED"]
        /\ finalized' = [finalized EXCEPT ![c] = manualClose'[c] \/ ~suspended[c]]
        /\ suspended' = suspended
  BY DEF HandleLogicalClose
<1> DEFINE shown == IF closes THEN "CLOSING" ELSE "CLOSED"
           closed == manualClose[c] \/ closes
           done == manualClose'[c] \/ ~suspended[c]
<1>2. /\ suspended' = [suspended EXCEPT ![c] = suspended[c]]
      /\ manualClose' = [manualClose EXCEPT ![c] = closed]
      /\ finalized' = [finalized EXCEPT ![c] = done]
      /\ logical' = [logical EXCEPT ![c] = shown]
  BY <1>0, <1>1, Unflagged DEF ListenerCloses
<1>3. shown \in Shown /\ shown # "OPEN" /\ closed \in BOOLEAN /\ done \in BOOLEAN
  BY DEF Shown
<1> HIDE DEF shown, closed, done
<1> QED BY <1>0, <1>2, <1>3, Unflagged, StepOfOne

\* Every message that a page handles.
LEMMA MessageStep ==
  ASSUME ClientInv, NEW c \in Ports, HandleWorkerMessage(c)
  PROVE  ClientInv'
<1> USE DEF Shown
<1>0. ClientTypeOK
  BY DEF ClientInv
<1>1. ASSUME NEW event, Consume(c, event) PROVE ClientInv'
  BY <1>1, ClientUnchanged DEF Consume
<1>2. CASE IgnoreFormerStream(c) \/ SendFails(c) \/ SocketError(c)
  BY <1>1, <1>2 DEF IgnoreFormerStream, SendFails, SocketError
<1>3. CASE Message(c)
  <2> DEFINE event == IF logical[c] = "OPEN" THEN "message" ELSE "nothing"
  <2>1. Consume(c, event)
    BY <1>3 DEF Message
  <2> QED BY <1>1, <2>1
<1>4. CASE Accepted(c)
  BY <1>4 DEF Accepted, lifecycle, ClientInv, ClientTypeOK, OpenIsWanted
<1>5. CASE OpenFails(c)
  <2>1. PICK closes \in BOOLEAN : ListenerCloses(c, closes)
    BY <1>5 DEF OpenFails
  <2> DEFINE closed == manualClose[c] \/ closes
  <2>2. /\ suspended' = [suspended EXCEPT ![c] = suspended[c]]
        /\ manualClose' = [manualClose EXCEPT ![c] = closed]
        /\ finalized' = [finalized EXCEPT ![c] = finalized[c]]
        /\ logical' = [logical EXCEPT ![c] = "CLOSED"]
    BY <1>0, <1>5, <2>1, Unflagged DEF OpenFails, ListenerCloses
  <2>3. closed \in BOOLEAN
    OBVIOUS
  <2> HIDE DEF closed
  <2> QED BY <1>0, <2>2, <2>3, Unflagged, StepOfOne
<1>6. CASE HeartbeatFails(c)
  <2>1. CASE Consume(c, "error")
    BY <1>1, <2>1
  <2>2. CASE /\ Reopen(c)
             /\ UNCHANGED lifecycle
    <3>1. CASE UNCHANGED logical
      BY <2>2, <3>1 DEF lifecycle, ClientInv, ClientTypeOK, OpenIsWanted
    <3>2. CASE logical' = [logical EXCEPT ![c] = "CONNECTING"]
      <4>1. /\ suspended' = [suspended EXCEPT ![c] = suspended[c]]
            /\ manualClose' = [manualClose EXCEPT ![c] = manualClose[c]]
            /\ finalized' = [finalized EXCEPT ![c] = finalized[c]]
        BY <1>0, <2>2, Unflagged DEF lifecycle
      <4> QED BY <1>0, <3>2, <4>1, Unflagged, StepOfOne
    <3> QED BY <2>2, <3>1, <3>2 DEF Reopen, OpenStreamOf
  <2> QED BY <1>6, <2>1, <2>2 DEF HeartbeatFails
<1>7. CASE CloseFails(c) \/ Closed(c)
  BY <1>7, LogicalCloseStep DEF CloseFails, TakeFailedClose, Closed
<1>8. CASE Opened(c)
  <2>1. /\ suspended' = [suspended EXCEPT ![c] = suspended[c]]
        /\ manualClose' = [manualClose EXCEPT ![c] = manualClose[c]]
        /\ finalized' = [finalized EXCEPT ![c] = finalized[c]]
    BY <1>0, <1>8, Unflagged DEF Opened, lifecycle
  <2>2. CASE logical' = [logical EXCEPT ![c] = "CLOSING"]
    BY <1>0, <2>1, <2>2, Unflagged, StepOfOne
  <2>3. CASE Wanted(c) /\ logical' = [logical EXCEPT ![c] = "OPEN"]
    <3>1. ~suspended[c] /\ ~manualClose[c] /\ ~finalized[c]
      BY <2>3 DEF Wanted, Listening
    <3> QED BY <1>0, <2>1, <2>3, <3>1, Unflagged, StepOfOne
  <2> QED BY <1>8, <2>2, <2>3 DEF Opened, CloseLogical
<1>9. CASE Reconnecting(c)
  <2>1. CASE Consume(c, "nothing")
    BY <1>1, <2>1
  <2>2. CASE logical' = [logical EXCEPT ![c] = "CONNECTING"] /\ UNCHANGED lifecycle
    <3>1. /\ suspended' = [suspended EXCEPT ![c] = suspended[c]]
          /\ manualClose' = [manualClose EXCEPT ![c] = manualClose[c]]
          /\ finalized' = [finalized EXCEPT ![c] = finalized[c]]
      BY <1>0, <2>2, Unflagged DEF lifecycle
    <3> QED BY <1>0, <2>2, <3>1, Unflagged, StepOfOne
  <2> QED BY <1>9, <2>1, <2>2 DEF Reconnecting
<1> QED BY <1>2, <1>3, <1>4, <1>5, <1>6, <1>7, <1>8, <1>9 DEF HandleWorkerMessage

\* The client's flags and what it shows agree in every state.
LEMMA ClientInvariance == Spec => []ClientInv
<1>1. Init => ClientInv
  BY DEF Init, ClientInit, ClientInv, ClientTypeOK, OpenIsWanted, Shown
<1>2. ASSUME ClientInv, [Next]_vars PROVE ClientInv'
  <2>1. CASE UNCHANGED vars
    BY <1>2, <2>1, ClientUnchanged DEF vars, clientVars
  <2>2. ASSUME NEW c \in Ports, PageAction(c) PROVE ClientInv'
    BY <1>2, <2>2, PageEventStep DEF PageAction, PageStep
  <2>3. ASSUME NEW c \in Ports, Heartbeats(c) PROVE ClientInv'
    BY <1>2, <2>3, PageEventStep DEF Heartbeats, PageStep
  <2>4. ASSUME NEW c \in Ports, Handles(c) PROVE ClientInv'
    BY <1>2, <2>4, MessageStep DEF Handles, PageStep
  <2>5. ASSUME NEW c \in Ports, HandleRequest(c) PROVE ClientInv'
    BY <1>2, <2>5, ClientUnchanged DEF HandleRequest
  <2>6. CASE WorkerStep(Worker!Housekeeping) \/ WorldStep(Worker!SocketEvent)
    BY <1>2, <2>6, ClientUnchanged DEF WorldStep, WorkerStep
  <2> QED BY <1>2, <2>1, <2>2, <2>3, <2>4, <2>5, <2>6 DEF Next
<1> QED BY <1>1, <1>2, PTL DEF Spec

\* Whatever worker, sockets and other pages do, and in whichever order messages and
\* window events come, a hidden, closed or finalized client never shows OPEN
\* (handleWorkerMessage, case open; pagehide; close).
THEOREM NeverRevived == Spec => []OpenIsWanted
<1>1. ClientInv => OpenIsWanted
  BY DEF ClientInv
<1> QED BY <1>1, ClientInvariance, PTL

-----------------------------------------------------------------------------
(* The worker behind the ports is the worker alone. *)

Requests == [action : {"open_stream", "heartbeat", "send", "close_stream"}, stream : StreamIds]

\* What travels to the worker is about streams.
RequestsTyped ==
  /\ currentStreamId \in [Ports -> StreamIds]
  /\ toWorker \in [Ports -> Seq(Requests)]

\* A request that a client posts is one about a stream.
LEMMA PostingType ==
  ASSUME RequestsTyped, NEW c \in Ports, NEW s \in StreamIds,
         NEW action \in {"open_stream", "heartbeat", "send", "close_stream"}
  PROVE  Posting(c, Request(action, s)) \in [Ports -> Seq(Requests)]
<1>1. Request(action, s) \in Requests
  BY DEF Request, Requests
<1>2. Append(toWorker[c], Request(action, s)) \in Seq(Requests)
  BY <1>1 DEF RequestsTyped
<1> QED BY <1>2 DEF Posting, RequestsTyped

\* Nothing that a page does puts anything but requests about streams on its port.
LEMMA PageStepRequests ==
  ASSUME RequestsTyped, NEW c \in Ports,
         \/ PageHide(c) \/ (\E s \in StreamIds : PageShow(c, s))
         \/ HeartbeatTimer(c) \/ PageSends(c) \/ PageCloses(c) \/ WorkerError(c)
         \/ HandleWorkerMessage(c)
  PROVE  RequestsTyped'
<1>0. currentStreamId[c] \in StreamIds
  BY DEF RequestsTyped
<1>1. ASSUME NEW action \in {"open_stream", "heartbeat", "send", "close_stream"},
             toWorker' = Posting(c, Request(action, currentStreamId[c])),
             UNCHANGED currentStreamId
      PROVE  RequestsTyped'
  BY <1>0, <1>1, PostingType DEF RequestsTyped
<1>2. CASE UNCHANGED <<currentStreamId, toWorker>>
  BY <1>2 DEF RequestsTyped
<1>3. ASSUME NEW closes, ListenerCloses(c, closes), UNCHANGED currentStreamId
      PROVE  RequestsTyped'
  BY <1>1, <1>2, <1>3 DEF ListenerCloses
<1>4. ASSUME HandleLogicalClose(c) PROVE RequestsTyped'
  BY <1>3, <1>4 DEF HandleLogicalClose
<1>5. ASSUME NEW s \in StreamIds, PageShow(c, s) PROVE RequestsTyped'
  <2>1. /\ currentStreamId' = [currentStreamId EXCEPT ![c] = s]
        /\ toWorker' = Posting(c, Request("open_stream", s))
    BY <1>5 DEF PageShow, OpenStreamOf, OpeningAfterShow
  <2> QED BY <2>1, PostingType DEF RequestsTyped
<1>6. CASE PageHide(c) \/ HeartbeatTimer(c) \/ PageSends(c) \/ PageCloses(c)
  BY <1>1, <1>6 DEF PageHide, CloseForHide, CloseLogical, HeartbeatTimer, PageSends,
     PageCloses, client, connection
<1>7. CASE WorkerError(c)
  BY <1>3, <1>7 DEF WorkerError
<1>8. ASSUME NEW event, Consume(c, event) PROVE RequestsTyped'
  BY <1>2, <1>8 DEF Consume, client, connection
<1>9. CASE IgnoreFormerStream(c) \/ SendFails(c) \/ Message(c) \/ SocketError(c)
  BY <1>8, <1>9 DEF IgnoreFormerStream, SendFails, Message, SocketError
<1>10. CASE Accepted(c) \/ OpenFails(c)
  BY <1>2, <1>3, <1>10 DEF Accepted, OpenFails
<1>11. CASE HeartbeatFails(c)
  BY <1>1, <1>2, <1>8, <1>11 DEF HeartbeatFails, Reopen, OpenStreamOf
<1>12. CASE CloseFails(c) \/ Closed(c)
  BY <1>4, <1>12 DEF CloseFails, TakeFailedClose, Closed
<1>13. CASE Opened(c)
  BY <1>1, <1>2, <1>13 DEF Opened, CloseLogical
<1>14. CASE Reconnecting(c)
  BY <1>2, <1>8, <1>14 DEF Reconnecting
<1> QED
  BY <1>5, <1>6, <1>7, <1>9, <1>10, <1>11, <1>12, <1>13, <1>14 DEF HandleWorkerMessage

\* The worker's variables as the composition and as the worker lists them.
LEMMA SameWorker ==
  ASSUME UNCHANGED workerVars
  PROVE  UNCHANGED Worker!vars
BY DEF workerVars, Worker!vars, Worker!state, Worker!registry, Worker!catalog, Worker!timers,
       Worker!backlog, Worker!physical, Worker!wire

\* What the worker does with a port's request is a request in SocketWorker.
LEMMA ServeIsRequest ==
  ASSUME NEW c \in Ports, NEW request, request.stream \in StreamIds, Serve(c, request)
  PROVE  Worker!Next
<1>1. Worker!PageRequest
  BY SharedSocketAssumption DEF Serve, Worker!PageRequest
<1> QED BY <1>1 DEF Worker!Next

\* The step lemma of WorkerBehindPorts.
LEMMA WorkerSideStep ==
  ASSUME RequestsTyped, [Next]_vars
  PROVE  RequestsTyped' /\ [Worker!Next]_(Worker!vars)
<1>1. CASE UNCHANGED vars
  BY <1>1, SameWorker
  DEF vars, clientVars, client, connection, channels, RequestsTyped
<1>2. ASSUME NEW c \in Ports, PageAction(c) \/ Heartbeats(c) \/ Handles(c)
      PROVE  RequestsTyped' /\ UNCHANGED Worker!vars
  BY <1>2, PageStepRequests, SameWorker DEF PageAction, Heartbeats, Handles, PageStep
<1>3. ASSUME NEW c \in Ports, HandleRequest(c)
      PROVE  RequestsTyped' /\ Worker!Next
  <2>1. toWorker[c] \in Seq(Requests) /\ toWorker[c] # <<>>
    BY <1>3 DEF HandleRequest, RequestsTyped
  <2>2. Head(toWorker[c]) \in Requests /\ Tail(toWorker[c]) \in Seq(Requests)
    BY <2>1
  <2>3. RequestsTyped'
    BY <1>3, <2>2 DEF HandleRequest, RequestsTyped, client, connection
  <2>4. Head(toWorker[c]).stream \in StreamIds
    BY <2>2 DEF Requests
  <2> QED BY <1>3, <2>3, <2>4, ServeIsRequest DEF HandleRequest
<1>4. CASE WorkerStep(Worker!Housekeeping) \/ WorldStep(Worker!SocketEvent)
  BY <1>4 DEF WorldStep, WorkerStep, RequestsTyped, client, connection, Worker!Next
<1> QED BY <1>1, <1>2, <1>3, <1>4 DEF Next

\* The pages and their ports ask nothing of the worker that SocketWorker does not allow:
\* what is proved of the worker alone holds behind the ports (port.onmessage).
THEOREM WorkerBehindPorts == Spec => Worker!Spec
<1>1. Init => RequestsTyped /\ Worker!Init
  <2> SUFFICES ASSUME Init PROVE RequestsTyped /\ Worker!Init
    OBVIOUS
  <2>1. /\ currentStreamId \in [Ports -> StreamIds]
        /\ toWorker = [c \in Ports |-> <<Request("open_stream", currentStreamId[c])>>]
        /\ Worker!Init
    BY DEF Init, ClientInit
  <2>2. \A c \in Ports : Request("open_stream", currentStreamId[c]) \in Requests
    BY <2>1 DEF Request, Requests
  <2> QED BY <2>1, <2>2 DEF RequestsTyped
<1>2. RequestsTyped /\ [Next]_vars => RequestsTyped' /\ [Worker!Next]_(Worker!vars)
  BY WorkerSideStep
<1> QED BY <1>1, <1>2, PTL DEF Spec, Worker!Spec

WP == INSTANCE SocketWorkerBacklogProofs

\* The worker of the composition and the worker that is proved about are the same.
LEMMA SameDefinitions ==
  /\ Worker!Init <=> WP!Init
  /\ \A c, s, i : Worker!OpenStream(c, s, i) <=> WP!OpenStream(c, s, i)
  /\ \A c, s : Worker!NotOwned(c, s) <=> WP!NotOwned(c, s)
  /\ \A c, s : Worker!Heartbeat(c, s) <=> WP!Heartbeat(c, s)
  /\ \A c, s : Worker!CloseStream(c, s) <=> WP!CloseStream(c, s)
  /\ \A c, s : Worker!CloseThrows(c, s) <=> WP!CloseThrows(c, s)
  /\ \A c, s, n : Worker!Send(c, s, n) <=> WP!Send(c, s, n)
  /\ Worker!Housekeeping <=> WP!Housekeeping
  /\ Worker!SocketEvent <=> WP!SocketEvent
  /\ Worker!vars = WP!vars
<1> DEFINE Initially == Worker!Init <=> WP!Init
           Opens == \A c, s, i : Worker!OpenStream(c, s, i) <=> WP!OpenStream(c, s, i)
           Refuses == \A c, s : Worker!NotOwned(c, s) <=> WP!NotOwned(c, s)
           Beats == \A c, s : Worker!Heartbeat(c, s) <=> WP!Heartbeat(c, s)
           Closes == \A c, s : Worker!CloseStream(c, s) <=> WP!CloseStream(c, s)
           Throws == \A c, s : Worker!CloseThrows(c, s) <=> WP!CloseThrows(c, s)
           Sends == \A c, s, n : Worker!Send(c, s, n) <=> WP!Send(c, s, n)
           Keeps == Worker!Housekeeping <=> WP!Housekeeping
           Events == Worker!SocketEvent <=> WP!SocketEvent
           Vars == Worker!vars = WP!vars
<1> HIDE DEF Initially, Opens, Refuses, Beats, Closes, Throws, Sends, Keeps, Events, Vars
<1> SUFFICES /\ Initially /\ Opens /\ Refuses /\ Beats /\ Closes /\ Throws /\ Sends
             /\ Keeps /\ Events /\ Vars
  BY DEF Initially, Opens, Refuses, Beats, Closes, Throws, Sends, Keeps, Events, Vars
<1> USE DEF
      Worker!Cardinality, WP!Cardinality, Worker!registry, WP!registry, Worker!catalog,
      WP!catalog, Worker!timers, WP!timers, Worker!backlog, WP!backlog, Worker!physical,
      WP!physical, Worker!wire, WP!wire, Worker!state, WP!state, Worker!vars, WP!vars,
      Worker!Bound, WP!Bound, Worker!AtRest, WP!AtRest, Worker!Init, WP!Init, Worker!Post,
      WP!Post, Worker!PostPool, WP!PostPool, Worker!Reply, WP!Reply, Worker!OnlyPost,
      WP!OnlyPost, Worker!ControlFrame, WP!ControlFrame, Worker!DataFrame, WP!DataFrame,
      Worker!SumBytes, WP!SumBytes, Worker!IsMux, WP!IsMux, Worker!IsOpen, WP!IsOpen,
      Worker!Writable, WP!Writable, Worker!RetainAfterDetach, WP!RetainAfterDetach,
      Worker!Deliverable, WP!Deliverable, Worker!OwnedAfter, WP!OwnedAfter,
      Worker!Misleads, WP!Misleads, Worker!ServerReads, WP!ServerReads, Worker!HasRoom,
      WP!HasRoom, Worker!ScheduleFlush, WP!ScheduleFlush, Worker!SendFrame, WP!SendFrame,
      Worker!SendFrameThrows, WP!SendFrameThrows, Worker!FlushQueue, WP!FlushQueue,
      Worker!Register, WP!Register, Worker!ReleasePortStreams, WP!ReleasePortStreams,
      Worker!Unbind, WP!Unbind, Worker!Discarded, WP!Discarded, Worker!WithoutStream,
      WP!WithoutStream, Worker!DiscardedBytes, WP!DiscardedBytes,
      Worker!ScheduleIdleClose, WP!ScheduleIdleClose, Worker!Detach, WP!Detach,
      Worker!Retire, WP!Retire, Worker!ClosePool, WP!ClosePool, Worker!ProtocolViolation,
      WP!ProtocolViolation, Worker!Connect, WP!Connect, Worker!Reusable, WP!Reusable,
      Worker!PoolsBeside, WP!PoolsBeside, Worker!Unreachable, WP!Unreachable,
      Worker!AttachRefused, WP!AttachRefused, Worker!OpenRefused, WP!OpenRefused,
      Worker!RenewLease, WP!RenewLease, Worker!OpenAgain, WP!OpenAgain, Worker!Admitted,
      WP!Admitted, Worker!OpenWithoutPool, WP!OpenWithoutPool, Worker!OpenInNewPool,
      WP!OpenInNewPool, Worker!OpenInFullPool, WP!OpenInFullPool, Worker!JoinPool,
      WP!JoinPool, Worker!OpenAndConnect, WP!OpenAndConnect, Worker!OpenWhileConnecting,
      WP!OpenWhileConnecting, Worker!OpenOnOpenSocket, WP!OpenOnOpenSocket,
      Worker!OpenStream, WP!OpenStream, Worker!Owns, WP!Owns, Worker!NotOwned,
      WP!NotOwned, Worker!Heartbeat, WP!Heartbeat, Worker!Send, WP!Send,
      Worker!CloseStream, WP!CloseStream, Worker!CloseThrows, WP!CloseThrows, Worker!LeaseExpires, WP!LeaseExpires,
      Worker!BeginEviction, WP!BeginEviction, Worker!LeaseSweep, WP!LeaseSweep,
      Worker!CleanupPort, WP!CleanupPort, Worker!Evict, WP!Evict, Worker!IdleTimeout,
      WP!IdleTimeout, Worker!ReconnectWanted, WP!ReconnectWanted, Worker!ReconnectTimeout,
      WP!ReconnectTimeout, Worker!FlushTimeout, WP!FlushTimeout, Worker!OrphanOpens,
      WP!OrphanOpens, Worker!Opening, WP!Opening, Worker!NegotiationFails,
      WP!NegotiationFails, Worker!SocketOpens, WP!SocketOpens, Worker!Incoming,
      WP!Incoming, Worker!ServerMessage, WP!ServerMessage, Worker!ServerClosesStream,
      WP!ServerClosesStream, Worker!ServerBreaksProtocol, WP!ServerBreaksProtocol,
      Worker!ServerStartsClose, WP!ServerStartsClose, Worker!ShouldReconnect,
      WP!ShouldReconnect, Worker!ScheduleReconnect, WP!ScheduleReconnect, Worker!Discard,
      WP!Discard, Worker!SocketCloses, WP!SocketCloses, Worker!Drain, WP!Drain,
      Worker!Housekeeping, WP!Housekeeping, Worker!SocketEvent, WP!SocketEvent
<1>1. Initially
  BY DEF Initially
<1>2. Opens
  <2>1. \A c, s, i : Worker!OpenRefused(c, s, i) <=> WP!OpenRefused(c, s, i)
    OBVIOUS
  <2>2. \A c, s, i : Worker!OpenAgain(c, s, i) <=> WP!OpenAgain(c, s, i)
    OBVIOUS
  <2>3. \A c, s, i : Worker!OpenWithoutPool(c, s, i) <=> WP!OpenWithoutPool(c, s, i)
    OBVIOUS
  <2>4. \A c, s, i : Worker!OpenInFullPool(c, s, i) <=> WP!OpenInFullPool(c, s, i)
    OBVIOUS
  <2>5. \A c, s, i, p, k : Worker!OpenInNewPool(c, s, i, p, k) <=> WP!OpenInNewPool(c, s, i, p, k)
    OBVIOUS
  <2>6. \A c, s, i, p, k : Worker!OpenAndConnect(c, s, i, p, k) <=> WP!OpenAndConnect(c, s, i, p, k)
    OBVIOUS
  <2>7. \A c, s, i, p : Worker!OpenWhileConnecting(c, s, i, p) <=> WP!OpenWhileConnecting(c, s, i, p)
    OBVIOUS
  <2>8. \A c, s, i, p : Worker!OpenOnOpenSocket(c, s, i, p) <=> WP!OpenOnOpenSocket(c, s, i, p)
    OBVIOUS
  <2> HIDE DEF Worker!OpenRefused, WP!OpenRefused, Worker!OpenAgain,
              WP!OpenAgain, Worker!OpenWithoutPool, WP!OpenWithoutPool,
              Worker!OpenInFullPool, WP!OpenInFullPool,
              Worker!OpenInNewPool, WP!OpenInNewPool, Worker!OpenAndConnect,
              WP!OpenAndConnect, Worker!OpenWhileConnecting,
              WP!OpenWhileConnecting, Worker!OpenOnOpenSocket,
              WP!OpenOnOpenSocket
  <2> QED BY <2>1, <2>2, <2>3, <2>4, <2>5, <2>6, <2>7, <2>8 DEF Opens
<1>3. Refuses
  BY DEF Refuses
<1>4. Beats
  BY DEF Beats
<1>5. Closes
  BY DEF Closes
<1>6. Throws /\ Sends
  BY DEF Throws, Sends
<1>7. Keeps
  <2>1. \A s : Worker!LeaseExpires(s) <=> WP!LeaseExpires(s)
    OBVIOUS
  <2>2. \A s : Worker!Evict(s) <=> WP!Evict(s)
    OBVIOUS
  <2>3. Worker!LeaseSweep <=> WP!LeaseSweep
    OBVIOUS
  <2>4. \A c : Worker!CleanupPort(c) <=> WP!CleanupPort(c)
    OBVIOUS
  <2>5. \A p : Worker!IdleTimeout(p) <=> WP!IdleTimeout(p)
    OBVIOUS
  <2>6. \A p : Worker!ReconnectTimeout(p) <=> WP!ReconnectTimeout(p)
    OBVIOUS
  <2>7. \A p : Worker!FlushTimeout(p) <=> WP!FlushTimeout(p)
    OBVIOUS
  <2> HIDE DEF Worker!LeaseExpires, WP!LeaseExpires, Worker!Evict, WP!Evict,
              Worker!LeaseSweep, WP!LeaseSweep, Worker!CleanupPort,
              WP!CleanupPort, Worker!IdleTimeout, WP!IdleTimeout,
              Worker!ReconnectTimeout, WP!ReconnectTimeout,
              Worker!FlushTimeout, WP!FlushTimeout
  <2> QED BY <2>1, <2>2, <2>3, <2>4, <2>5, <2>6, <2>7 DEF Keeps
<1>8. Events
  <2>1. \A k : Worker!OrphanOpens(k) <=> WP!OrphanOpens(k)
    OBVIOUS
  <2>2. \A p, k : Worker!NegotiationFails(p, k) <=> WP!NegotiationFails(p, k)
    OBVIOUS
  <2>3. \A p, k : Worker!SocketOpens(p, k) <=> WP!SocketOpens(p, k)
    OBVIOUS
  <2>4. \A k, to : Worker!ServerMessage(k, to) <=> WP!ServerMessage(k, to)
    OBVIOUS
  <2>5. \A k, s : Worker!ServerClosesStream(k, s) <=> WP!ServerClosesStream(k, s)
    OBVIOUS
  <2>6. \A k : Worker!ServerBreaksProtocol(k) <=> WP!ServerBreaksProtocol(k)
    OBVIOUS
  <2>7. \A k : Worker!ServerStartsClose(k) <=> WP!ServerStartsClose(k)
    OBVIOUS
  <2>8. \A k, code, errored : Worker!SocketCloses(k, code, errored) <=> WP!SocketCloses(k, code, errored)
    OBVIOUS
  <2>9. \A k : Worker!Drain(k) <=> WP!Drain(k)
    OBVIOUS
  <2> HIDE DEF Worker!OrphanOpens, WP!OrphanOpens, Worker!NegotiationFails,
              WP!NegotiationFails, Worker!SocketOpens, WP!SocketOpens,
              Worker!ServerMessage, WP!ServerMessage,
              Worker!ServerClosesStream, WP!ServerClosesStream,
              Worker!ServerBreaksProtocol, WP!ServerBreaksProtocol,
              Worker!ServerStartsClose, WP!ServerStartsClose,
              Worker!SocketCloses, WP!SocketCloses, Worker!Drain, WP!Drain
  <2> QED BY <2>1, <2>2, <2>3, <2>4, <2>5, <2>6, <2>7, <2>8, <2>9 DEF Events
<1>9. Vars
  BY DEF Vars
<1> QED BY <1>1, <1>2, <1>3, <1>4, <1>5, <1>6, <1>7, <1>8, <1>9

\* Induction over sets of numbers, from SocketWorkerBacklogProofs.
LEMMA Induction ==
  \A S : 0 \in S /\ (\A n \in Nat : n \in S => n + 1 \in S) => \A n \in Nat : n \in S
BY WP!Induction, WorkerAssumption
DEF WP!Induction, WP!SocketWorkerAssumption, Worker!SocketWorkerAssumption

\* SetToSeq of a finite set is a sequence of its elements.
LEMMA SetToSeqType ==
  ASSUME NEW S, IsFiniteSet(S)
  PROVE  SetToSeq(S) \in Seq(S)
<1>1. /\ Cardinality(S) \in Nat
      /\ \E f \in [1..Cardinality(S) -> S] : \A a, b \in DOMAIN f : f[a] = f[b] => a = b
  BY WP!Numbering, WorkerAssumption
  DEF WP!Numbering, WP!SocketWorkerAssumption, Worker!SocketWorkerAssumption,
      Cardinality, WP!Cardinality, IsFiniteSet, WP!IsFiniteSet
<1>2. \E f \in [1..Cardinality(S) -> S] : IsInjective(f)
  BY <1>1 DEF IsInjective
<1>3. SetToSeq(S) \in [1..Cardinality(S) -> S]
  BY <1>2 DEF SetToSeq
<1> QED BY <1>1, <1>3

\* SetToSeq of one element.
LEMMA SetToSeqOfOne ==
  ASSUME NEW x
  PROVE  SetToSeq({x}) = <<x>>
<1>1. IsFiniteSet({x}) /\ Cardinality({x}) = 1
  BY WP!SingletonNumbered, WorkerAssumption
  DEF WP!SingletonNumbered, WP!SocketWorkerAssumption, Worker!SocketWorkerAssumption,
      Cardinality, WP!Cardinality, IsFiniteSet, WP!IsFiniteSet
<1>2. SetToSeq({x}) \in [1..1 -> {x}]
  <2> DEFINE f == [i \in 1..1 |-> x]
  <2>1. f \in [1..1 -> {x}] /\ IsInjective(f)
    BY DEF IsInjective
  <2> HIDE DEF f
  <2> QED BY <1>1, <2>1 DEF SetToSeq
<1>3. ASSUME NEW t \in [1..1 -> {x}] PROVE t = <<x>>
  OBVIOUS
<1> QED BY <1>2, <1>3

Flattens(f, seqs, n) ==
  f = [i \in 1..n |-> IF i = 1 THEN seqs[i] ELSE f[i - 1] \o seqs[i]]

\* The recursion of FlattenSeq has a solution.
LEMMA FlattenDefined ==
  ASSUME NEW T, NEW n \in Nat, NEW seqs \in [1..n -> Seq(T)]
  PROVE  \E f \in [1..n -> Seq(T)] : Flattens(f, seqs, n)
<1> DEFINE S == {m \in Nat : m <= n => \E f \in [1..m -> Seq(T)] : Flattens(f, seqs, m)}
<1>1. 0 \in S
  <2> DEFINE f == [i \in 1..0 |-> <<>>]
  <2>1. f \in [1..0 -> Seq(T)] /\ Flattens(f, seqs, 0)
    BY DEF Flattens
  <2> QED BY <2>1
<1>2. ASSUME NEW m \in Nat, m \in S PROVE m + 1 \in S
  <2> SUFFICES ASSUME m + 1 <= n
               PROVE  \E g \in [1..(m + 1) -> Seq(T)] : Flattens(g, seqs, m + 1)
    OBVIOUS
  <2>1. PICK f \in [1..m -> Seq(T)] : Flattens(f, seqs, m)
    BY <1>2
  <2> DEFINE last == IF m = 0 THEN seqs[1] ELSE f[m] \o seqs[m + 1]
             g == [i \in 1..(m + 1) |-> IF i = m + 1 THEN last ELSE f[i]]
  <2>2. last \in Seq(T)
    <3>1. m + 1 \in 1..n /\ seqs[m + 1] \in Seq(T)
      OBVIOUS
    <3>2. CASE m = 0
      BY <3>1, <3>2
    <3>3. CASE m # 0
      <4>1. f[m] \in Seq(T)
        BY <3>3
      <4> QED BY <3>1, <3>3, <4>1
    <3> QED BY <3>2, <3>3
  <2> HIDE DEF last
  <2>3. g \in [1..(m + 1) -> Seq(T)]
    BY <2>2
  <2>4. ASSUME NEW i \in 1..(m + 1)
        PROVE  g[i] = IF i = 1 THEN seqs[i] ELSE g[i - 1] \o seqs[i]
    <3>1. CASE i = m + 1
      <4>1. g[i] = last
        BY <3>1
      <4>2. m # 0 => g[i - 1] = f[m]
        BY <3>1
      <4> HIDE DEF g
      <4> QED BY <3>1, <4>1, <4>2 DEF last
    <3>2. CASE i # m + 1
      <4>1. i \in 1..m /\ g[i] = f[i] /\ (i # 1 => g[i - 1] = f[i - 1])
        BY <3>2
      <4>2. f[i] = IF i = 1 THEN seqs[i] ELSE f[i - 1] \o seqs[i]
        BY <2>1, <4>1 DEF Flattens
      <4> QED BY <4>1, <4>2
    <3> QED BY <3>1, <3>2
  <2> HIDE DEF g
  <2>5. g = [i \in 1..(m + 1) |-> IF i = 1 THEN seqs[i] ELSE g[i - 1] \o seqs[i]]
    BY <2>3, <2>4
  <2> QED BY <2>3, <2>5 DEF Flattens
<1> HIDE DEF S
<1>3. n \in S
  BY <1>1, <1>2, Induction
<1> QED BY <1>3 DEF S

\* FlattenSeq of sequences over T is a sequence over T.
LEMMA FlattenType ==
  ASSUME NEW T, NEW n \in Nat, NEW seqs \in [1..n -> Seq(T)]
  PROVE  FlattenSeq(seqs) \in Seq(T)
<1>4. Len(seqs) = n
  OBVIOUS
<1>5. CASE n = 0
  <2>1. seqs = <<>>
    BY <1>5
  <2> QED BY <1>4, <1>5, <2>1 DEF FlattenSeq
<1>6. CASE n # 0
  <2> DEFINE flatten == CHOOSE f : Flattens(f, seqs, n)
  <2>1. FlattenSeq(seqs) = flatten[n]
    BY <1>4, <1>6 DEF FlattenSeq, Flattens
  <2>2. Flattens(flatten, seqs, n)
    BY FlattenDefined
  <2> HIDE DEF flatten
  <2> DEFINE Typed == {m \in Nat : m + 1 <= n => flatten[m + 1] \in Seq(T)}
  <2>3. ASSUME NEW i \in 1..n
        PROVE  flatten[i] = IF i = 1 THEN seqs[i] ELSE flatten[i - 1] \o seqs[i]
    BY <2>2 DEF Flattens
  <2>4. 0 \in Typed
    BY <2>3
  <2>5. ASSUME NEW m \in Nat, m \in Typed PROVE m + 1 \in Typed
    <3> SUFFICES ASSUME m + 2 <= n PROVE flatten[m + 2] \in Seq(T)
      OBVIOUS
    <3>1. flatten[m + 1] \in Seq(T) /\ m + 2 \in 1..n /\ seqs[m + 2] \in Seq(T)
      BY <2>5
    <3>2. flatten[m + 2] = flatten[m + 1] \o seqs[m + 2]
      <4>1. m + 2 # 1 /\ (m + 2) - 1 = m + 1
        OBVIOUS
      <4> QED BY <2>3, <3>1, <4>1
    <3>3. flatten[m + 2] \in Seq(T)
      BY <3>1, <3>2
    <3> QED BY <3>3
  <2> HIDE DEF Typed
  <2>6. \A m \in Nat : m \in Typed
    BY <2>4, <2>5, Induction
  <2>7. n - 1 \in Nat /\ (n - 1) + 1 = n
    BY <1>6
  <2>8. n - 1 \in Typed
    BY <2>6, <2>7
  <2>9. flatten[n] \in Seq(T)
    BY <2>7, <2>8 DEF Typed
  <2> QED BY <2>1, <2>9
<1> QED BY <1>5, <1>6

\* FlattenSeq of two sequences.
LEMMA FlattenPair ==
  ASSUME NEW T, NEW seqs \in [1..2 -> Seq(T)]
  PROVE  FlattenSeq(seqs) = seqs[1] \o seqs[2]
<1> DEFINE flatten == CHOOSE f : Flattens(f, seqs, 2)
<1>1. Len(seqs) = 2
  OBVIOUS
<1>2. FlattenSeq(seqs) = flatten[2]
  BY <1>1 DEF FlattenSeq, Flattens
<1>3. Flattens(flatten, seqs, 2)
  BY FlattenDefined
<1> HIDE DEF flatten
<1>4. \A i \in 1..2 : flatten[i] = IF i = 1 THEN seqs[i] ELSE flatten[i - 1] \o seqs[i]
  BY <1>3 DEF Flattens
<1>5. flatten[1] = seqs[1] /\ flatten[2] = flatten[2 - 1] \o seqs[2] /\ 2 - 1 = 1
  BY <1>4
<1> QED BY <1>2, <1>5

-----------------------------------------------------------------------------
(* What a step puts on the way to a page. *)

Tidings == [event : {"open", "reconnecting", "message", "error", "close"},
            action : {"none"}, stream : StreamIds]
Replies == [event : {"ok", "fail"}, action : {"open_stream", "heartbeat", "send", "close_stream"},
            stream : StreamIds]

\* What has been posted for the streams S of port c: one event for each.
PostedFor(c) ==
  {m \in Tidings : \E i \in DOMAIN out' : /\ out'[i].event = m.event
                                          /\ m.stream \in out'[i].to
                                          /\ OwnerOf(m.stream) = c}

\* Finite sets, from SocketWorkerBacklogProofs.
LEMMA FiniteSets ==
  /\ \A S, T : IsFiniteSet(S) /\ T \subseteq S => IsFiniteSet(T)
  /\ \A S, f : IsFiniteSet(S) => IsFiniteSet({f[s] : s \in S})
BY WP!SubsetIsFinite, WP!ImageIsFinite, WorkerAssumption
DEF WP!SubsetIsFinite, WP!ImageIsFinite, WP!SocketWorkerAssumption,
    Worker!SocketWorkerAssumption, IsFiniteSet, WP!IsFiniteSet

\* What the ports deliver of a step's messages is what was posted to their streams.
LEMMA PostedType ==
  ASSUME out' \in WP!Messages, NEW c \in Ports
  PROVE  EventsFor(c) \in Seq(PostedFor(c))
<1> DEFINE S(i) == {s \in out'[i].to : OwnerOf(s) = c}
           E(i) == {Event(out'[i].event, s) : s \in S(i)}
           F(i) == IF out'[i].event \in {"ok", "fail"} THEN <<>> ELSE SetToSeq(E(i))
           seqs == [i \in DOMAIN out' |-> F(i)]
           T == [to : SUBSET StreamIds, event : WP!EventNames]
<1>1. /\ Len(out') \in Nat /\ DOMAIN out' = 1..Len(out')
      /\ \A i \in DOMAIN out' : /\ out'[i].to \subseteq StreamIds
                                /\ out'[i].event \in {"open", "reconnecting", "message", "error",
                                                      "close", "ok", "fail"}
  <2>1. out' \in Seq(T)
    BY DEF WP!Messages
  <2>2. \A m \in T : /\ m.to \subseteq StreamIds
                     /\ m.event \in {"open", "reconnecting", "message", "error",
                                     "close", "ok", "fail"}
    BY DEF WP!EventNames
  <2> HIDE DEF T
  <2> QED BY <2>1, <2>2
<1>2. ASSUME NEW i \in DOMAIN out' PROVE F(i) \in Seq(PostedFor(c))
  <2>1. CASE out'[i].event \in {"ok", "fail"}
    BY <2>1
  <2>2. CASE out'[i].event \notin {"ok", "fail"}
    <3>1. S(i) \subseteq StreamIds
      BY <1>1, <1>2
    <3>2. IsFiniteSet(E(i))
      <4> DEFINE f == [s \in S(i) |-> Event(out'[i].event, s)]
      <4>1. IsFiniteSet(S(i))
        BY <3>1, SharedSocketClientAssumption, FiniteSets
      <4>2. E(i) = {f[s] : s \in S(i)}
        OBVIOUS
      <4> HIDE DEF f, E, S
      <4> QED BY <4>1, <4>2, FiniteSets
    <3>3. E(i) \subseteq PostedFor(c)
      BY <1>1, <1>2, <2>2, <3>1 DEF PostedFor, Tidings, Event
    <3> HIDE DEF E
    <3>4. SetToSeq(E(i)) \in Seq(E(i))
      BY <3>2, SetToSeqType
    <3>5. SetToSeq(E(i)) \in Seq(PostedFor(c))
      BY <3>3, <3>4
    <3> QED BY <2>2, <3>5
  <2> QED BY <2>1, <2>2
<1> HIDE DEF F
<1>3. seqs \in [1..Len(out') -> Seq(PostedFor(c))]
  BY <1>1, <1>2
<1>4. EventsFor(c) = FlattenSeq(seqs)
  BY DEF EventsFor, F
<1> HIDE DEF seqs
<1> QED BY <1>1, <1>3, <1>4, FlattenType

-----------------------------------------------------------------------------
(* What holds of each port with its page: the inductive invariant. *)

Channels ==
  \A c \in Ports : Len(toWorker[c]) \in Nat /\ Len(toPage[c]) \in Nat

Asks(c, i, action) ==
  toWorker[c][i].action = action /\ toWorker[c][i].stream = currentStreamId[c]
Wants(c) == \E i \in 1..Len(toWorker[c]) : Asks(c, i, "open_stream")

\* Messages for the page about its stream: those that end the wait for the stream, and
\* those that say that the worker does not have it.
About(c, i) == toPage[c][i].stream = currentStreamId[c]
Clears(c, i) ==
  /\ About(c, i)
  /\ toPage[c][i].action = "open_stream" \/ toPage[c][i].event \in {"open", "close"}
HeartbeatFailed(c, i) ==
  About(c, i) /\ toPage[c][i].event = "fail" /\ toPage[c][i].action = "heartbeat"
ToldClosed(c, i) ==
  /\ About(c, i)
  /\ \/ toPage[c][i].event = "close"
     \/ toPage[c][i].event = "fail" /\ toPage[c][i].action = "close_stream"

\* A stream that the page has left is being closed, after all that asks for it.
Leaving(c) ==
  \A s \in StreamIds :
    /\ s # currentStreamId[c] \/ suspended[c]
    /\ \/ portOf[s] = c
       \/ \E i \in 1..Len(toWorker[c]) :
            toWorker[c][i].action = "open_stream" /\ toWorker[c][i].stream = s
    => \E i \in 1..Len(toWorker[c]) :
         /\ toWorker[c][i].action = "close_stream" /\ toWorker[c][i].stream = s
         /\ \A j \in 1..Len(toWorker[c]) :
              j > i => ~(toWorker[c][j].action = "open_stream" /\ toWorker[c][j].stream = s)

\* The stream is closed only for a page that does not use it.
Meant(c) ==
  /\ \A i \in 1..Len(toWorker[c]) : Asks(c, i, "close_stream") => ~InUse(c)
  /\ \A i \in 1..Len(toPage[c]) :
       About(c, i) /\ toPage[c][i].action = "close_stream" => ~InUse(c)

\* A stream is asked for once, and never again after it is closed.
OpenIsNew(c) ==
  \A i \in 1..Len(toWorker[c]) :
    Asks(c, i, "open_stream") =>
      /\ portOf[currentStreamId[c]] # c
      /\ \A j \in 1..Len(toWorker[c]) : Asks(c, j, "open_stream") => i = j
CloseIsLast(c) ==
  \A i, j \in 1..Len(toWorker[c]) :
    Asks(c, i, "close_stream") /\ i < j => ~Asks(c, j, "open_stream")

\* While the request to open is under way the page waits, and hears nothing that would
\* end the wait.
Waiting(c) ==
  InUse(c) /\ Wants(c) =>
    opening[c] /\ \A i \in 1..Len(toPage[c]) : ~Clears(c, i)

\* A failed heartbeat of a page that does not wait is the last it hears of its stream.
Forgotten(c) ==
  \A j \in 1..Len(toPage[c]) :
    InUse(c) /\ HeartbeatFailed(c, j) =>
      \/ /\ portOf[currentStreamId[c]] # c /\ ~Wants(c)
         /\ \A i \in 1..Len(toPage[c]) : j < i => ~Clears(c, i)
      \/ opening[c] /\ \A i \in 1..Len(toPage[c]) : i < j => ~Clears(c, i)

\* What a page will hear of the end of its stream is true.
ClosedIsTrue(c) ==
  \A j \in 1..Len(toPage[c]) :
    ToldClosed(c, j) => portOf[currentStreamId[c]] # c /\ ~Wants(c)

\* The wait ends.
AnswerComes(c) ==
  opening[c] /\ ~finalized[c] =>
    \/ Wants(c)
    \/ \E i \in 1..Len(toPage[c]) : About(c, i) /\ toPage[c][i].action = "open_stream"

PortInv(c) ==
  /\ Leaving(c) /\ Meant(c) /\ OpenIsNew(c) /\ CloseIsLast(c)
  /\ Waiting(c) /\ Forgotten(c) /\ ClosedIsTrue(c) /\ AnswerComes(c)

\* No stream is of two pages.
HeldBy(c, s) ==
  \/ currentStreamId[c] = s
  \/ portOf[s] = c
  \/ \E i \in 1..Len(toWorker[c]) : toWorker[c][i].stream = s
Disjoint ==
  \A c, d \in Ports, s \in StreamIds : HeldBy(c, s) /\ HeldBy(d, s) => c = d

-----------------------------------------------------------------------------
(* What a step does to a port. *)

\* Sequence t is s with elements of N after it; t is s without its head.
Extended(t, s, N) ==
  /\ Len(s) <= Len(t)
  /\ \A i \in 1..Len(t) : IF i <= Len(s) THEN t[i] = s[i] ELSE t[i] \in N
Shortened(t, s) ==
  /\ Len(s) = Len(t) + 1
  /\ \A i \in 1..Len(t) : t[i] = s[i + 1]

SameClient(c) ==
  /\ currentStreamId'[c] = currentStreamId[c]
  /\ opening'[c] = opening[c] /\ suspended'[c] = suspended[c]
  /\ manualClose'[c] = manualClose[c] /\ finalized'[c] = finalized[c]

\* The page gets messages of N, or, once finalized, none.
Gets(c, N) ==
  \/ finalized[c] /\ Len(toPage'[c]) = 0
  \/ Extended(toPage'[c], toPage[c], N)

\* The worker or another page takes a step that handles no request of port c.
OthersNews(c) ==
  {m \in Tidings : portOf[m.stream] = c /\ (m.event = "close" => portOf'[m.stream] # c)}
Unserved(c) ==
  /\ SameClient(c)
  /\ toWorker'[c] = toWorker[c]
  /\ \A t \in StreamIds : portOf'[t] = c => portOf[t] = c
  /\ Gets(c, OthersNews(c))

\* The worker handles the next request of port c.
ServedNews(c, r) ==
  {m \in Tidings \cup Replies :
     /\ m.stream = r.stream
     /\ m.action \in {"none", r.action}
     /\ m.action = "none" => \/ m.event = "open" /\ r.action = "open_stream"
                             \/ m.event = "close" /\ r.action = "close_stream"
     /\ m.event = "fail" /\ r.action \in {"heartbeat", "close_stream"}
          => portOf'[r.stream] # c}
Served(c) ==
  LET r == toWorker[c][1]
  IN  /\ SameClient(c)
      /\ Shortened(toWorker'[c], toWorker[c])
      /\ \A t \in StreamIds :
           portOf'[t] = c => portOf[t] = c \/ (t = r.stream /\ r.action = "open_stream")
      /\ r.action = "close_stream" => portOf'[r.stream] # c
      /\ Gets(c, ServedNews(c, r))
      /\ ~finalized[c] => /\ Len(toPage'[c]) > 0
                          /\ toPage'[c][Len(toPage'[c])].action = r.action
                          /\ toPage'[c][Len(toPage'[c])].stream = r.stream

\* The page takes a step in which it does not ask for a stream.
PostedBy(c) ==
  {r \in Requests :
     /\ r.stream = currentStreamId[c] /\ r.action # "open_stream"
     /\ r.action = "close_stream" => ~InUse(c)'}
Posts(c) ==
  /\ currentStreamId'[c] = currentStreamId[c]
  /\ portOf' = portOf
  /\ Extended(toWorker'[c], toWorker[c], PostedBy(c))
  /\ InUse(c)' => InUse(c)
  /\ \/ suspended'[c] = suspended[c]
     \/ /\ Len(toWorker'[c]) = Len(toWorker[c]) + 1
        /\ Asks(c, Len(toWorker[c]), "close_stream")'
  /\ \/ toPage'[c] = toPage[c] /\ opening'[c] = opening[c] /\ finalized'[c] = finalized[c]
     \/ finalized'[c] /\ Len(toPage'[c]) = 0
     \/ /\ Shortened(toPage'[c], toPage[c])
        /\ finalized'[c] = finalized[c]
        /\ \/ /\ opening'[c] = opening[c]
              /\ ~(About(c, 1) /\ toPage[c][1].action = "open_stream")
           \/ ~opening'[c] /\ (Clears(c, 1) \/ ~InUse(c)')

\* The page asks for its stream again after a failed heartbeat.
Reopens(c) ==
  /\ currentStreamId'[c] = currentStreamId[c]
  /\ suspended'[c] = suspended[c] /\ manualClose'[c] = manualClose[c]
  /\ finalized'[c] = finalized[c]
  /\ portOf' = portOf
  /\ InUse(c) /\ ~opening[c] /\ opening'[c] = TRUE
  /\ HeartbeatFailed(c, 1)
  /\ Shortened(toPage'[c], toPage[c])
  /\ Len(toWorker'[c]) = Len(toWorker[c]) + 1
  /\ Extended(toWorker'[c], toWorker[c], {Request("open_stream", currentStreamId[c])})

\* The page comes back with the stream s.
Shows(c, s) ==
  /\ currentStreamId'[c] = s /\ opening'[c] = TRUE
  /\ suspended[c] /\ suspended'[c] = FALSE
  /\ manualClose'[c] = manualClose[c] /\ finalized'[c] = finalized[c]
  /\ portOf' = portOf
  /\ toPage'[c] = toPage[c]
  /\ Len(toWorker'[c]) = Len(toWorker[c]) + 1
  /\ Extended(toWorker'[c], toWorker[c], {Request("open_stream", s)})
  /\ \A d \in Ports : ~HeldBy(d, s)
  /\ \A i \in 1..Len(toPage[c]) : toPage[c][i].stream # s

-----------------------------------------------------------------------------
(* Each of them keeps the invariant of the port. *)

\* A step of the worker's own, or of another page.
LEMMA UnservedKeeps ==
  ASSUME Channels, Channels', NEW c \in Ports, currentStreamId[c] \in StreamIds,
         PortInv(c), Unserved(c)
  PROVE  PortInv(c)'
<1>0. /\ Len(toWorker[c]) \in Nat /\ Len(toPage[c]) \in Nat /\ Len(toPage'[c]) \in Nat
      /\ SameClient(c) /\ toWorker'[c] = toWorker[c]
      /\ \A t \in StreamIds : portOf'[t] = c => portOf[t] = c
      /\ (InUse(c)' <=> InUse(c)) /\ (Wants(c)' <=> Wants(c))
      /\ \A i \in 1..Len(toWorker[c]) : \A action : Asks(c, i, action)' <=> Asks(c, i, action)
  BY DEF Channels, Unserved, SameClient, InUse, Wants, Asks
<1>1. ASSUME NEW i \in 1..Len(toPage'[c])
      PROVE  \/ i \in 1..Len(toPage[c]) /\ toPage'[c][i] = toPage[c][i]
             \/ i > Len(toPage[c]) /\ toPage'[c][i] \in OthersNews(c)
  BY <1>0, <1>1 DEF Unserved, Gets, Extended
<1>2. ASSUME NEW i \in 1..Len(toPage[c]), ~finalized[c]
      PROVE  i \in 1..Len(toPage'[c]) /\ toPage'[c][i] = toPage[c][i]
  BY <1>0, <1>2 DEF Unserved, Gets, Extended
<1>3. ASSUME NEW m \in OthersNews(c)
      PROVE  /\ m.action = "none" /\ m.event # "fail" /\ portOf[m.stream] = c
             /\ m.event = "close" => portOf'[m.stream] # c
  BY DEF OthersNews, Tidings
<1>4. Leaving(c)'
  BY <1>0 DEF PortInv, Leaving, SameClient
<1>5. Meant(c)'
  BY <1>0, <1>1, <1>3 DEF PortInv, Meant, SameClient, About
<1>6. OpenIsNew(c)' /\ CloseIsLast(c)'
  BY <1>0 DEF PortInv, OpenIsNew, CloseIsLast, SameClient
<1>7. Wants(c) => portOf[currentStreamId[c]] # c
  BY DEF PortInv, OpenIsNew, Wants
<1>8. Waiting(c)'
  BY <1>0, <1>1, <1>3, <1>7 DEF PortInv, Waiting, SameClient, Clears, About
<1>9. Forgotten(c)'
  <2>1. ASSUME NEW i \in 1..Len(toPage'[c]), Clears(c, i)'
        PROVE  \/ i \in 1..Len(toPage[c]) /\ Clears(c, i)
               \/ i > Len(toPage[c]) /\ portOf[currentStreamId[c]] = c
    BY <1>0, <1>1, <1>3, <2>1 DEF SameClient, Clears, About
  <2>2. ASSUME NEW j \in 1..Len(toPage'[c]), HeartbeatFailed(c, j)'
        PROVE  j \in 1..Len(toPage[c]) /\ HeartbeatFailed(c, j)
    BY <1>0, <1>1, <1>3, <2>2 DEF SameClient, HeartbeatFailed, About
  <2> SUFFICES ASSUME NEW j \in 1..Len(toPage'[c]), InUse(c)', HeartbeatFailed(c, j)'
               PROVE  \/ /\ portOf'[currentStreamId'[c]] # c /\ ~Wants(c)'
                         /\ \A i \in 1..Len(toPage'[c]) : j < i => ~Clears(c, i)'
                      \/ opening'[c] /\ \A i \in 1..Len(toPage'[c]) : i < j => ~Clears(c, i)'
    BY DEF Forgotten
  <2>3. j \in 1..Len(toPage[c]) /\ HeartbeatFailed(c, j) /\ InUse(c)
    BY <1>0, <2>2
  <2>4. CASE /\ portOf[currentStreamId[c]] # c /\ ~Wants(c)
             /\ \A i \in 1..Len(toPage[c]) : j < i => ~Clears(c, i)
    BY <1>0, <2>1, <2>4 DEF SameClient
  <2>5. CASE opening[c] /\ \A i \in 1..Len(toPage[c]) : i < j => ~Clears(c, i)
    BY <1>0, <2>1, <2>3, <2>5 DEF SameClient
  <2> QED BY <2>3, <2>4, <2>5 DEF PortInv, Forgotten
<1>10. ClosedIsTrue(c)'
  BY <1>0, <1>1, <1>3, <1>7 DEF PortInv, ClosedIsTrue, SameClient, About, ToldClosed
<1>11. AnswerComes(c)'
  BY <1>0, <1>2 DEF PortInv, AnswerComes, SameClient, About
<1> QED BY <1>4, <1>5, <1>6, <1>8, <1>9, <1>10, <1>11 DEF PortInv

\* The worker handles the port's next request.
LEMMA ServedKeeps ==
  ASSUME Channels, Channels', NEW c \in Ports, currentStreamId[c] \in StreamIds,
         PortInv(c), Served(c)
  PROVE  PortInv(c)'
<1> DEFINE r == toWorker[c][1]
           mine == r.stream = currentStreamId[c]
<1>0. /\ Len(toWorker[c]) \in Nat /\ Len(toWorker'[c]) \in Nat
      /\ Len(toPage[c]) \in Nat /\ Len(toPage'[c]) \in Nat
      /\ Len(toWorker[c]) = Len(toWorker'[c]) + 1
      /\ SameClient(c) /\ (InUse(c)' <=> InUse(c))
  BY DEF Channels, Served, Shortened, SameClient, InUse
<1>r. /\ \A t \in StreamIds :
           portOf'[t] = c => portOf[t] = c \/ (t = r.stream /\ r.action = "open_stream")
      /\ r.action = "close_stream" => portOf'[r.stream] # c
  BY DEF Served
<1>q. ASSUME NEW i \in 1..Len(toWorker'[c])
      PROVE  i + 1 \in 1..Len(toWorker[c]) /\ toWorker'[c][i] = toWorker[c][i + 1]
  BY <1>0 DEF Served, Shortened
<1>a. ASSUME NEW i \in 1..Len(toWorker'[c]), NEW action, Asks(c, i, action)'
      PROVE  i + 1 \in 1..Len(toWorker[c]) /\ Asks(c, i + 1, action)
  BY <1>0, <1>q, <1>a DEF Asks, SameClient
<1>h. 1 \in 1..Len(toWorker[c]) /\ (mine => Asks(c, 1, r.action))
  BY <1>0 DEF Asks
<1> HIDE DEF r
<1>1. ASSUME NEW i \in 1..Len(toPage'[c])
      PROVE  \/ i \in 1..Len(toPage[c]) /\ toPage'[c][i] = toPage[c][i]
             \/ i > Len(toPage[c]) /\ toPage'[c][i] \in ServedNews(c, r)
  BY <1>0, <1>1 DEF Served, Gets, Extended, r
<1>2. ASSUME NEW i \in 1..Len(toPage[c]), ~finalized[c]
      PROVE  i \in 1..Len(toPage'[c]) /\ toPage'[c][i] = toPage[c][i]
  BY <1>0, <1>2 DEF Served, Gets, Extended
<1>3. ASSUME NEW m \in ServedNews(c, r)
      PROVE  /\ m.stream = r.stream /\ m.action \in {"none", r.action}
             /\ m.event \in {"open", "close"} =>
                  /\ m.event = "open" => r.action = "open_stream"
                  /\ m.event = "close" => r.action = "close_stream"
             /\ m.action = "open_stream" => r.action = "open_stream"
             /\ m.action = "close_stream" => r.action = "close_stream"
             /\ m.event = "fail" => m.action = r.action
             /\ m.event = "fail" /\ r.action \in {"heartbeat", "close_stream"}
                  => portOf'[r.stream] # c
  BY DEF ServedNews, Tidings, Replies
<1>4. Leaving(c)'
  <2> SUFFICES
        ASSUME NEW s \in StreamIds, s # currentStreamId'[c] \/ suspended'[c],
               \/ portOf'[s] = c
               \/ \E i \in 1..Len(toWorker'[c]) : /\ toWorker'[c][i].action = "open_stream"
                                                  /\ toWorker'[c][i].stream = s
        PROVE  \E i \in 1..Len(toWorker'[c]) :
                 /\ toWorker'[c][i].action = "close_stream" /\ toWorker'[c][i].stream = s
                 /\ \A j \in 1..Len(toWorker'[c]) :
                      j > i => ~(/\ toWorker'[c][j].action = "open_stream"
                                 /\ toWorker'[c][j].stream = s)
    BY DEF Leaving
  <2>1. \/ portOf[s] = c
        \/ \E i \in 1..Len(toWorker[c]) :
             toWorker[c][i].action = "open_stream" /\ toWorker[c][i].stream = s
    BY <1>q, <1>h, <1>r DEF r
  <2>2. PICK i \in 1..Len(toWorker[c]) :
         /\ toWorker[c][i].action = "close_stream" /\ toWorker[c][i].stream = s
         /\ \A j \in 1..Len(toWorker[c]) :
              j > i => ~(toWorker[c][j].action = "open_stream" /\ toWorker[c][j].stream = s)
    BY <1>0, <2>1 DEF PortInv, Leaving, SameClient
  <2>3. CASE i = 1
    <3>1. portOf'[s] # c
      BY <1>r, <2>2, <2>3 DEF r
    <3>2. PICK j \in 1..Len(toWorker'[c]) : /\ toWorker'[c][j].action = "open_stream"
                                            /\ toWorker'[c][j].stream = s
      BY <3>1
    <3>3. j + 1 \in 1..Len(toWorker[c]) /\ j + 1 > i /\ toWorker'[c][j] = toWorker[c][j + 1]
      BY <1>q, <2>3
    <3> QED BY <2>2, <3>2, <3>3
  <2>4. CASE i # 1
    <3>1. i - 1 \in 1..Len(toWorker'[c]) /\ (i - 1) + 1 = i
      BY <1>0, <2>4
    <3>2. toWorker'[c][i - 1] = toWorker[c][i]
      BY <1>q, <3>1
    <3>3. ASSUME NEW j \in 1..Len(toWorker'[c]), j > i - 1
          PROVE  ~(toWorker'[c][j].action = "open_stream" /\ toWorker'[c][j].stream = s)
      <4>1. j + 1 \in 1..Len(toWorker[c]) /\ toWorker'[c][j] = toWorker[c][j + 1]
        BY <1>q
      <4>2. j + 1 > i
        BY <3>3
      <4> QED BY <2>2, <4>1, <4>2
    <3> QED BY <2>2, <3>1, <3>2, <3>3
  <2> QED BY <2>3, <2>4
<1>5. Meant(c)'
  BY <1>0, <1>1, <1>3, <1>a, <1>h DEF PortInv, Meant, SameClient, About
<1>6. OpenIsNew(c)'
  <2> SUFFICES ASSUME NEW i \in 1..Len(toWorker'[c]), Asks(c, i, "open_stream")'
               PROVE  /\ portOf'[currentStreamId'[c]] # c
                      /\ \A j \in 1..Len(toWorker'[c]) : Asks(c, j, "open_stream")' => i = j
    BY DEF OpenIsNew
  <2>1. i + 1 \in 1..Len(toWorker[c]) /\ Asks(c, i + 1, "open_stream")
    BY <1>a
  <2>2. /\ portOf[currentStreamId[c]] # c
        /\ \A j \in 1..Len(toWorker[c]) : Asks(c, j, "open_stream") => i + 1 = j
    BY <2>1 DEF PortInv, OpenIsNew
  <2>3. ~(mine /\ r.action = "open_stream")
    BY <1>h, <2>2
  <2>4. portOf'[currentStreamId'[c]] # c
    BY <1>0, <1>r, <2>2, <2>3 DEF SameClient
  <2>5. ASSUME NEW j \in 1..Len(toWorker'[c]), Asks(c, j, "open_stream")' PROVE i = j
    <3>1. j + 1 \in 1..Len(toWorker[c]) /\ Asks(c, j + 1, "open_stream")
      BY <1>a, <2>5
    <3>2. i + 1 = j + 1
      BY <2>2, <3>1
    <3> QED BY <3>2
  <2> QED BY <2>4, <2>5
<1>7. CloseIsLast(c)'
  <2> SUFFICES ASSUME NEW i \in 1..Len(toWorker'[c]), NEW j \in 1..Len(toWorker'[c]),
                      Asks(c, i, "close_stream")', i < j
               PROVE  ~Asks(c, j, "open_stream")'
    BY DEF CloseIsLast
  <2> QED BY <1>a DEF PortInv, CloseIsLast
<1>8. Wants(c)' => Wants(c)
  BY <1>a DEF Wants
<1>9. mine /\ r.action \in {"open_stream", "close_stream"} => ~Wants(c)'
  <2> SUFFICES ASSUME mine, r.action \in {"open_stream", "close_stream"},
                      NEW i \in 1..Len(toWorker'[c]), Asks(c, i, "open_stream")'
               PROVE  FALSE
    BY DEF Wants
  <2>1. i + 1 \in 1..Len(toWorker[c]) /\ Asks(c, i + 1, "open_stream")
    BY <1>a
  <2>2. Asks(c, 1, r.action)
    BY <1>h
  <2>3. CASE r.action = "open_stream"
    BY <1>h, <2>1, <2>2, <2>3 DEF PortInv, OpenIsNew
  <2>4. CASE r.action = "close_stream"
    BY <1>h, <2>1, <2>2, <2>4 DEF PortInv, CloseIsLast
  <2> QED BY <2>3, <2>4
<1>10. mine /\ r.action = "open_stream" => Wants(c)
  BY <1>h DEF Wants
<1>11. ASSUME NEW i \in 1..Len(toPage'[c]), Clears(c, i)'
       PROVE  \/ i \in 1..Len(toPage[c]) /\ Clears(c, i)
              \/ i > Len(toPage[c]) /\ mine /\ r.action \in {"open_stream", "close_stream"}
  BY <1>0, <1>1, <1>3, <1>11 DEF SameClient, Clears, About
<1>12. Waiting(c)'
  BY <1>0, <1>8, <1>9, <1>11 DEF PortInv, Waiting, SameClient
<1>13. ASSUME NEW i \in 1..Len(toPage'[c]), HeartbeatFailed(c, i)'
       PROVE  \/ i \in 1..Len(toPage[c]) /\ HeartbeatFailed(c, i)
              \/ /\ i > Len(toPage[c]) /\ mine /\ r.action = "heartbeat"
                 /\ portOf'[currentStreamId[c]] # c
  BY <1>0, <1>1, <1>3, <1>13 DEF SameClient, HeartbeatFailed, About
<1>14. Forgotten(c)'
  <2> SUFFICES ASSUME NEW j \in 1..Len(toPage'[c]), InUse(c)', HeartbeatFailed(c, j)'
               PROVE  \/ /\ portOf'[currentStreamId'[c]] # c /\ ~Wants(c)'
                         /\ \A i \in 1..Len(toPage'[c]) : j < i => ~Clears(c, i)'
                      \/ opening'[c] /\ \A i \in 1..Len(toPage'[c]) : i < j => ~Clears(c, i)'
    BY DEF Forgotten
  <2>0. /\ currentStreamId'[c] = currentStreamId[c] /\ opening'[c] = opening[c] /\ InUse(c)
    BY <1>0 DEF SameClient
  <2>1. CASE j \in 1..Len(toPage[c]) /\ HeartbeatFailed(c, j)
    <3>1. CASE /\ portOf[currentStreamId[c]] # c /\ ~Wants(c)
               /\ \A i \in 1..Len(toPage[c]) : j < i => ~Clears(c, i)
      <4>1. ~(mine /\ r.action = "open_stream")
        BY <1>10, <3>1
      <4>2. portOf'[currentStreamId[c]] # c
        BY <1>r, <3>1, <4>1
      <4>3. CASE ~(mine /\ r.action = "close_stream")
        BY <1>8, <1>11, <2>0, <3>1, <4>1, <4>2, <4>3
      <4>4. CASE mine /\ r.action = "close_stream"
        BY <1>h, <2>0, <4>4 DEF PortInv, Meant
      <4> QED BY <4>3, <4>4
    <3>2. CASE opening[c] /\ \A i \in 1..Len(toPage[c]) : i < j => ~Clears(c, i)
      BY <1>0, <1>11, <2>0, <2>1, <3>2
    <3> QED BY <2>0, <2>1, <3>1, <3>2 DEF PortInv, Forgotten
  <2>2. CASE /\ j > Len(toPage[c]) /\ mine /\ r.action = "heartbeat"
             /\ portOf'[currentStreamId[c]] # c
    <3>1. \A i \in 1..Len(toPage'[c]) : Clears(c, i)' => i \in 1..Len(toPage[c]) /\ Clears(c, i)
      BY <1>11, <2>2
    <3>2. CASE Wants(c)
      BY <2>0, <3>1, <3>2 DEF PortInv, Waiting
    <3>3. CASE ~Wants(c)
      BY <1>0, <1>8, <2>0, <2>2, <3>1, <3>3
    <3> QED BY <3>2, <3>3
  <2> QED BY <1>13, <2>1, <2>2
<1>15. ClosedIsTrue(c)'
  <2> SUFFICES ASSUME NEW j \in 1..Len(toPage'[c]), ToldClosed(c, j)'
               PROVE  portOf'[currentStreamId'[c]] # c /\ ~Wants(c)'
    BY DEF ClosedIsTrue
  <2>1. \/ j \in 1..Len(toPage[c]) /\ ToldClosed(c, j)
        \/ mine /\ r.action = "close_stream"
    BY <1>0, <1>1, <1>3 DEF SameClient, ToldClosed, About
  <2>2. CASE j \in 1..Len(toPage[c]) /\ ToldClosed(c, j)
    <3>1. portOf[currentStreamId[c]] # c /\ ~Wants(c)
      BY <2>2 DEF PortInv, ClosedIsTrue
    <3> QED BY <1>0, <1>r, <1>8, <1>10, <3>1 DEF SameClient
  <2>3. CASE mine /\ r.action = "close_stream"
    BY <1>0, <1>r, <1>9, <2>3 DEF SameClient
  <2> QED BY <2>1, <2>2, <2>3
<1>16. AnswerComes(c)'
  <2> SUFFICES ASSUME opening[c], ~finalized[c], ~Wants(c)'
               PROVE  \E i \in 1..Len(toPage'[c]) : /\ About(c, i)'
                                                    /\ toPage'[c][i].action = "open_stream"
    BY <1>0 DEF AnswerComes, SameClient
  <2>1. CASE Wants(c)
    <3>1. PICK i \in 1..Len(toWorker[c]) : Asks(c, i, "open_stream")
      BY <2>1 DEF Wants
    <3>2. i = 1
      <4> SUFFICES ASSUME i # 1 PROVE FALSE
        OBVIOUS
      <4>1. i - 1 \in 1..Len(toWorker'[c]) /\ (i - 1) + 1 = i
        BY <1>0
      <4>2. toWorker'[c][i - 1] = toWorker[c][i]
        BY <1>q, <4>1
      <4> QED BY <1>0, <3>1, <4>1, <4>2 DEF Wants, Asks, SameClient
    <3>3. mine /\ r.action = "open_stream"
      BY <3>1, <3>2 DEF Asks, r
    <3>4. /\ Len(toPage'[c]) > 0
          /\ toPage'[c][Len(toPage'[c])].action = r.action
          /\ toPage'[c][Len(toPage'[c])].stream = r.stream
      BY DEF Served, r
    <3>5. Len(toPage'[c]) \in 1..Len(toPage'[c])
      BY <1>0, <3>4
    <3> QED BY <1>0, <3>3, <3>4, <3>5 DEF About, SameClient
  <2>2. CASE ~Wants(c)
    BY <1>0, <1>2, <2>2 DEF PortInv, AnswerComes, About, SameClient
  <2> QED BY <2>1, <2>2
<1> QED
  BY <1>4, <1>5, <1>6, <1>7, <1>12, <1>14, <1>15, <1>16 DEF PortInv

\* The page posts or handles a message, and asks for no stream.
LEMMA PostsKeeps ==
  ASSUME Channels, Channels', NEW c \in Ports, currentStreamId[c] \in StreamIds,
         PortInv(c), Posts(c)
  PROVE  PortInv(c)'
<1>0. /\ Len(toWorker[c]) \in Nat /\ Len(toWorker'[c]) \in Nat
      /\ Len(toPage[c]) \in Nat /\ Len(toPage'[c]) \in Nat
      /\ Len(toWorker[c]) <= Len(toWorker'[c])
      /\ currentStreamId'[c] = currentStreamId[c] /\ portOf' = portOf
      /\ InUse(c)' => InUse(c)
      /\ finalized'[c] => ~InUse(c)'
  BY DEF Channels, Posts, Extended, InUse
<1>1. ASSUME NEW i \in 1..Len(toWorker'[c])
      PROVE  \/ i \in 1..Len(toWorker[c]) /\ toWorker'[c][i] = toWorker[c][i]
             \/ /\ i > Len(toWorker[c])
                /\ toWorker'[c][i].action # "open_stream"
                /\ toWorker'[c][i].action = "close_stream" => ~InUse(c)'
  BY <1>0, <1>1 DEF Posts, Extended, PostedBy
<1>2. ASSUME NEW i \in 1..Len(toWorker[c])
      PROVE  i \in 1..Len(toWorker'[c]) /\ toWorker'[c][i] = toWorker[c][i]
  BY <1>0, <1>2 DEF Posts, Extended
<1>3. ASSUME NEW i \in 1..Len(toWorker'[c]), Asks(c, i, "open_stream")'
      PROVE  i \in 1..Len(toWorker[c]) /\ Asks(c, i, "open_stream")
  BY <1>0, <1>1, <1>3 DEF Asks
<1>4. Wants(c)' <=> Wants(c)
  BY <1>0, <1>2, <1>3 DEF Wants, Asks
<1>p. \/ /\ toPage'[c] = toPage[c] /\ opening'[c] = opening[c]
         /\ finalized'[c] = finalized[c]
      \/ finalized'[c] /\ Len(toPage'[c]) = 0
      \/ /\ Shortened(toPage'[c], toPage[c])
         /\ finalized'[c] = finalized[c]
         /\ \/ /\ opening'[c] = opening[c]
               /\ ~(About(c, 1) /\ toPage[c][1].action = "open_stream")
            \/ ~opening'[c] /\ (Clears(c, 1) \/ ~InUse(c)')
  BY DEF Posts
<1>5. Leaving(c)'
  <2> SUFFICES
        ASSUME NEW s \in StreamIds, s # currentStreamId'[c] \/ suspended'[c],
               \/ portOf'[s] = c
               \/ \E i \in 1..Len(toWorker'[c]) : /\ toWorker'[c][i].action = "open_stream"
                                                  /\ toWorker'[c][i].stream = s
        PROVE  \E i \in 1..Len(toWorker'[c]) :
                 /\ toWorker'[c][i].action = "close_stream" /\ toWorker'[c][i].stream = s
                 /\ \A j \in 1..Len(toWorker'[c]) :
                      j > i => ~(/\ toWorker'[c][j].action = "open_stream"
                                 /\ toWorker'[c][j].stream = s)
    BY DEF Leaving
  <2>1. CASE s # currentStreamId[c] \/ suspended[c]
    <3>1. \/ portOf[s] = c
          \/ \E i \in 1..Len(toWorker[c]) :
               toWorker[c][i].action = "open_stream" /\ toWorker[c][i].stream = s
      BY <1>0, <1>1
    <3>2. PICK i \in 1..Len(toWorker[c]) :
           /\ toWorker[c][i].action = "close_stream" /\ toWorker[c][i].stream = s
           /\ \A j \in 1..Len(toWorker[c]) :
                j > i => ~(toWorker[c][j].action = "open_stream" /\ toWorker[c][j].stream = s)
      BY <2>1, <3>1 DEF PortInv, Leaving
    <3> QED BY <1>1, <1>2, <3>2
  <2>2. CASE s = currentStreamId[c] /\ suspended'[c] # suspended[c]
    <3> DEFINE n == Len(toWorker'[c])
    <3>1. /\ n = Len(toWorker[c]) + 1
          /\ toWorker'[c][n].action = "close_stream" /\ toWorker'[c][n].stream = s
      BY <1>0, <2>2 DEF Posts, Asks
    <3>2. n \in 1..Len(toWorker'[c]) /\ \A j \in 1..Len(toWorker'[c]) : ~(j > n)
      BY <1>0, <3>1
    <3> HIDE DEF n
    <3> QED BY <3>1, <3>2
  <2> QED BY <1>0, <2>1, <2>2
<1>6. Meant(c)'
  <2>1. ASSUME NEW i \in 1..Len(toWorker'[c]), Asks(c, i, "close_stream")'
        PROVE  ~InUse(c)'
    BY <1>0, <1>1, <2>1 DEF PortInv, Meant, Asks
  <2>2. ASSUME NEW i \in 1..Len(toPage'[c]), About(c, i)',
               toPage'[c][i].action = "close_stream"
        PROVE  ~InUse(c)'
    <3>1. CASE toPage'[c] = toPage[c]
      BY <1>0, <2>2, <3>1 DEF PortInv, Meant, About
    <3>2. CASE Shortened(toPage'[c], toPage[c])
      <4>1. i + 1 \in 1..Len(toPage[c]) /\ toPage'[c][i] = toPage[c][i + 1]
        BY <1>0, <3>2 DEF Shortened
      <4> QED BY <1>0, <2>2, <4>1 DEF PortInv, Meant, About
    <3> QED BY <1>0, <1>p, <3>1, <3>2
  <2> QED BY <2>1, <2>2 DEF Meant
<1>7. OpenIsNew(c)'
  BY <1>0, <1>3 DEF PortInv, OpenIsNew
<1>8. CloseIsLast(c)'
  <2> SUFFICES ASSUME NEW i \in 1..Len(toWorker'[c]), NEW j \in 1..Len(toWorker'[c]),
                      Asks(c, i, "close_stream")', i < j, Asks(c, j, "open_stream")'
               PROVE  FALSE
    BY DEF CloseIsLast
  <2>1. j \in 1..Len(toWorker[c]) /\ Asks(c, j, "open_stream")
    BY <1>3
  <2>2. i \in 1..Len(toWorker[c])
    BY <1>0, <2>1
  <2>3. Asks(c, i, "close_stream")
    BY <1>0, <1>2, <2>2 DEF Asks
  <2> QED BY <2>1, <2>2, <2>3 DEF PortInv, CloseIsLast
<1>9. ASSUME NEW i \in 1..Len(toPage'[c]), Shortened(toPage'[c], toPage[c])
      PROVE  /\ i + 1 \in 1..Len(toPage[c]) /\ toPage'[c][i] = toPage[c][i + 1]
             /\ (Clears(c, i)' <=> Clears(c, i + 1))
             /\ (HeartbeatFailed(c, i)' <=> HeartbeatFailed(c, i + 1))
             /\ (ToldClosed(c, i)' <=> ToldClosed(c, i + 1))
  <2>1. i + 1 \in 1..Len(toPage[c]) /\ toPage'[c][i] = toPage[c][i + 1]
    BY <1>0, <1>9 DEF Shortened
  <2> QED BY <1>0, <2>1 DEF Clears, HeartbeatFailed, ToldClosed, About
<1>10. ASSUME toPage'[c] = toPage[c]
       PROVE  \A i : /\ (Clears(c, i)' <=> Clears(c, i))
                     /\ (HeartbeatFailed(c, i)' <=> HeartbeatFailed(c, i))
                     /\ (ToldClosed(c, i)' <=> ToldClosed(c, i))
  BY <1>0, <1>10 DEF Clears, HeartbeatFailed, ToldClosed, About
<1>11. Waiting(c)'
  <2> SUFFICES ASSUME InUse(c)', Wants(c)'
               PROVE  opening'[c] /\ \A i \in 1..Len(toPage'[c]) : ~Clears(c, i)'
    BY DEF Waiting
  <2>1. opening[c] /\ \A i \in 1..Len(toPage[c]) : ~Clears(c, i)
    BY <1>0, <1>4 DEF PortInv, Waiting
  <2>2. CASE toPage'[c] = toPage[c] /\ opening'[c] = opening[c]
    BY <1>10, <2>1, <2>2
  <2>3. CASE /\ Shortened(toPage'[c], toPage[c])
             /\ \/ opening'[c] = opening[c]
                \/ ~opening'[c] /\ (Clears(c, 1) \/ ~InUse(c)')
    <3>1. 1 \in 1..Len(toPage[c])
      BY <1>0, <2>3 DEF Shortened
    <3> QED BY <1>9, <2>1, <2>3, <3>1
  <2> QED BY <1>0, <1>p, <2>2, <2>3
<1>12. Forgotten(c)'
  <2> SUFFICES ASSUME NEW j \in 1..Len(toPage'[c]), InUse(c)', HeartbeatFailed(c, j)'
               PROVE  \/ /\ portOf'[currentStreamId'[c]] # c /\ ~Wants(c)'
                         /\ \A i \in 1..Len(toPage'[c]) : j < i => ~Clears(c, i)'
                      \/ opening'[c] /\ \A i \in 1..Len(toPage'[c]) : i < j => ~Clears(c, i)'
    BY DEF Forgotten
  <2>1. CASE toPage'[c] = toPage[c] /\ opening'[c] = opening[c]
    BY <1>0, <1>4, <1>10, <2>1 DEF PortInv, Forgotten
  <2>2. CASE /\ Shortened(toPage'[c], toPage[c])
             /\ \/ opening'[c] = opening[c]
                \/ ~opening'[c] /\ (Clears(c, 1) \/ ~InUse(c)')
    <3>0. j + 1 \in 1..Len(toPage[c]) /\ HeartbeatFailed(c, j + 1)
      BY <1>9, <2>2
    <3>1. CASE /\ portOf[currentStreamId[c]] # c /\ ~Wants(c)
               /\ \A i \in 1..Len(toPage[c]) : j + 1 < i => ~Clears(c, i)
      <4>1. ASSUME NEW i \in 1..Len(toPage'[c]), j < i PROVE ~Clears(c, i)'
        <5>1. i + 1 \in 1..Len(toPage[c]) /\ (Clears(c, i)' <=> Clears(c, i + 1))
          BY <1>9, <2>2
        <5>2. j + 1 < i + 1
          BY <4>1
        <5> QED BY <3>1, <5>1, <5>2
      <4> QED BY <1>0, <1>4, <3>1, <4>1
    <3>2. CASE opening[c] /\ \A i \in 1..Len(toPage[c]) : i < j + 1 => ~Clears(c, i)
      <4>1. ASSUME NEW i \in 1..Len(toPage'[c]), i < j PROVE ~Clears(c, i)'
        <5>1. i + 1 \in 1..Len(toPage[c]) /\ (Clears(c, i)' <=> Clears(c, i + 1))
          BY <1>9, <2>2
        <5>2. i + 1 < j + 1
          BY <4>1
        <5> QED BY <3>2, <5>1, <5>2
      <4>2. 1 \in 1..Len(toPage[c]) /\ 1 < j + 1
        BY <1>0, <3>0
      <4>3. opening'[c]
        BY <2>2, <3>2, <4>2
      <4> QED BY <4>1, <4>3
    <3> QED BY <1>0, <3>0, <3>1, <3>2 DEF PortInv, Forgotten
  <2> QED BY <1>0, <1>p, <2>1, <2>2
<1>13. ClosedIsTrue(c)'
  <2> SUFFICES ASSUME NEW j \in 1..Len(toPage'[c]), ToldClosed(c, j)'
               PROVE  portOf'[currentStreamId'[c]] # c /\ ~Wants(c)'
    BY DEF ClosedIsTrue
  <2>1. CASE toPage'[c] = toPage[c]
    BY <1>0, <1>4, <1>10, <2>1 DEF PortInv, ClosedIsTrue
  <2>2. CASE Shortened(toPage'[c], toPage[c])
    BY <1>0, <1>4, <1>9, <2>2 DEF PortInv, ClosedIsTrue
  <2> QED BY <1>0, <1>p, <2>1, <2>2
<1>14. AnswerComes(c)'
  <2> SUFFICES ASSUME opening'[c], ~finalized'[c], ~Wants(c)'
               PROVE  \E i \in 1..Len(toPage'[c]) : /\ About(c, i)'
                                                    /\ toPage'[c][i].action = "open_stream"
    BY DEF AnswerComes
  <2>1. CASE toPage'[c] = toPage[c] /\ opening'[c] = opening[c] /\ finalized'[c] = finalized[c]
    BY <1>0, <1>4, <2>1 DEF PortInv, AnswerComes, About
  <2>2. CASE /\ Shortened(toPage'[c], toPage[c]) /\ finalized'[c] = finalized[c]
             /\ opening'[c] = opening[c]
             /\ ~(About(c, 1) /\ toPage[c][1].action = "open_stream")
    <3>1. PICK i \in 1..Len(toPage[c]) : About(c, i) /\ toPage[c][i].action = "open_stream"
      BY <1>4, <2>2 DEF PortInv, AnswerComes
    <3>2. i - 1 \in 1..Len(toPage'[c]) /\ (i - 1) + 1 = i
      BY <1>0, <2>2, <3>1 DEF Shortened
    <3>3. toPage'[c][i - 1] = toPage[c][i]
      BY <2>2, <3>2 DEF Shortened
    <3> QED BY <1>0, <3>1, <3>2, <3>3 DEF About
  <2> QED BY <1>0, <1>p, <2>1, <2>2
<1> QED
  BY <1>5, <1>6, <1>7, <1>8, <1>11, <1>12, <1>13, <1>14 DEF PortInv

\* What has been appended to the requests of port c: the request to open stream s.
LEMMA OneMore ==
  ASSUME Channels, Channels', NEW c \in Ports, NEW s,
         Len(toWorker'[c]) = Len(toWorker[c]) + 1,
         Extended(toWorker'[c], toWorker[c], {Request("open_stream", s)})
  PROVE  /\ \A i \in 1..Len(toWorker[c]) : i \in 1..Len(toWorker'[c])
                                           /\ toWorker'[c][i] = toWorker[c][i]
         /\ \A i \in 1..Len(toWorker'[c]) :
              \/ i \in 1..Len(toWorker[c]) /\ toWorker'[c][i] = toWorker[c][i]
              \/ /\ i = Len(toWorker'[c])
                 /\ toWorker'[c][i].action = "open_stream" /\ toWorker'[c][i].stream = s
         /\ Len(toWorker'[c]) \in 1..Len(toWorker'[c])
         /\ toWorker'[c][Len(toWorker'[c])].action = "open_stream"
         /\ toWorker'[c][Len(toWorker'[c])].stream = s
<1>0. Len(toWorker[c]) \in Nat /\ Len(toWorker'[c]) \in Nat
  BY DEF Channels
<1> QED BY <1>0 DEF Extended, Request

\* The page asks again for a stream that the worker has forgotten.
LEMMA ReopensKeeps ==
  ASSUME Channels, Channels', NEW c \in Ports, currentStreamId[c] \in StreamIds,
         PortInv(c), Reopens(c)
  PROVE  PortInv(c)'
<1> DEFINE s == currentStreamId[c]
           n == Len(toWorker'[c])
<1>0. /\ Len(toPage[c]) \in Nat /\ Len(toPage'[c]) \in Nat
      /\ currentStreamId'[c] = s /\ portOf' = portOf
      /\ InUse(c) /\ (InUse(c)' <=> InUse(c)) /\ suspended'[c] = suspended[c] /\ ~suspended[c]
      /\ ~opening[c] /\ opening'[c] /\ HeartbeatFailed(c, 1)
      /\ Len(toPage[c]) = Len(toPage'[c]) + 1
  BY DEF Reopens, Channels, InUse, Shortened
<1>1. /\ \A i \in 1..Len(toWorker[c]) : i \in 1..n /\ toWorker'[c][i] = toWorker[c][i]
      /\ \A i \in 1..n :
           \/ i \in 1..Len(toWorker[c]) /\ toWorker'[c][i] = toWorker[c][i]
           \/ i = n /\ toWorker'[c][i].action = "open_stream" /\ toWorker'[c][i].stream = s
      /\ n \in 1..n
      /\ toWorker'[c][n].action = "open_stream" /\ toWorker'[c][n].stream = s
  BY OneMore DEF Reopens
<1> HIDE DEF n, s
<1>2. ASSUME NEW i \in 1..Len(toPage'[c])
      PROVE  i + 1 \in 1..Len(toPage[c]) /\ toPage'[c][i] = toPage[c][i + 1]
  BY <1>0 DEF Reopens, Shortened
<1>3. /\ portOf[s] # c /\ ~Wants(c)
      /\ \A i \in 1..Len(toPage[c]) : 1 < i => ~Clears(c, i)
  <2>1. 1 \in 1..Len(toPage[c])
    BY <1>0
  <2> QED BY <1>0, <2>1 DEF PortInv, Forgotten, s
<1>4. \A i \in 1..Len(toPage'[c]) : ~Clears(c, i)'
  <2> SUFFICES ASSUME NEW i \in 1..Len(toPage'[c]) PROVE ~Clears(c, i)'
    OBVIOUS
  <2>1. i + 1 \in 1..Len(toPage[c]) /\ toPage'[c][i] = toPage[c][i + 1] /\ 1 < i + 1
    BY <1>2
  <2> QED BY <1>0, <1>3, <2>1 DEF Clears, About, s
<1>5. Leaving(c)'
  <2> SUFFICES
        ASSUME NEW t \in StreamIds, t # s,
               \/ portOf[t] = c
               \/ \E i \in 1..Len(toWorker'[c]) : /\ toWorker'[c][i].action = "open_stream"
                                                  /\ toWorker'[c][i].stream = t
        PROVE  \E i \in 1..Len(toWorker'[c]) :
                 /\ toWorker'[c][i].action = "close_stream" /\ toWorker'[c][i].stream = t
                 /\ \A j \in 1..Len(toWorker'[c]) :
                      j > i => ~(/\ toWorker'[c][j].action = "open_stream"
                                 /\ toWorker'[c][j].stream = t)
    BY <1>0 DEF Leaving
  <2>1. \/ portOf[t] = c
        \/ \E i \in 1..Len(toWorker[c]) :
             toWorker[c][i].action = "open_stream" /\ toWorker[c][i].stream = t
    BY <1>1 DEF n
  <2>2. PICK i \in 1..Len(toWorker[c]) :
         /\ toWorker[c][i].action = "close_stream" /\ toWorker[c][i].stream = t
         /\ \A j \in 1..Len(toWorker[c]) :
              j > i => ~(toWorker[c][j].action = "open_stream" /\ toWorker[c][j].stream = t)
    BY <2>1 DEF PortInv, Leaving, s
  <2> QED BY <1>1, <2>2, SMTT(30) DEF n
<1>6. \A i \in 1..n : ~Asks(c, i, "close_stream")'
  BY <1>0, <1>1 DEF PortInv, Meant, Asks, n, s
<1>7. Meant(c)'
  <2>1. ASSUME NEW i \in 1..Len(toPage'[c]), About(c, i)',
               toPage'[c][i].action = "close_stream"
        PROVE  FALSE
    BY <1>0, <1>2, <2>1 DEF PortInv, Meant, About, s
  <2> QED BY <1>6, <2>1 DEF Meant, n
<1>8. OpenIsNew(c)'
  <2>1. ASSUME NEW i \in 1..n, Asks(c, i, "open_stream")' PROVE i = n
    BY <1>0, <1>1, <1>3, <2>1 DEF Asks, Wants, s
  <2> QED BY <1>0, <1>3, <2>1 DEF OpenIsNew, n
<1>9. CloseIsLast(c)'
  BY <1>6 DEF CloseIsLast, n
<1>10. Wants(c)'
  BY <1>0, <1>1 DEF Wants, Asks, n, s
<1>11. Waiting(c)' /\ AnswerComes(c)'
  BY <1>0, <1>4, <1>10 DEF Waiting, AnswerComes
<1>12. Forgotten(c)'
  BY <1>0, <1>4 DEF Forgotten
<1>13. ClosedIsTrue(c)'
  <2> SUFFICES ASSUME NEW j \in 1..Len(toPage'[c]), ToldClosed(c, j)' PROVE FALSE
    BY DEF ClosedIsTrue
  <2>1. toPage'[c][j].event # "close"
    BY <1>4 DEF Clears, ToldClosed
  <2>2. About(c, j)' /\ toPage'[c][j].action = "close_stream"
    BY <2>1 DEF ToldClosed
  <2> QED BY <1>0, <1>2, <2>2 DEF PortInv, Meant, About, s
<1> QED
  BY <1>5, <1>7, <1>8, <1>9, <1>11, <1>12, <1>13 DEF PortInv

\* The page comes back with a stream that nobody knows.
LEMMA ShowsKeeps ==
  ASSUME Channels, Channels', NEW c \in Ports, NEW s \in StreamIds,
         PortInv(c), Shows(c, s)
  PROVE  PortInv(c)'
<1> DEFINE n == Len(toWorker'[c])
<1>0. /\ toPage'[c] = toPage[c]
      /\ currentStreamId'[c] = s /\ portOf' = portOf /\ portOf[s] # c
      /\ suspended[c] /\ ~suspended'[c] /\ opening'[c]
      /\ \A i \in 1..Len(toWorker[c]) : toWorker[c][i].stream # s
      /\ \A i \in 1..Len(toPage[c]) : toPage[c][i].stream # s
  BY DEF Shows, HeldBy
<1>1. /\ \A i \in 1..Len(toWorker[c]) : i \in 1..n /\ toWorker'[c][i] = toWorker[c][i]
      /\ \A i \in 1..n :
           \/ i \in 1..Len(toWorker[c]) /\ toWorker'[c][i] = toWorker[c][i]
           \/ i = n /\ toWorker'[c][i].action = "open_stream" /\ toWorker'[c][i].stream = s
      /\ n \in 1..n
      /\ toWorker'[c][n].action = "open_stream" /\ toWorker'[c][n].stream = s
  BY OneMore DEF Shows
<1> HIDE DEF n
<1>2. \A i \in 1..Len(toPage'[c]) : ~About(c, i)'
  BY <1>0 DEF About
<1>3. \A i \in 1..n : \A action : Asks(c, i, action)' => i = n /\ action = "open_stream"
  BY <1>0, <1>1 DEF Asks
<1>4. Wants(c)'
  BY <1>0, <1>1 DEF Wants, Asks, n
<1>5. Leaving(c)'
  <2> SUFFICES
        ASSUME NEW t \in StreamIds, t # s,
               \/ portOf[t] = c
               \/ \E i \in 1..Len(toWorker'[c]) : /\ toWorker'[c][i].action = "open_stream"
                                                  /\ toWorker'[c][i].stream = t
        PROVE  \E i \in 1..Len(toWorker'[c]) :
                 /\ toWorker'[c][i].action = "close_stream" /\ toWorker'[c][i].stream = t
                 /\ \A j \in 1..Len(toWorker'[c]) :
                      j > i => ~(/\ toWorker'[c][j].action = "open_stream"
                                 /\ toWorker'[c][j].stream = t)
    BY <1>0 DEF Leaving
  <2>1. \/ portOf[t] = c
        \/ \E i \in 1..Len(toWorker[c]) :
             toWorker[c][i].action = "open_stream" /\ toWorker[c][i].stream = t
    BY <1>1 DEF n
  <2>2. PICK i \in 1..Len(toWorker[c]) :
         /\ toWorker[c][i].action = "close_stream" /\ toWorker[c][i].stream = t
         /\ \A j \in 1..Len(toWorker[c]) :
              j > i => ~(toWorker[c][j].action = "open_stream" /\ toWorker[c][j].stream = t)
    BY <1>0, <2>1 DEF PortInv, Leaving
  <2> QED BY <1>1, <2>2 DEF n
<1>6. Meant(c)' /\ CloseIsLast(c)'
  BY <1>2, <1>3 DEF Meant, CloseIsLast, n
<1>7. OpenIsNew(c)'
  BY <1>0, <1>3 DEF OpenIsNew, n
<1>8. Waiting(c)' /\ Forgotten(c)' /\ ClosedIsTrue(c)' /\ AnswerComes(c)'
  BY <1>0, <1>2, <1>4
  DEF Waiting, Forgotten, ClosedIsTrue, AnswerComes, Clears, HeartbeatFailed, ToldClosed
<1> QED BY <1>5, <1>6, <1>7, <1>8 DEF PortInv

-----------------------------------------------------------------------------
(* The streams a port may hold. *)

\* A port takes hold of no stream but when its page comes back.
LEMMA HoldsNoMore ==
  ASSUME Channels, Channels', NEW c \in Ports, NEW s \in StreamIds,
         Unserved(c) \/ Served(c) \/ Posts(c) \/ Reopens(c), HeldBy(c, s)'
  PROVE  HeldBy(c, s)
<1>0. Len(toWorker[c]) \in Nat /\ Len(toWorker'[c]) \in Nat
  BY DEF Channels
<1>1. CASE Unserved(c)
  BY <1>1 DEF Unserved, SameClient, HeldBy
<1>2. CASE Served(c)
  <2>1. ASSUME NEW i \in 1..Len(toWorker'[c])
        PROVE  i + 1 \in 1..Len(toWorker[c]) /\ toWorker'[c][i] = toWorker[c][i + 1]
    BY <1>0, <1>2 DEF Served, Shortened
  <2>2. 1 \in 1..Len(toWorker[c])
    BY <1>0, <1>2 DEF Served, Shortened
  <2> QED BY <1>2, <2>1, <2>2 DEF Served, SameClient, HeldBy
<1>3. CASE Posts(c)
  BY <1>0, <1>3 DEF Posts, Extended, PostedBy, HeldBy
<1>4. CASE Reopens(c)
  BY <1>0, <1>4 DEF Reopens, Extended, Request, HeldBy
<1> QED BY <1>1, <1>2, <1>3, <1>4

\* A page that comes back takes hold of the one new stream.
LEMMA ShownHolds ==
  ASSUME Channels, Channels', NEW c \in Ports, NEW s \in StreamIds, NEW t \in StreamIds,
         Shows(c, s), HeldBy(c, t)'
  PROVE  HeldBy(c, t) \/ t = s
<1>0. Len(toWorker[c]) \in Nat /\ Len(toWorker'[c]) \in Nat
  BY DEF Channels
<1> QED BY <1>0 DEF Shows, Extended, Request, HeldBy

-----------------------------------------------------------------------------
(* Sequences of messages. *)

LEMMA ConcatExtended ==
  ASSUME NEW T, NEW N, NEW s \in Seq(T), NEW new \in Seq(N)
  PROVE  /\ s \o new \in Seq(T \cup N)
         /\ Extended(s \o new, s, N)
<1>1. /\ Len(s) \in Nat /\ Len(new) \in Nat /\ Len(s \o new) = Len(s) + Len(new)
      /\ \A i \in 1..Len(s) + Len(new) :
           (s \o new)[i] = IF i <= Len(s) THEN s[i] ELSE new[i - Len(s)]
  OBVIOUS
<1>2. s \o new \in Seq(T \cup N)
  <2>1. s \in Seq(T \cup N) /\ new \in Seq(T \cup N)
    OBVIOUS
  <2> QED BY <2>1
<1>3. ASSUME NEW i \in 1..Len(s \o new), i > Len(s) PROVE (s \o new)[i] \in N
  <2>1. i - Len(s) \in 1..Len(new)
    BY <1>1, <1>3
  <2>2. new[i - Len(s)] \in N
    BY <2>1
  <2> QED BY <1>1, <1>3, <2>2
<1> QED BY <1>1, <1>2, <1>3 DEF Extended

LEMMA SameExtended ==
  ASSUME NEW T, NEW N, NEW s \in Seq(T)
  PROVE  Extended(s, s, N)
BY DEF Extended

LEMMA AppendExtended ==
  ASSUME NEW T, NEW N, NEW s \in Seq(T), NEW r \in N
  PROVE  /\ Extended(Append(s, r), s, N)
         /\ Len(Append(s, r)) = Len(s) + 1
         /\ Append(s, r)[Len(s) + 1] = r
BY DEF Extended

LEMMA TailShortened ==
  ASSUME NEW T, NEW s \in Seq(T), s # <<>>
  PROVE  /\ Shortened(Tail(s), s) /\ Tail(s) \in Seq(T)
         /\ Head(s) = s[1] /\ s[1] \in T /\ 1 \in 1..Len(s)
BY DEF Shortened

-----------------------------------------------------------------------------
(* The types of all that the composition adds to the worker. *)

Typed ==
  /\ RequestsTyped /\ ClientTypeOK
  /\ opening \in [Ports -> BOOLEAN]
  /\ toPage \in [Ports -> Seq(Tidings \cup Replies)]

LEMMA TypedChannels == Typed => Channels
BY DEF Typed, RequestsTyped, Channels

WorkerKnows ==
  /\ portOf \in [StreamIds -> Ports \cup {None}] /\ None \notin Ports
  /\ \A s \in StreamIds : boundTo[s] = None <=> portOf[s] = None

\* Of the worker's invariant the ports need that its registry knows every stream's port.
LEMMA KnowsByInv == (WP!Inv => WorkerKnows) /\ (WP!Inv' => WorkerKnows')
BY WorkerAssumption
DEF WP!Inv, WP!TypeOK, WP!RegistryAgrees, WorkerKnows, Worker!SocketWorkerAssumption

-----------------------------------------------------------------------------
(* What the worker's steps do to the ports. *)

\* Delivered, as the invariant sees it.
LEMMA DeliveredGets ==
  ASSUME Typed, NEW c \in Ports, NEW N, N \subseteq Tidings \cup Replies,
         NEW messages \in Seq(N), toPage'[c] = Delivered(c, messages)
  PROVE  Gets(c, N) /\ toPage'[c] \in Seq(Tidings \cup Replies)
<1> DEFINE T == Tidings \cup Replies
<1>1. toPage[c] \in Seq(T)
  BY DEF Typed
<1>2. T \cup N = T
  OBVIOUS
<1> HIDE DEF T
<1>3. CASE finalized[c]
  BY <1>3 DEF Delivered, Gets, T
<1>4. CASE ~finalized[c]
  <2>1. toPage'[c] = toPage[c] \o messages
    BY <1>4 DEF Delivered
  <2>2. toPage'[c] \in Seq(T \cup N) /\ Extended(toPage'[c], toPage[c], N)
    BY <1>1, <2>1, ConcatExtended
  <2>3. toPage'[c] \in Seq(T)
    BY <1>2, <2>2
  <2> QED BY <2>2, <2>3 DEF Gets, T
<1> QED BY <1>3, <1>4 DEF T

\* What the worker's own steps post: events of bound streams, and close of forgotten ones.
LEMMA OwnFacts ==
  ASSUME WP!Inv, WP!Inv', Worker!Housekeeping \/ Worker!SocketEvent
  PROVE  /\ out' \in WP!Messages
         /\ \A t \in StreamIds, c \in Ports : portOf'[t] = c => portOf[t] = c
         /\ \A i \in DOMAIN out' : \A s \in out'[i].to :
              /\ s \in StreamIds /\ portOf[s] # None
              /\ out'[i].event = "close" => portOf'[s] = None
<1>0. WorkerKnows /\ WorkerKnows'
  BY KnowsByInv
<1>1. WP!Housekeeping \/ WP!SocketEvent
  BY SameDefinitions
<1>2. WP!OwnEffect
  BY <1>1, WP!OwnEffects, WorkerAssumption
  DEF WP!OwnEffects, WP!SocketWorkerAssumption, Worker!SocketWorkerAssumption
<1>3. \A i \in DOMAIN out' : \A s \in out'[i].to :
        out'[i].event = "close" => s \in StreamIds /\ boundTo'[s] = None
  BY <1>1, WP!CloseEffects, WorkerAssumption
  DEF WP!CloseEffects, WP!SocketWorkerAssumption, Worker!SocketWorkerAssumption
<1>4. \A i \in DOMAIN out' : \A s \in out'[i].to : s \in StreamIds /\ boundTo[s] # None
  BY <1>2 DEF WP!OwnEffect, WP!EventsOf, WP!Bound
<1> QED BY <1>0, <1>2, <1>3, <1>4 DEF WP!OwnEffect, WP!Kept, WorkerKnows

\* The worker's own steps and the sockets' leave every port unserved.
LEMMA OwnStep ==
  ASSUME Typed, WP!Inv, WP!Inv', Worker!Housekeeping \/ Worker!SocketEvent,
         toPage' = [c \in Ports |-> Delivered(c, EventsFor(c))],
         UNCHANGED <<client, toWorker>>
  PROVE  Typed' /\ \A c \in Ports : Unserved(c)
<1>0. WorkerKnows /\ WorkerKnows'
  BY KnowsByInv
<1>1. ASSUME NEW c \in Ports
      PROVE  Unserved(c) /\ toPage'[c] \in Seq(Tidings \cup Replies)
  <2>1. PostedFor(c) \subseteq OthersNews(c)
    <3> SUFFICES ASSUME NEW m \in PostedFor(c) PROVE m \in OthersNews(c)
      OBVIOUS
    <3>1. PICK i \in DOMAIN out' : /\ out'[i].event = m.event
                                   /\ m.stream \in out'[i].to
                                   /\ OwnerOf(m.stream) = c
      BY DEF PostedFor
    <3>2. portOf[m.stream] # None /\ (m.event = "close" => portOf'[m.stream] = None)
      BY <3>1, OwnFacts
    <3>3. portOf[m.stream] = c /\ (m.event = "close" => portOf'[m.stream] # c)
      BY <1>0, <3>1, <3>2 DEF OwnerOf, WorkerKnows
    <3> QED BY <3>3 DEF PostedFor, OthersNews
  <2>2. EventsFor(c) \in Seq(OthersNews(c))
    BY <2>1, OwnFacts, PostedType
  <2>3. OthersNews(c) \subseteq Tidings \cup Replies
    BY DEF OthersNews
  <2>4. toPage'[c] = Delivered(c, EventsFor(c))
    OBVIOUS
  <2>5. Gets(c, OthersNews(c)) /\ toPage'[c] \in Seq(Tidings \cup Replies)
    BY <2>2, <2>3, <2>4, DeliveredGets
  <2>6. SameClient(c) /\ toWorker'[c] = toWorker[c]
    BY DEF SameClient, client, connection, lifecycle
  <2>7. \A t \in StreamIds : portOf'[t] = c => portOf[t] = c
    BY OwnFacts
  <2> QED BY <2>5, <2>6, <2>7 DEF Unserved
<1>2. toPage' \in [Ports -> Seq(Tidings \cup Replies)]
  BY <1>1
<1>3. Typed'
  BY <1>2 DEF Typed, RequestsTyped, ClientTypeOK, client, connection, lifecycle
<1> QED BY <1>1, <1>3

\* What the worker makes of a request r of port c.
Bindings(c, r) ==
  /\ \A t \in StreamIds :
       portOf'[t] = portOf[t] \/ portOf'[t] = None
         \/ (t = r.stream /\ r.action = "open_stream" /\ portOf[t] = None /\ portOf'[t] = c)
  /\ r.action = "close_stream" => portOf'[r.stream] # c
Postings(c, r) ==
  /\ out' \in WP!Messages /\ Last(out').event \in {"ok", "fail"}
  /\ Last(out').event = "fail" /\ r.action \in {"heartbeat", "close_stream"}
       => portOf'[r.stream] # c
  /\ \A i \in DOMAIN out' :
       /\ out'[i].to = {r.stream}
       /\ out'[i].event \notin {"ok", "fail"} =>
            /\ OwnerOf(r.stream) = c
            /\ \/ out'[i].event = "open" /\ r.action = "open_stream"
               \/ out'[i].event = "close" /\ r.action = "close_stream"

\* out' with the answer alone, and with an event before it.
LEMMA AnswerAlone ==
  ASSUME NEW s \in StreamIds, NEW answer \in {"ok", "fail"},
         out' = <<[to |-> {s}, event |-> answer]>>
  PROVE  /\ out' \in WP!Messages /\ Last(out').event = answer
         /\ \A i \in DOMAIN out' : out'[i].to = {s} /\ out'[i].event = answer
<1> DEFINE T == [to : SUBSET StreamIds, event : WP!EventNames]
           a == [to |-> {s}, event |-> answer]
<1>1. a \in T /\ a.to = {s} /\ a.event = answer
  BY DEF WP!EventNames
<1> HIDE DEF a, T
<1>2. out' = <<a>>
  BY DEF a
<1>3. out' \in Seq(T) /\ Len(out') = 1 /\ DOMAIN out' = {1} /\ out'[1] = a
  BY <1>1, <1>2
<1> QED BY <1>1, <1>3 DEF T, Last, WP!Messages

LEMMA AnswerAfter ==
  ASSUME NEW s \in StreamIds, NEW event \in {"open", "close"},
         out' = <<[to |-> {s}, event |-> event], [to |-> {s}, event |-> "ok"]>>
  PROVE  /\ out' \in WP!Messages /\ Last(out').event = "ok"
         /\ \A i \in DOMAIN out' : out'[i].to = {s} /\ out'[i].event \in {event, "ok"}
<1> DEFINE T == [to : SUBSET StreamIds, event : WP!EventNames]
           a == [to |-> {s}, event |-> event]
           b == [to |-> {s}, event |-> "ok"]
<1>1. /\ a \in T /\ a.to = {s} /\ a.event = event
      /\ b \in T /\ b.to = {s} /\ b.event = "ok"
  BY DEF WP!EventNames
<1> HIDE DEF a, b, T
<1>2. out' = <<a, b>>
  BY DEF a, b
<1>3. out' \in Seq(T) /\ Len(out') = 2 /\ DOMAIN out' = 1..2 /\ out'[1] = a /\ out'[2] = b
  BY <1>1, <1>2
<1>4. \A i \in 1..2 : i = 1 \/ i = 2
  OBVIOUS
<1>5. \A i \in DOMAIN out' : out'[i].to = {s} /\ out'[i].event \in {event, "ok"}
  BY <1>1, <1>3, <1>4
<1> QED BY <1>1, <1>3, <1>5 DEF T, Last, WP!Messages

\* What serving a request does to the registry, and what it posts.
LEMMA ServeFacts ==
  ASSUME WP!Inv, WP!Inv', NEW c \in Ports, NEW r \in Requests, Serve(c, r)
  PROVE  Bindings(c, r) /\ Postings(c, r)
<1> DEFINE s == r.stream
           action == r.action
           Answer(a) == out' = <<[to |-> {s}, event |-> a]>>
           AnswerTwice(e) ==
             out' = <<[to |-> {s}, event |-> e], [to |-> {s}, event |-> "ok"]>>
           Keeps == \A t \in StreamIds : portOf'[t] = portOf[t]
<1>0. /\ WorkerKnows /\ WorkerKnows' /\ s \in StreamIds /\ Address \in Identities
      /\ action \in {"open_stream", "heartbeat", "send", "close_stream"}
  BY KnowsByInv, SharedSocketAssumption DEF Requests
<1>1. ASSUME NEW a \in {"ok", "fail"}, Answer(a), Bindings(c, r),
             a = "fail" /\ action \in {"heartbeat", "close_stream"} => portOf'[s] # c
      PROVE  Bindings(c, r) /\ Postings(c, r)
  BY <1>0, <1>1, AnswerAlone DEF Postings
<1>2. CASE action = "open_stream" /\ Worker!OpenStream(c, s, Address)
  <2>1. WP!OpenEffect(c, s)
    <3>1. WP!OpenStream(c, s, Address)
      BY <1>2, SameDefinitions
    <3> QED BY <1>0, <3>1, WP!OpenEffects, WorkerAssumption
      DEF WP!OpenEffects, WP!SocketWorkerAssumption, Worker!SocketWorkerAssumption
  <2>2. /\ \A t \in StreamIds \ {s} : portOf'[t] = portOf[t]
        /\ \/ portOf'[s] = portOf[s]
           \/ portOf[s] = None /\ portOf'[s] = c
    BY <1>0, <2>1 DEF WP!OpenEffect, WP!Kept, WorkerKnows
  <2>3. Bindings(c, r)
    BY <1>0, <1>2, <2>2 DEF Bindings
  <2>4. CASE Answer("ok") \/ Answer("fail")
    BY <1>1, <1>2, <2>3, <2>4
  <2>5. CASE AnswerTwice("open") /\ ~WP!Kept(s)
    <3>1. /\ out' \in WP!Messages /\ Last(out').event = "ok"
          /\ \A i \in DOMAIN out' : out'[i].to = {s} /\ out'[i].event \in {"open", "ok"}
      BY <1>0, <2>5, AnswerAfter
    <3>2. OwnerOf(s) = c
      BY <1>0, <2>1, <2>5 DEF WP!OpenEffect, WP!Kept, WorkerKnows, OwnerOf
    <3> QED BY <1>2, <2>3, <3>1, <3>2 DEF Postings
  <2> QED BY <2>1, <2>4, <2>5 DEF WP!OpenEffect
<1>3. /\ WP!NotOwned(c, s) => /\ ~(boundTo[s] # None /\ portOf[s] = c)
                              /\ \A t \in StreamIds : WP!Kept(t)
                              /\ Answer("fail")
      /\ WP!Heartbeat(c, s) => (\A t \in StreamIds : WP!Kept(t)) /\ Answer("ok")
      /\ \A n \in DataBytes :
           WP!Send(c, s, n) => (\A t \in StreamIds : WP!Kept(t)) /\ (Answer("ok") \/ Answer("fail"))
      /\ WP!CloseStream(c, s) => WP!CloseEffect(c, s)
  BY <1>0, WP!RequestEffects, WorkerAssumption
  DEF WP!RequestEffects, WP!SocketWorkerAssumption, Worker!SocketWorkerAssumption
<1>4. ASSUME \A t \in StreamIds : WP!Kept(t) PROVE Keeps
  BY <1>4 DEF WP!Kept
<1>5. ASSUME Keeps, action = "close_stream" => portOf[s] # c PROVE Bindings(c, r)
  BY <1>0, <1>5 DEF Bindings
<1>6. CASE Worker!NotOwned(c, s)
  <2>1. WP!NotOwned(c, s)
    BY <1>6, SameDefinitions
  <2>2. Keeps /\ Answer("fail") /\ portOf[s] # c
    BY <1>0, <1>3, <1>4, <2>1 DEF WorkerKnows
  <2> QED BY <1>0, <1>1, <1>5, <2>2
<1>7. CASE action = "heartbeat" /\ Worker!Heartbeat(c, s)
  <2>1. WP!Heartbeat(c, s)
    BY <1>7, SameDefinitions
  <2>2. Keeps /\ Answer("ok")
    BY <1>3, <1>4, <2>1
  <2> QED BY <1>1, <1>5, <1>7, <2>2
<1>8. CASE action = "send" /\ \E n \in DataBytes : Worker!Send(c, s, n)
  <2>1. \E n \in DataBytes : WP!Send(c, s, n)
    BY <1>8, SameDefinitions
  <2>2. Keeps /\ (Answer("ok") \/ Answer("fail"))
    BY <1>3, <1>4, <2>1
  <2> QED BY <1>1, <1>5, <1>8, <2>2
<1>9. CASE action = "close_stream" /\ Worker!CloseStream(c, s)
  <2>1. WP!CloseStream(c, s)
    BY <1>9, SameDefinitions
  <2>2. WP!CloseEffect(c, s)
    BY <1>3, <2>1
  <2>3. /\ \A t \in StreamIds \ {s} : portOf'[t] = portOf[t]
        /\ portOf[s] = c /\ portOf'[s] = None /\ AnswerTwice("close")
    BY <1>0, <2>2 DEF WP!CloseEffect, WP!Kept, WorkerKnows
  <2>4. Bindings(c, r)
    BY <1>0, <1>9, <2>3 DEF Bindings, WorkerKnows
  <2>5. /\ out' \in WP!Messages /\ Last(out').event = "ok"
        /\ \A i \in DOMAIN out' : out'[i].to = {s} /\ out'[i].event \in {"close", "ok"}
    BY <1>0, <2>3, AnswerAfter
  <2>6. OwnerOf(s) = c
    BY <1>0, <2>3 DEF OwnerOf, WorkerKnows
  <2> QED BY <1>9, <2>4, <2>5, <2>6 DEF Postings
<1> QED BY <1>2, <1>6, <1>7, <1>8, <1>9 DEF Serve

LEMMA LastOfConcat ==
  ASSUME NEW T, NEW s \in Seq(T), NEW new \in Seq(T), Len(new) > 0
  PROVE  Len(s \o new) > 0 /\ (s \o new)[Len(s \o new)] = new[Len(new)]
<1>1. Len(s \o new) = Len(s) + Len(new) /\ Len(s) \in Nat /\ Len(new) \in Nat
  OBVIOUS
<1>2. (s \o new)[Len(s \o new)] = new[Len(s \o new) - Len(s)]
  BY <1>1
<1>3. Len(s \o new) - Len(s) = Len(new)
  BY <1>1
<1> QED BY <1>1, <1>2, <1>3

\* Handling a request serves its port and leaves the others unserved.
LEMMA RequestStep ==
  ASSUME Typed, WP!Inv, WP!Inv', NEW c \in Ports, HandleRequest(c)
  PROVE  Typed' /\ Served(c) /\ \A d \in Ports \ {c} : Unserved(d)
<1> DEFINE r == Head(toWorker[c])
           T == Tidings \cup Replies
           News(d) == EventsFor(d) \o IF d = c THEN <<AnswerTo(r)>> ELSE <<>>
<1>0. /\ toWorker[c] \in Seq(Requests) /\ toWorker[c] # <<>> /\ Serve(c, r)
      /\ toWorker' = [toWorker EXCEPT ![c] = Tail(@)]
      /\ toPage' = [d \in Ports |-> Delivered(d, News(d))]
      /\ UNCHANGED client
  BY DEF HandleRequest, Typed, RequestsTyped
<1>1. /\ r = toWorker[c][1] /\ r \in Requests
      /\ Shortened(Tail(toWorker[c]), toWorker[c]) /\ Tail(toWorker[c]) \in Seq(Requests)
  BY <1>0, TailShortened
<1> HIDE DEF r
<1>k. WorkerKnows /\ WorkerKnows'
  BY KnowsByInv
<1>2. Bindings(c, r) /\ Postings(c, r)
  BY <1>0, <1>1, ServeFacts
<1>3. ASSUME NEW d \in Ports
      PROVE  /\ EventsFor(d) \in Seq(PostedFor(d))
             /\ PostedFor(d) \subseteq IF d = c THEN ServedNews(c, r) ELSE OthersNews(d)
  <2>1. EventsFor(d) \in Seq(PostedFor(d))
    BY <1>2, PostedType DEF Postings
  <2>2. ASSUME NEW m \in PostedFor(d)
        PROVE  m \in IF d = c THEN ServedNews(c, r) ELSE OthersNews(d)
    <3>1. PICK i \in DOMAIN out' : /\ out'[i].event = m.event
                                   /\ m.stream \in out'[i].to
                                   /\ OwnerOf(m.stream) = d
      BY DEF PostedFor
    <3>2. m \in Tidings /\ m.action = "none" /\ m.event \notin {"ok", "fail"}
      BY DEF PostedFor, Tidings
    <3>3. /\ m.stream = r.stream /\ d = c
          /\ \/ m.event = "open" /\ r.action = "open_stream"
             \/ m.event = "close" /\ r.action = "close_stream"
      BY <1>2, <3>1, <3>2 DEF Postings
    <3> QED BY <3>2, <3>3 DEF ServedNews
  <2> QED BY <2>1, <2>2
<1>4. AnswerTo(r) \in ServedNews(c, r) /\ AnswerTo(r).action = r.action
      /\ AnswerTo(r).stream = r.stream
  <2> DEFINE e == Last(out').event
  <2>1. e \in {"ok", "fail"} /\ (e = "fail" /\ r.action \in {"heartbeat", "close_stream"}
                                  => portOf'[r.stream] # c)
    BY <1>2 DEF Postings
  <2>2. AnswerTo(r) = [event |-> e, action |-> r.action, stream |-> r.stream]
    BY DEF AnswerTo, Response
  <2> HIDE DEF e
  <2>3. /\ r.stream \in StreamIds
        /\ r.action \in {"open_stream", "heartbeat", "send", "close_stream"}
    BY <1>1 DEF Requests
  <2> QED BY <2>1, <2>2, <2>3 DEF ServedNews, Replies
<1>5. ServedNews(c, r) \subseteq T /\ \A d \in Ports : OthersNews(d) \subseteq T
  BY DEF ServedNews, OthersNews
<1>6. News(c) \in Seq(ServedNews(c, r))
  <2>1. EventsFor(c) \in Seq(ServedNews(c, r)) /\ <<AnswerTo(r)>> \in Seq(ServedNews(c, r))
    BY <1>3, <1>4
  <2> QED BY <2>1
<1>7. ASSUME NEW d \in Ports \ {c} PROVE News(d) \in Seq(OthersNews(d))
  <2>1. EventsFor(d) \in Seq(OthersNews(d)) /\ News(d) = EventsFor(d) \o <<>>
    BY <1>3
  <2> QED BY <2>1
<1>8. ASSUME NEW d \in Ports PROVE toPage'[d] = Delivered(d, News(d))
  BY <1>0
<1>9. ASSUME NEW d \in Ports PROVE SameClient(d)
  BY <1>0 DEF SameClient, client, connection, lifecycle
<1>10. Served(c) /\ toPage'[c] \in Seq(T)
  <2>1. Gets(c, ServedNews(c, r)) /\ toPage'[c] \in Seq(T)
    <3> HIDE DEF News
    <3> QED BY <1>5, <1>6, <1>8, DeliveredGets
  <2>2. ASSUME ~finalized[c]
        PROVE  /\ Len(toPage'[c]) > 0
               /\ toPage'[c][Len(toPage'[c])].action = r.action
               /\ toPage'[c][Len(toPage'[c])].stream = r.stream
    <3>1. toPage'[c] = toPage[c] \o (EventsFor(c) \o <<AnswerTo(r)>>)
      BY <1>8, <2>2 DEF Delivered
    <3>2. toPage[c] \in Seq(T) /\ EventsFor(c) \in Seq(T) /\ AnswerTo(r) \in T
      <4>1. EventsFor(c) \in Seq(ServedNews(c, r))
        BY <1>3
      <4> QED BY <1>4, <1>5, <4>1 DEF Typed
    <3> HIDE DEF T
    <3> DEFINE news == EventsFor(c) \o <<AnswerTo(r)>>
    <3>3. news \in Seq(T) /\ Len(news) > 0 /\ news[Len(news)] = AnswerTo(r)
      BY <3>2
    <3>4. toPage'[c] = toPage[c] \o news
      BY <3>1
    <3> HIDE DEF news
    <3>5. /\ Len(toPage[c] \o news) > 0
          /\ (toPage[c] \o news)[Len(toPage[c] \o news)] = news[Len(news)]
      BY <3>2, <3>3, LastOfConcat
    <3> QED BY <1>4, <3>3, <3>4, <3>5
  <2>3. Shortened(toWorker'[c], toWorker[c])
    BY <1>0, <1>1 DEF Typed, RequestsTyped
  <2>4. \A t \in StreamIds :
          portOf'[t] = c => portOf[t] = c \/ (t = r.stream /\ r.action = "open_stream")
    BY <1>2, <1>k DEF Bindings, WorkerKnows
  <2>5. r.action = "close_stream" => portOf'[r.stream] # c
    BY <1>2 DEF Bindings
  <2> QED BY <1>1, <1>9, <2>1, <2>2, <2>3, <2>4, <2>5 DEF Served
<1>11. ASSUME NEW d \in Ports \ {c} PROVE Unserved(d) /\ toPage'[d] \in Seq(T)
  <2>1. Gets(d, OthersNews(d)) /\ toPage'[d] \in Seq(T)
    <3> HIDE DEF News
    <3> QED BY <1>5, <1>7, <1>8, DeliveredGets
  <2>2. toWorker'[d] = toWorker[d]
    BY <1>0 DEF Typed, RequestsTyped
  <2>3. \A t \in StreamIds : portOf'[t] = d => portOf[t] = d
    BY <1>2, <1>k DEF Bindings, WorkerKnows
  <2> QED BY <1>9, <2>1, <2>2, <2>3 DEF Unserved
<1>12. toPage' \in [Ports -> Seq(T)]
  <2> HIDE DEF T
  <2> QED BY <1>0, <1>10, <1>11
<1>13. Typed'
  BY <1>0, <1>1, <1>12
  DEF Typed, RequestsTyped, ClientTypeOK, client, connection, lifecycle
<1> QED BY <1>10, <1>11, <1>13

-----------------------------------------------------------------------------
(* What the page's steps do to the ports. *)

\* Only port c is touched, and the types stay.
Alone(c) ==
  /\ opening' \in [Ports -> BOOLEAN]
  /\ toPage' \in [Ports -> Seq(Tidings \cup Replies)]
  /\ \A d \in Ports \ {c} :
       SameClient(d) /\ toWorker'[d] = toWorker[d] /\ toPage'[d] = toPage[d]

PageEffect(c) == Alone(c) /\ (Posts(c) \/ Reopens(c) \/ \E s \in StreamIds : Shows(c, s))

LEMMA Quiet ==
  ASSUME Typed, NEW c \in Ports, toWorker' = toWorker, NEW N
  PROVE  Extended(toWorker'[c], toWorker[c], N)
BY SameExtended DEF Typed, RequestsTyped

LEMMA Says ==
  ASSUME Typed, NEW c \in Ports, NEW s \in StreamIds,
         NEW action \in {"open_stream", "heartbeat", "send", "close_stream"},
         toWorker' = Posting(c, Request(action, s)), NEW N, Request(action, s) \in N
  PROVE  /\ Extended(toWorker'[c], toWorker[c], N)
         /\ Len(toWorker'[c]) = Len(toWorker[c]) + 1
         /\ toWorker'[c][Len(toWorker'[c])].action = action
         /\ toWorker'[c][Len(toWorker'[c])].stream = s
         /\ \A d \in Ports \ {c} : toWorker'[d] = toWorker[d]
<1> DEFINE r == Request(action, s)
<1>1. r.action = action /\ r.stream = s
  BY DEF Request
<1> HIDE DEF r
<1>2. toWorker[c] \in Seq(Requests) /\ toWorker'[c] = Append(toWorker[c], r)
  BY DEF Typed, RequestsTyped, Posting, r
<1>3. r \in N
  BY DEF r
<1>4. /\ Extended(Append(toWorker[c], r), toWorker[c], N)
      /\ Len(Append(toWorker[c], r)) = Len(toWorker[c]) + 1
      /\ Append(toWorker[c], r)[Len(toWorker[c]) + 1] = r
  BY <1>2, <1>3, AppendExtended
<1>5. \A d \in Ports \ {c} : toWorker'[d] = toWorker[d]
  BY DEF Typed, RequestsTyped, Posting
<1> QED BY <1>1, <1>2, <1>4, <1>5

\* A request that a page may post about its stream.
LEMMA MayBePosted ==
  ASSUME Typed, NEW c \in Ports, NEW action \in {"heartbeat", "send", "close_stream"},
         action = "close_stream" => ~InUse(c)'
  PROVE  Request(action, currentStreamId[c]) \in PostedBy(c)
BY DEF Typed, RequestsTyped, PostedBy, Requests, Request

\* A step that posts at most one request about the stream and leaves toPage alone.
LEMMA PostsAlone ==
  ASSUME Typed, NEW c \in Ports, NEW action \in {"heartbeat", "send", "close_stream"},
         action = "close_stream" => ~InUse(c)',
         toWorker' = Posting(c, Request(action, currentStreamId[c])),
         UNCHANGED <<currentStreamId, opening, finalized, toPage, portOf>>,
         InUse(c)' => InUse(c),
         suspended'[c] = suspended[c] \/ action = "close_stream"
  PROVE  Posts(c)
<1>1. currentStreamId[c] \in StreamIds
  BY DEF Typed, RequestsTyped
<1>2. /\ Extended(toWorker'[c], toWorker[c], PostedBy(c))
      /\ Len(toWorker'[c]) = Len(toWorker[c]) + 1
      /\ toWorker'[c][Len(toWorker'[c])].action = action
      /\ toWorker'[c][Len(toWorker'[c])].stream = currentStreamId[c]
  BY <1>1, MayBePosted, Says
<1> QED BY <1>2 DEF Posts, Asks

\* All that a step changes of a page's variables is at port c.
Changes(c, stream, waits, hidden, closed, done, messages) ==
  /\ currentStreamId' = [currentStreamId EXCEPT ![c] = stream]
  /\ opening' = [opening EXCEPT ![c] = waits]
  /\ suspended' = [suspended EXCEPT ![c] = hidden]
  /\ manualClose' = [manualClose EXCEPT ![c] = closed]
  /\ finalized' = [finalized EXCEPT ![c] = done]
  /\ toPage' = [toPage EXCEPT ![c] = messages]
  /\ \/ toWorker' = toWorker
     \/ \E request : toWorker' = Posting(c, request)

LEMMA Touched ==
  ASSUME Typed, NEW c \in Ports, NEW stream, NEW waits, NEW hidden, NEW closed, NEW done,
         NEW messages, Changes(c, stream, waits, hidden, closed, done, messages),
         waits \in BOOLEAN, messages \in Seq(Tidings \cup Replies)
  PROVE  /\ Alone(c)
         /\ currentStreamId'[c] = stream /\ opening'[c] = waits /\ suspended'[c] = hidden
         /\ manualClose'[c] = closed /\ finalized'[c] = done /\ toPage'[c] = messages
<1> USE DEF Changes
<1>1. /\ opening' \in [Ports -> BOOLEAN]
      /\ toPage' \in [Ports -> Seq(Tidings \cup Replies)]
  BY DEF Typed
<1>2. \A d \in Ports \ {c} : toWorker'[d] = toWorker[d]
  BY DEF Typed, RequestsTyped, Posting
<1> QED BY <1>1, <1>2 DEF Typed, RequestsTyped, ClientTypeOK, Alone, SameClient

LEMMA Untouched ==
  ASSUME Typed, NEW c \in Ports
  PROVE  /\ currentStreamId = [currentStreamId EXCEPT ![c] = currentStreamId[c]]
         /\ opening = [opening EXCEPT ![c] = opening[c]] /\ opening[c] \in BOOLEAN
         /\ suspended = [suspended EXCEPT ![c] = suspended[c]]
         /\ manualClose = [manualClose EXCEPT ![c] = manualClose[c]]
         /\ finalized = [finalized EXCEPT ![c] = finalized[c]]
         /\ toPage = [toPage EXCEPT ![c] = toPage[c]]
         /\ toPage[c] \in Seq(Tidings \cup Replies)
         /\ currentStreamId[c] \in StreamIds
<1>1. toPage = [toPage EXCEPT ![c] = toPage[c]] /\ toPage[c] \in Seq(Tidings \cup Replies)
  BY DEF Typed
<1> QED BY <1>1 DEF Typed, RequestsTyped, ClientTypeOK

\* pagehide.
LEMMA PageHideEffect ==
  ASSUME Typed, NEW c \in Ports, PageHide(c), portOf' = portOf
  PROVE  PageEffect(c)
<1>1. /\ suspended' = [suspended EXCEPT ![c] = TRUE]
      /\ toWorker' = Posting(c, Request("close_stream", currentStreamId[c]))
      /\ UNCHANGED <<currentStreamId, opening, manualClose, finalized, toPage>>
  BY DEF PageHide, CloseForHide, CloseLogical
<1>c. Changes(c, currentStreamId[c], opening[c], TRUE, manualClose[c], finalized[c], toPage[c])
  BY <1>1, Untouched DEF Changes
<1>2. Alone(c) /\ suspended'[c] = TRUE
  BY <1>c, Touched, Untouched
<1>3. Posts(c)
  BY <1>1, <1>2, PostsAlone DEF InUse
<1> QED BY <1>2, <1>3 DEF PageEffect

\* close().
LEMMA PageClosesEffect ==
  ASSUME Typed, NEW c \in Ports, PageCloses(c), portOf' = portOf
  PROVE  PageEffect(c)
<1>1. /\ manualClose' = [manualClose EXCEPT ![c] = TRUE]
      /\ toWorker' = Posting(c, Request("close_stream", currentStreamId[c]))
      /\ UNCHANGED <<currentStreamId, opening, suspended, finalized, toPage>>
  BY DEF PageCloses, CloseLogical
<1>c. Changes(c, currentStreamId[c], opening[c], suspended[c], TRUE, finalized[c], toPage[c])
  BY <1>1, Untouched DEF Changes
<1>2. Alone(c) /\ manualClose'[c] = TRUE
  BY <1>c, Touched, Untouched
<1>3. Posts(c)
  BY <1>1, <1>2, PostsAlone DEF InUse
<1> QED BY <1>2, <1>3 DEF PageEffect

\* The heartbeat interval and send().
LEMMA PageSendsEffect ==
  ASSUME Typed, NEW c \in Ports, PageSends(c) \/ HeartbeatTimer(c), portOf' = portOf
  PROVE  PageEffect(c)
<1>1. PICK action \in {"heartbeat", "send"} :
        toWorker' = Posting(c, Request(action, currentStreamId[c]))
  BY DEF PageSends, HeartbeatTimer
<1>2. UNCHANGED <<currentStreamId, opening, suspended, manualClose, finalized, toPage>>
  BY DEF PageSends, HeartbeatTimer, client, connection, lifecycle
<1>c. Changes(c, currentStreamId[c], opening[c], suspended[c], manualClose[c],
              finalized[c], toPage[c])
  BY <1>1, <1>2, Untouched DEF Changes
<1>3. Alone(c)
  BY <1>c, Touched, Untouched
<1>4. Posts(c)
  BY <1>1, <1>2, PostsAlone DEF InUse
<1> QED BY <1>3, <1>4 DEF PageEffect

\* pageshow.
LEMMA PageShowEffect ==
  ASSUME Typed, WorkerKnows, NEW c \in Ports, NEW s \in StreamIds, Fresh(s), PageShow(c, s),
         portOf' = portOf
  PROVE  PageEffect(c)
<1>1. /\ suspended[c]
      /\ suspended' = [suspended EXCEPT ![c] = FALSE]
      /\ currentStreamId' = [currentStreamId EXCEPT ![c] = s]
      /\ opening' = [opening EXCEPT ![c] = TRUE]
      /\ toWorker' = Posting(c, Request("open_stream", s))
      /\ UNCHANGED <<manualClose, finalized, toPage>>
  BY DEF PageShow, OpenStreamOf, OpeningAfterShow
<1>c. Changes(c, s, TRUE, FALSE, manualClose[c], finalized[c], toPage[c])
  BY <1>1, Untouched DEF Changes
<1>2. /\ Alone(c)
      /\ currentStreamId'[c] = s /\ opening'[c] = TRUE /\ suspended'[c] = FALSE
      /\ manualClose'[c] = manualClose[c] /\ finalized'[c] = finalized[c]
      /\ toPage'[c] = toPage[c]
  BY <1>c, Touched, Untouched
<1>3. /\ Extended(toWorker'[c], toWorker[c], {Request("open_stream", s)})
      /\ Len(toWorker'[c]) = Len(toWorker[c]) + 1
  BY <1>1, Says
<1>4. ASSUME NEW d \in Ports
      PROVE  /\ ~HeldBy(d, s)
             /\ \A i \in 1..Len(toPage[d]) : toPage[d][i].stream # s
  <2>1. DOMAIN toWorker[d] = 1..Len(toWorker[d]) /\ DOMAIN toPage[d] = 1..Len(toPage[d])
    BY DEF Typed, RequestsTyped
  <2>2. portOf[s] # d /\ currentStreamId[d] # s /\ s \notin StreamsUnderWay(d)
    BY DEF Fresh, WorkerKnows
  <2> QED BY <2>1, <2>2 DEF StreamsUnderWay, HeldBy
<1>5. Shows(c, s)
  BY <1>1, <1>2, <1>3, <1>4 DEF Shows
<1> QED BY <1>2, <1>5 DEF PageEffect

\* The message a page handles is the first under way to it.
LEMMA NextIsFirst ==
  ASSUME Typed, NEW c \in Ports, toPage[c] # <<>>
  PROVE  /\ Shortened(Tail(toPage[c]), toPage[c])
         /\ Tail(toPage[c]) \in Seq(Tidings \cup Replies)
         /\ NextMessage(c) = toPage[c][1]
         /\ NextMessage(c) \in Tidings \cup Replies
<1> DEFINE T == Tidings \cup Replies
<1>1. toPage[c] \in Seq(T)
  BY DEF Typed
<1> HIDE DEF T
<1>2. /\ Shortened(Tail(toPage[c]), toPage[c])
      /\ Tail(toPage[c]) \in Seq(T)
      /\ NextMessage(c) = toPage[c][1]
      /\ NextMessage(c) \in T
  BY <1>1, TailShortened DEF NextMessage
<1> QED BY <1>2 DEF T

\* What happens to the messages of a page that handles one, or gives up.
Takes(c, waits, done, messages) ==
  \/ done /\ messages = <<>>
  \/ /\ toPage[c] # <<>> /\ messages = Tail(toPage[c]) /\ done = finalized[c]
     /\ \/ /\ waits = opening[c]
           /\ ~(About(c, 1) /\ toPage[c][1].action = "open_stream")
        \/ ~waits /\ (Clears(c, 1) \/ ~InUse(c)')

\* A page that handles a message closes its stream at most.
LEMMA MessageEffect ==
  ASSUME Typed, NEW c \in Ports, NEW waits \in BOOLEAN, NEW closed, NEW done, NEW messages,
         Changes(c, currentStreamId[c], waits, suspended[c], closed, done, messages),
         \/ toWorker' = toWorker
         \/ /\ toWorker' = Posting(c, Request("close_stream", currentStreamId[c]))
            /\ ~InUse(c)',
         manualClose[c] => closed, finalized[c] => done,
         portOf' = portOf, Takes(c, waits, done, messages)
  PROVE  PageEffect(c)
<1>1. /\ messages \in Seq(Tidings \cup Replies)
      /\ \/ done /\ messages = <<>>
         \/ Shortened(messages, toPage[c]) /\ done = finalized[c]
  <2>1. CASE done /\ messages = <<>>
    BY <2>1
  <2>2. CASE toPage[c] # <<>> /\ messages = Tail(toPage[c]) /\ done = finalized[c]
    BY <2>2, NextIsFirst
  <2> QED BY <2>1, <2>2 DEF Takes
<1>2. /\ Alone(c)
      /\ currentStreamId'[c] = currentStreamId[c] /\ opening'[c] = waits
      /\ suspended'[c] = suspended[c]
      /\ manualClose'[c] = closed /\ finalized'[c] = done /\ toPage'[c] = messages
  BY <1>1, Touched
<1>3. Extended(toWorker'[c], toWorker[c], PostedBy(c))
  <2>1. CASE toWorker' = toWorker
    BY <2>1, Quiet
  <2>2. CASE /\ toWorker' = Posting(c, Request("close_stream", currentStreamId[c]))
             /\ ~InUse(c)'
    <3>1. Request("close_stream", currentStreamId[c]) \in PostedBy(c)
      BY <2>2, MayBePosted
    <3> QED BY <2>2, <3>1, Says, Untouched
  <2> QED BY <2>1, <2>2
<1>4. InUse(c)' => InUse(c)
  BY <1>2 DEF InUse
<1>5. \/ finalized'[c] /\ Len(toPage'[c]) = 0
      \/ /\ Shortened(toPage'[c], toPage[c])
         /\ finalized'[c] = finalized[c]
         /\ \/ /\ opening'[c] = opening[c]
               /\ ~(About(c, 1) /\ toPage[c][1].action = "open_stream")
            \/ ~opening'[c] /\ (Clears(c, 1) \/ ~InUse(c)')
  <2>1. CASE done /\ messages = <<>>
    BY <1>2, <2>1
  <2>2. CASE ~(done /\ messages = <<>>)
    BY <1>1, <1>2, <2>2 DEF Takes
  <2> QED BY <2>1, <2>2
<1>6. Posts(c)
  BY <1>2, <1>3, <1>4, <1>5 DEF Posts
<1> QED BY <1>2, <1>6 DEF PageEffect

\* A listener may close; then the page does not use the socket any more.
LEMMA ListenerPosts ==
  ASSUME Typed, NEW c \in Ports, NEW closes \in BOOLEAN, ListenerCloses(c, closes)
  PROVE  /\ manualClose' = [manualClose EXCEPT ![c] = manualClose[c] \/ closes]
         /\ \/ toWorker' = toWorker
            \/ /\ toWorker' = Posting(c, Request("close_stream", currentStreamId[c]))
               /\ ~InUse(c)'
BY DEF ListenerCloses, InUse, Typed, ClientTypeOK

\* sharedWorker.onerror.
LEMMA WorkerErrorEffect ==
  ASSUME Typed, NEW c \in Ports, WorkerError(c), portOf' = portOf
  PROVE  PageEffect(c)
<1>1. PICK closes \in BOOLEAN : ListenerCloses(c, closes)
  BY DEF WorkerError
<1>2. /\ manualClose' = [manualClose EXCEPT ![c] = manualClose[c] \/ closes]
      /\ \/ toWorker' = toWorker
         \/ /\ toWorker' = Posting(c, Request("close_stream", currentStreamId[c]))
            /\ ~InUse(c)'
  BY <1>1, ListenerPosts
<1>3. Changes(c, currentStreamId[c], opening[c], suspended[c], manualClose[c] \/ closes, TRUE, <<>>)
  BY <1>2, Untouched DEF WorkerError, Changes
<1>4. Takes(c, opening[c], TRUE, <<>>)
  BY DEF Takes
<1> QED BY <1>2, <1>3, <1>4, Untouched, MessageEffect

\* A message that only goes: it does not answer the request to open the stream.
LEMMA ConsumeEffect ==
  ASSUME Typed, NEW c \in Ports, NEW event, Consume(c, event), portOf' = portOf, Receives(c),
         ~(About(c, 1) /\ toPage[c][1].action = "open_stream")
  PROVE  PageEffect(c)
<1>1. /\ toPage' = [toPage EXCEPT ![c] = Tail(toPage[c])] /\ toWorker' = toWorker
      /\ UNCHANGED <<currentStreamId, opening, suspended, manualClose, finalized>>
  BY DEF Consume, client, connection, lifecycle
<1>2. Changes(c, currentStreamId[c], opening[c], suspended[c], manualClose[c], finalized[c],
              Tail(toPage[c]))
  BY <1>1, Untouched DEF Changes
<1>3. Takes(c, opening[c], finalized[c], Tail(toPage[c]))
  BY DEF Takes, Receives
<1>4. opening[c] \in BOOLEAN
  BY Untouched
<1> QED BY <1>1, <1>2, <1>3, <1>4, MessageEffect

\* handleLogicalClose.
LEMMA LogicalCloseEffect ==
  ASSUME Typed, NEW c \in Ports, HandleLogicalClose(c), portOf' = portOf, Receives(c)
  PROVE  PageEffect(c)
<1>1. PICK closes \in BOOLEAN :
        /\ ListenerCloses(c, closes)
        /\ opening' = [opening EXCEPT ![c] = FALSE]
        /\ finalized' = [finalized EXCEPT ![c] = manualClose'[c] \/ ~suspended[c]]
        /\ toPage' = [toPage EXCEPT ![c] = IF finalized'[c] THEN <<>> ELSE Tail(toPage[c])]
        /\ UNCHANGED <<currentStreamId, suspended>>
  BY DEF HandleLogicalClose
<1> DEFINE closed == manualClose[c] \/ closes
           done == manualClose'[c] \/ ~suspended[c]
           messages == IF done THEN <<>> ELSE Tail(toPage[c])
<1>2. /\ manualClose' = [manualClose EXCEPT ![c] = closed]
      /\ \/ toWorker' = toWorker
         \/ /\ toWorker' = Posting(c, Request("close_stream", currentStreamId[c]))
            /\ ~InUse(c)'
  BY <1>1, ListenerPosts
<1>3. finalized'[c] = done /\ done \in BOOLEAN
  BY <1>1 DEF Typed, ClientTypeOK
<1>4. Changes(c, currentStreamId[c], FALSE, suspended[c], closed, done, messages)
  <2>1. toPage' = [toPage EXCEPT ![c] = messages]
    BY <1>1, <1>3
  <2> QED BY <1>1, <1>2, <2>1, Untouched DEF Changes
<1>5. ~InUse(c)'
  BY <1>1, <1>3 DEF InUse
<1>6. Takes(c, FALSE, done, messages)
  BY <1>5 DEF Takes, Receives, Typed, ClientTypeOK
<1>7. (manualClose[c] => closed) /\ (finalized[c] => done)
  BY DEF Receives
<1> HIDE DEF closed, done, messages
<1> QED BY <1>2, <1>4, <1>6, <1>7, MessageEffect

\* handleWorkerMessage, branch by branch.
LEMMA HandlesEffect ==
  ASSUME Typed, NEW c \in Ports, HandleWorkerMessage(c), portOf' = portOf
  PROVE  PageEffect(c)
<1> DEFINE m == toPage[c][1]
<1>1. Receives(c) => /\ NextMessage(c) = m /\ m \in Tidings \cup Replies
                     /\ toPage[c] # <<>> /\ ~finalized[c]
  BY NextIsFirst DEF Receives
<1>2. ASSUME NEW event, Current(c, event)
      PROVE  Receives(c) /\ m.event = event /\ About(c, 1)
             /\ (event \notin {"ok", "fail"} => m.action = "none")
  <2>1. Receives(c) /\ NextMessage(c).event = event
        /\ NextMessage(c).stream = currentStreamId[c]
    BY <1>2 DEF Current, OfCurrentStream
  <2> QED BY <1>1, <2>1 DEF About, Tidings, Replies
<1>3. CASE IgnoreFormerStream(c)
  BY <1>1, <1>3, ConsumeEffect DEF IgnoreFormerStream, OfCurrentStream, About
<1>4. CASE SendFails(c)
  BY <1>1, <1>2, <1>4, ConsumeEffect DEF SendFails
<1>5. CASE Message(c) \/ SocketError(c)
  BY <1>2, <1>5, ConsumeEffect DEF Message, SocketError
<1>6. CASE CloseFails(c) \/ Closed(c)
  BY <1>2, <1>6, LogicalCloseEffect DEF CloseFails, Closed, TakeFailedClose
<1>7. CASE Accepted(c)
  <2> DEFINE waits == opening[c] /\ NextMessage(c).action # "open_stream"
  <2>1. /\ opening' = [opening EXCEPT ![c] = waits]
        /\ toPage' = [toPage EXCEPT ![c] = Tail(toPage[c])] /\ toWorker' = toWorker
        /\ UNCHANGED <<currentStreamId, suspended, manualClose, finalized>>
    BY <1>7 DEF Accepted, lifecycle
  <2>2. Changes(c, currentStreamId[c], waits, suspended[c], manualClose[c], finalized[c],
                Tail(toPage[c]))
    BY <2>1, Untouched DEF Changes
  <2>3. Receives(c) /\ About(c, 1)
    BY <1>2, <1>7 DEF Accepted
  <2>4. Takes(c, waits, finalized[c], Tail(toPage[c])) /\ waits \in BOOLEAN
    BY <1>1, <2>3, Untouched DEF Takes, Clears
  <2> HIDE DEF waits
  <2> QED BY <2>1, <2>2, <2>4, MessageEffect
<1>8. CASE OpenFails(c)
  <2>1. PICK closes \in BOOLEAN : ListenerCloses(c, closes)
    BY <1>8 DEF OpenFails
  <2> DEFINE closed == manualClose[c] \/ closes
  <2>2. /\ manualClose' = [manualClose EXCEPT ![c] = closed]
        /\ \/ toWorker' = toWorker
           \/ /\ toWorker' = Posting(c, Request("close_stream", currentStreamId[c]))
              /\ ~InUse(c)'
    BY <2>1, ListenerPosts
  <2>3. Changes(c, currentStreamId[c], FALSE, suspended[c], closed, finalized[c], Tail(toPage[c]))
    BY <1>8, <2>2, Untouched DEF OpenFails, Changes
  <2>4. Clears(c, 1) /\ Receives(c)
    BY <1>1, <1>2, <1>8 DEF OpenFails, Clears
  <2>5. Takes(c, FALSE, finalized[c], Tail(toPage[c]))
    BY <1>1, <2>4 DEF Takes
  <2>6. manualClose[c] => closed
    OBVIOUS
  <2> HIDE DEF closed
  <2> QED BY <2>2, <2>3, <2>5, <2>6, MessageEffect
<1>9. CASE Opened(c)
  <2>1. /\ opening' = [opening EXCEPT ![c] = FALSE]
        /\ toPage' = [toPage EXCEPT ![c] = Tail(toPage[c])]
        /\ UNCHANGED <<currentStreamId, suspended, manualClose, finalized>>
        /\ \/ /\ ~Wanted(c)
              /\ toWorker' = Posting(c, Request("close_stream", currentStreamId[c]))
           \/ toWorker' = toWorker
    BY <1>9 DEF Opened, lifecycle, CloseLogical
  <2>2. \/ toWorker' = toWorker
        \/ /\ toWorker' = Posting(c, Request("close_stream", currentStreamId[c]))
           /\ ~InUse(c)'
    BY <2>1 DEF Wanted, Listening, InUse
  <2>3. Changes(c, currentStreamId[c], FALSE, suspended[c], manualClose[c], finalized[c],
                Tail(toPage[c]))
    BY <2>1, Untouched DEF Changes
  <2>4. Clears(c, 1) /\ Receives(c)
    BY <1>2, <1>9 DEF Opened, Clears
  <2>5. Takes(c, FALSE, finalized[c], Tail(toPage[c]))
    BY <1>1, <2>4 DEF Takes
  <2> QED BY <2>2, <2>3, <2>5, MessageEffect
<1>10. CASE Reconnecting(c)
  <2>0. /\ Receives(c)
        /\ ~(About(c, 1) /\ toPage[c][1].action = "open_stream")
    BY <1>2, <1>10 DEF Reconnecting
  <2>1. CASE Consume(c, "nothing")
    BY <2>0, <2>1, ConsumeEffect
  <2>2. CASE /\ toPage' = [toPage EXCEPT ![c] = Tail(toPage[c])] /\ toWorker' = toWorker
             /\ UNCHANGED <<currentStreamId, opening, suspended, manualClose, finalized>>
    <3>1. Changes(c, currentStreamId[c], opening[c], suspended[c], manualClose[c], finalized[c],
                  Tail(toPage[c]))
      BY <2>2, Untouched DEF Changes
    <3>2. Takes(c, opening[c], finalized[c], Tail(toPage[c]))
      BY <1>1, <2>0 DEF Takes
    <3>3. opening[c] \in BOOLEAN
      BY Untouched
    <3> QED BY <2>2, <3>1, <3>2, <3>3, MessageEffect
  <2> QED BY <1>10, <2>1, <2>2 DEF Reconnecting, lifecycle
<1>11. CASE HeartbeatFails(c)
  <2>0. /\ Receives(c) /\ HeartbeatFailed(c, 1) /\ m.action = "heartbeat"
    BY <1>1, <1>2, <1>11 DEF HeartbeatFails, HeartbeatFailed
  <2>1. CASE Consume(c, "error")
    BY <2>0, <2>1, ConsumeEffect
  <2>2. CASE /\ Listening(c) /\ ~suspended[c] /\ Reopen(c)
             /\ toPage' = [toPage EXCEPT ![c] = Tail(toPage[c])]
             /\ UNCHANGED <<currentStreamId, suspended, manualClose, finalized>>
    <3>1. opening' = [opening EXCEPT ![c] = TRUE]
      BY <2>2 DEF Reopen, OpenStreamOf
    <3>2. CASE opening[c] /\ toWorker' = toWorker
      <4>1. Changes(c, currentStreamId[c], TRUE, suspended[c], manualClose[c], finalized[c],
                    Tail(toPage[c]))
        BY <2>2, <3>1, <3>2, Untouched DEF Changes
      <4>2. Takes(c, TRUE, finalized[c], Tail(toPage[c]))
        BY <1>1, <2>0, <3>2, Untouched DEF Takes
      <4> QED BY <3>2, <4>1, <4>2, MessageEffect
    <3>3. CASE /\ ~opening[c]
               /\ toWorker' = Posting(c, Request("open_stream", currentStreamId[c]))
      <4>1. Changes(c, currentStreamId[c], TRUE, suspended[c], manualClose[c], finalized[c],
                    Tail(toPage[c]))
        BY <2>2, <3>1, <3>3, Untouched DEF Changes
      <4>2. Shortened(Tail(toPage[c]), toPage[c]) /\ Tail(toPage[c]) \in Seq(Tidings \cup Replies)
        BY <1>1, <2>0, NextIsFirst
      <4>3. /\ Alone(c)
            /\ currentStreamId'[c] = currentStreamId[c] /\ opening'[c] = TRUE
            /\ suspended'[c] = suspended[c]
            /\ manualClose'[c] = manualClose[c] /\ finalized'[c] = finalized[c]
            /\ toPage'[c] = Tail(toPage[c])
        <5> DEFINE rest == Tail(toPage[c])
                   waits == TRUE
        <5>1. /\ Changes(c, currentStreamId[c], waits, suspended[c], manualClose[c],
                         finalized[c], rest)
              /\ rest \in Seq(Tidings \cup Replies) /\ waits \in BOOLEAN
          BY <4>1, <4>2
        <5> HIDE DEF rest, waits
        <5>2. /\ Alone(c)
              /\ currentStreamId'[c] = currentStreamId[c] /\ opening'[c] = waits
              /\ suspended'[c] = suspended[c]
              /\ manualClose'[c] = manualClose[c] /\ finalized'[c] = finalized[c]
              /\ toPage'[c] = rest
          BY <5>1, Touched
        <5> QED BY <5>2 DEF rest, waits
      <4>4. /\ Extended(toWorker'[c], toWorker[c], {Request("open_stream", currentStreamId[c])})
            /\ Len(toWorker'[c]) = Len(toWorker[c]) + 1
        BY <3>3, Says, Untouched
      <4>5. InUse(c)
        BY <2>2 DEF InUse, Listening
      <4>6. Reopens(c)
        BY <2>0, <3>3, <4>2, <4>3, <4>4, <4>5 DEF Reopens
      <4> QED BY <4>3, <4>6 DEF PageEffect
    <3> QED BY <2>2, <3>2, <3>3 DEF Reopen, OpenStreamOf
  <2> QED BY <1>11, <2>1, <2>2 DEF HeartbeatFails, lifecycle
<1> QED BY <1>3, <1>4, <1>5, <1>6, <1>7, <1>8, <1>9, <1>10, <1>11 DEF HandleWorkerMessage

-----------------------------------------------------------------------------
(* The invariant of pages and worker together. *)

IInv == Typed /\ Disjoint /\ \A c \in Ports : PortInv(c)

Moves(c) == Unserved(c) \/ Served(c) \/ Posts(c) \/ Reopens(c)

\* Every step but a return from the page cache keeps the invariant of all ports.
LEMMA MovesKeep ==
  ASSUME IInv, Typed', \A c \in Ports : Moves(c)
  PROVE  IInv'
<1>0. Channels /\ Channels' /\ currentStreamId \in [Ports -> StreamIds]
  BY TypedChannels DEF IInv, Typed, RequestsTyped, Channels
<1>1. ASSUME NEW c \in Ports PROVE PortInv(c)'
  <2>1. PortInv(c) /\ currentStreamId[c] \in StreamIds
    BY <1>0 DEF IInv
  <2> QED BY <1>0, <2>1, UnservedKeeps, ServedKeeps, PostsKeeps, ReopensKeeps DEF Moves
<1>2. ASSUME NEW c \in Ports, NEW s \in StreamIds, HeldBy(c, s)' PROVE HeldBy(c, s)
  BY <1>0, <1>2, HoldsNoMore DEF Moves
<1>3. Disjoint'
  BY <1>2 DEF IInv, Disjoint
<1> QED BY <1>1, <1>3 DEF IInv

\* A return from the page cache keeps it.
LEMMA ShowsKeep ==
  ASSUME IInv, Typed', NEW c \in Ports, NEW s \in StreamIds, Shows(c, s),
         \A d \in Ports \ {c} : Unserved(d)
  PROVE  IInv'
<1>0. Channels /\ Channels' /\ currentStreamId \in [Ports -> StreamIds]
  BY TypedChannels DEF IInv, Typed, RequestsTyped, Channels
<1>1. ASSUME NEW d \in Ports PROVE PortInv(d)'
  <2>1. PortInv(d) /\ currentStreamId[d] \in StreamIds
    BY <1>0 DEF IInv
  <2> QED BY <1>0, <2>1, UnservedKeeps, ShowsKeeps
<1>2. ASSUME NEW d \in Ports, NEW t \in StreamIds, HeldBy(d, t)'
      PROVE  HeldBy(d, t) \/ (d = c /\ t = s)
  BY <1>0, <1>2, HoldsNoMore, ShownHolds
<1>3. \A d \in Ports : ~HeldBy(d, s)
  BY DEF Shows
<1>4. Disjoint'
  BY <1>2, <1>3 DEF IInv, Disjoint
<1> QED BY <1>1, <1>4 DEF IInv

\* A port that a step does not touch is unserved.
LEMMA AloneUnserved ==
  ASSUME Typed, NEW d \in Ports, portOf' = portOf,
         SameClient(d), toWorker'[d] = toWorker[d], toPage'[d] = toPage[d]
  PROVE  Unserved(d)
BY SameExtended DEF Typed, Unserved, Gets

\* A page's step, given its effect.
LEMMA PageKeeps ==
  ASSUME IInv, NEW c \in Ports, PageEffect(c), portOf' = portOf, RequestsTyped', ClientTypeOK'
  PROVE  IInv'
<1>1. Typed /\ Typed'
  BY DEF IInv, PageEffect, Alone, Typed
<1>2. \A d \in Ports \ {c} : Unserved(d)
  BY <1>1, AloneUnserved DEF PageEffect, Alone
<1>3. CASE Posts(c) \/ Reopens(c)
  BY <1>1, <1>2, <1>3, MovesKeep DEF Moves
<1>4. CASE \E s \in StreamIds : Shows(c, s)
  BY <1>1, <1>2, <1>4, ShowsKeep
<1> QED BY <1>3, <1>4 DEF PageEffect

\* Every page action of the composition.
LEMMA PageStepKeeps ==
  ASSUME IInv, WP!Inv, ClientTypeOK', NEW c \in Ports, PageAction(c) \/ Heartbeats(c) \/ Handles(c)
  PROVE  IInv' /\ PageEffect(c)
<1>0. Typed /\ WorkerKnows
  BY KnowsByInv DEF IInv
<1>1. portOf' = portOf
  BY DEF PageAction, Heartbeats, Handles, PageStep, workerVars
<1>2. RequestsTyped'
  BY <1>0, PageStepRequests DEF Typed, PageAction, Heartbeats, Handles, PageStep
<1>3. PageEffect(c)
  <2>1. CASE PageAction(c)
    BY <1>0, <1>1, <2>1, PageHideEffect, PageShowEffect, PageSendsEffect, PageClosesEffect,
       WorkerErrorEffect DEF PageAction, PageStep
  <2>2. CASE Heartbeats(c)
    BY <1>0, <1>1, <2>2, PageSendsEffect DEF Heartbeats, PageStep
  <2>3. CASE Handles(c)
    BY <1>0, <1>1, <2>3, HandlesEffect DEF Handles, PageStep
  <2> QED BY <2>1, <2>2, <2>3
<1> QED BY <1>1, <1>2, <1>3, PageKeeps

\* IInv is inductive, relative to the worker's invariant and the client's types.
LEMMA StepKeeps ==
  ASSUME IInv, WP!Inv, WP!Inv', ClientTypeOK', [Next]_vars
  PROVE  IInv'
<1>0. Typed
  BY DEF IInv
<1>1. CASE UNCHANGED vars
  <2>1. Typed'
    BY <1>0, <1>1
    DEF vars, clientVars, client, connection, lifecycle, channels, Typed, RequestsTyped, ClientTypeOK
  <2>2. ASSUME NEW c \in Ports PROVE Unserved(c)
    BY <1>0, <1>1, AloneUnserved
    DEF vars, clientVars, client, connection, lifecycle, channels, workerVars, SameClient
  <2> QED BY <2>1, <2>2, MovesKeep DEF Moves
<1>2. ASSUME NEW c \in Ports, PageAction(c) \/ Heartbeats(c) \/ Handles(c) PROVE IInv'
  BY <1>2, PageStepKeeps
<1>3. ASSUME NEW c \in Ports, HandleRequest(c) PROVE IInv'
  BY <1>0, <1>3, RequestStep, MovesKeep DEF Moves
<1>4. CASE WorkerStep(Worker!Housekeeping) \/ WorldStep(Worker!SocketEvent)
  BY <1>0, <1>4, OwnStep, MovesKeep DEF Moves, WorldStep, WorkerStep
<1> QED BY <1>1, <1>2, <1>3, <1>4 DEF Next

-----------------------------------------------------------------------------
(* The end of a client that the page has closed comes. *)

EndComes(c) ==
  manualClose[c] /\ ~finalized[c] =>
    \/ \E i \in 1..Len(toWorker[c]) : Asks(c, i, "close_stream")
    \/ \E i \in 1..Len(toPage[c]) : ToldClosed(c, i)

\* A request to close a stream, once served, has told the page that the stream is closed.
LEMMA CloseServed ==
  ASSUME Typed, WP!Inv, NEW c \in Ports, HandleRequest(c), ~finalized[c],
         toWorker[c][1].action = "close_stream"
  PROVE  \E i \in 1..Len(toPage'[c]) :
           /\ toPage'[c][i].stream = toWorker[c][1].stream
           /\ \/ toPage'[c][i].event = "close"
              \/ toPage'[c][i].event = "fail" /\ toPage'[c][i].action = "close_stream"
<1> DEFINE r == Head(toWorker[c])
           s == r.stream
           T == Tidings \cup Replies
<1>1. /\ toWorker[c] \in Seq(Requests) /\ toWorker[c] # <<>> /\ Serve(c, r)
      /\ toPage' = [d \in Ports |-> Delivered(d, EventsFor(d) \o IF d = c THEN <<AnswerTo(r)>> ELSE <<>>)]
  BY DEF HandleRequest, Typed, RequestsTyped
<1>2. r = toWorker[c][1] /\ r \in Requests
  BY <1>1, TailShortened
<1>3. toPage'[c] = toPage[c] \o (EventsFor(c) \o <<AnswerTo(r)>>)
  BY <1>1 DEF Delivered
<1>4. r.action = "close_stream" /\ s \in StreamIds /\ toPage[c] \in Seq(T)
  BY <1>2 DEF Requests, Typed
<1> HIDE DEF r, T
<1>5. \/ WP!NotOwned(c, s) /\ out' = <<[to |-> {s}, event |-> "fail"]>>
      \/ WP!CloseEffect(c, s)
  <2>1. WP!NotOwned(c, s) \/ WP!CloseStream(c, s)
    BY <1>1, <1>4, SameDefinitions DEF Serve
  <2> QED BY <1>4, <2>1, WP!RequestEffects, WorkerAssumption
    DEF WP!RequestEffects, WP!SocketWorkerAssumption, Worker!SocketWorkerAssumption
<1>6. CASE out' = <<[to |-> {s}, event |-> "fail"]>>
  <2>1. out' \in WP!Messages /\ Last(out').event = "fail"
    BY <1>4, <1>6, AnswerAlone
  <2>2. AnswerTo(r) = Response("fail", r) /\ AnswerTo(r) \in Replies
    BY <1>2, <2>1 DEF AnswerTo, Response, Replies, Requests
  <2>3. EventsFor(c) \in Seq(PostedFor(c)) /\ PostedFor(c) \subseteq T
    BY <2>1, PostedType DEF PostedFor, T
  <2> DEFINE news == EventsFor(c) \o <<AnswerTo(r)>>
  <2>4. EventsFor(c) \in Seq(T) /\ AnswerTo(r) \in T
    BY <2>2, <2>3 DEF T
  <2>5. news \in Seq(T) /\ Len(news) > 0 /\ news[Len(news)] = AnswerTo(r)
    BY <2>4
  <2>6. toPage'[c] = toPage[c] \o news
    BY <1>3
  <2> HIDE DEF news
  <2>7. /\ Len(toPage'[c]) > 0 /\ Len(toPage'[c]) \in Nat
        /\ toPage'[c][Len(toPage'[c])] = AnswerTo(r)
    BY <1>4, <2>5, <2>6, LastOfConcat
  <2>8. Len(toPage'[c]) \in 1..Len(toPage'[c])
    BY <2>7
  <2> QED BY <1>2, <1>4, <2>2, <2>7, <2>8 DEF Response
<1>7. CASE WP!CloseEffect(c, s)
  <2> DEFINE e == Event("close", s)
             News(i) == LET S == {t \in out'[i].to : OwnerOf(t) = c}
                        IN  IF out'[i].event \in {"ok", "fail"} THEN <<>>
                            ELSE SetToSeq({Event(out'[i].event, t) : t \in S})
             seqs == [i \in DOMAIN out' |-> News(i)]
  <2>1. /\ DOMAIN out' = 1..2
        /\ out'[1].to = {s} /\ out'[1].event = "close" /\ out'[2].event = "ok"
    BY <1>7 DEF WP!CloseEffect
  <2>2. OwnerOf(s) = c
    BY <1>7, WorkerAssumption DEF WP!CloseEffect, OwnerOf, Worker!SocketWorkerAssumption
  <2>3. {Event(out'[1].event, t) : t \in {t \in out'[1].to : OwnerOf(t) = c}} = {e}
    BY <2>1, <2>2
  <2> HIDE DEF e
  <2>4. News(1) = <<e>> /\ News(2) = <<>>
    BY <2>1, <2>3, SetToSeqOfOne
  <2>5. EventsFor(c) = FlattenSeq(seqs)
    BY DEF EventsFor
  <2> HIDE DEF News
  <2>6. seqs \in [1..2 -> Seq({e})] /\ seqs[1] = <<e>> /\ seqs[2] = <<>>
    <3>1. \A i \in 1..2 : News(i) \in Seq({e})
      <4>1. \A i \in 1..2 : i = 1 \/ i = 2
        OBVIOUS
      <4>2. <<e>> \in Seq({e}) /\ <<>> \in Seq({e})
        OBVIOUS
      <4> QED BY <2>4, <4>1, <4>2
    <3>2. seqs = [i \in 1..2 |-> News(i)]
      BY <2>1
    <3> QED BY <2>4, <3>1, <3>2
  <2> HIDE DEF seqs
  <2>7. EventsFor(c) = <<e>> \o <<>>
    BY <2>5, <2>6, FlattenPair
  <2>8. toPage'[c][Len(toPage[c]) + 1] = e /\ Len(toPage[c]) + 1 \in 1..Len(toPage'[c])
    BY <1>3, <1>4, <2>7
  <2> QED BY <1>2, <2>8 DEF e, Event
<1> QED BY <1>5, <1>6, <1>7

\* What a step of the page leaves under way, the page being closed and not finalized.
EndStays(c) ==
  manualClose'[c] /\ ~finalized'[c] =>
    /\ ~finalized[c] /\ currentStreamId'[c] = currentStreamId[c]
    /\ \/ manualClose[c]
          /\ (toWorker'[c] = toWorker[c] \/ \E r : toWorker'[c] = Append(toWorker[c], r))
       \/ toWorker'[c] = Append(toWorker[c], Request("close_stream", currentStreamId[c]))
    /\ \/ toPage'[c] = toPage[c]
       \/ toPage[c] # <<>> /\ toPage'[c] = Tail(toPage[c]) /\ ~ToldClosed(c, 1)

LEMMA EndStaysKeeps ==
  ASSUME Typed, NEW c \in Ports, EndComes(c), EndStays(c)
  PROVE  EndComes(c)'
<1> SUFFICES ASSUME manualClose'[c], ~finalized'[c]
             PROVE  \/ \E i \in 1..Len(toWorker'[c]) : Asks(c, i, "close_stream")'
                    \/ \E i \in 1..Len(toPage'[c]) : ToldClosed(c, i)'
  BY DEF EndComes
<1>0. /\ ~finalized[c] /\ currentStreamId'[c] = currentStreamId[c]
      /\ toWorker[c] \in Seq(Requests) /\ toPage[c] \in Seq(Tidings \cup Replies)
  BY DEF EndStays, Typed, RequestsTyped
<1>1. CASE toWorker'[c] = Append(toWorker[c], Request("close_stream", currentStreamId[c]))
  <2>1. PICK last \in 1..Len(toWorker'[c]) :
          toWorker'[c][last] = Request("close_stream", currentStreamId[c])
    BY <1>0, <1>1
  <2>2. Asks(c, last, "close_stream")'
    BY <1>0, <2>1 DEF Asks, Request
  <2> QED BY <2>1, <2>2
<1>2. CASE /\ manualClose[c]
           /\ toWorker'[c] = toWorker[c] \/ \E r : toWorker'[c] = Append(toWorker[c], r)
  <2>1. ASSUME NEW i \in 1..Len(toWorker[c]), Asks(c, i, "close_stream")
        PROVE  i \in 1..Len(toWorker'[c]) /\ Asks(c, i, "close_stream")'
    <3>1. i \in 1..Len(toWorker'[c]) /\ toWorker'[c][i] = toWorker[c][i]
      BY <1>0, <1>2, <2>1
    <3> QED BY <1>0, <2>1, <3>1 DEF Asks
  <2>2. ASSUME NEW i \in 1..Len(toPage[c]), ToldClosed(c, i)
        PROVE  \E j \in 1..Len(toPage'[c]) : ToldClosed(c, j)'
    <3>1. CASE toPage'[c] = toPage[c]
      BY <1>0, <2>2, <3>1 DEF ToldClosed, About
    <3>2. CASE toPage[c] # <<>> /\ toPage'[c] = Tail(toPage[c]) /\ ~ToldClosed(c, 1)
      <4>1. Shortened(toPage'[c], toPage[c]) /\ Len(toPage'[c]) \in Nat
        <5>1. Shortened(Tail(toPage[c]), toPage[c]) /\ Len(Tail(toPage[c])) \in Nat
          BY <1>0, <3>2, TailShortened
        <5> QED BY <3>2, <5>1
      <4>2. i - 1 \in 1..Len(toPage'[c]) /\ (i - 1) + 1 = i
        BY <2>2, <3>2, <4>1 DEF Shortened
      <4>3. toPage'[c][i - 1] = toPage[c][i]
        BY <4>1, <4>2 DEF Shortened
      <4> QED BY <1>0, <2>2, <4>2, <4>3 DEF ToldClosed, About
    <3> QED BY <3>1, <3>2 DEF EndStays
  <2> QED BY <1>0, <1>2, <2>1, <2>2 DEF EndComes
<1> QED BY <1>1, <1>2 DEF EndStays

\* A listener that closes the client asks for the end of the stream.
LEMMA ListenerEnds ==
  ASSUME Typed, NEW c \in Ports, NEW closes \in BOOLEAN, ListenerCloses(c, closes)
  PROVE  \/ manualClose'[c] = manualClose[c] /\ toWorker'[c] = toWorker[c]
         \/ toWorker'[c] = Append(toWorker[c], Request("close_stream", currentStreamId[c]))
BY DEF ListenerCloses, Posting, Typed, RequestsTyped, ClientTypeOK

\* What a window event, a method or a message does.
LEMMA PageEndStays ==
  ASSUME Typed, NEW c \in Ports, PageAction(c) \/ Heartbeats(c) \/ Handles(c)
  PROVE  EndStays(c)
<1> USE DEF EndStays
<1>0. /\ DOMAIN toPage = Ports /\ DOMAIN toWorker = Ports /\ DOMAIN finalized = Ports
      /\ DOMAIN manualClose = Ports
  BY DEF Typed, RequestsTyped, ClientTypeOK
<1>1. CASE PageHide(c) \/ (\E s \in StreamIds : PageShow(c, s)) \/ HeartbeatTimer(c)
  <2>1. ~manualClose'[c]
    BY <1>1 DEF PageHide, PageShow, HeartbeatTimer, Listening, client, lifecycle
  <2> QED BY <2>1
<1>2. CASE PageSends(c)
  <2>1. /\ UNCHANGED <<currentStreamId, manualClose, finalized, toPage>>
        /\ toWorker'[c] = Append(toWorker[c], Request("send", currentStreamId[c]))
        /\ ~finalized[c] \/ finalized'[c]
    BY <1>0, <1>2 DEF PageSends, client, connection, lifecycle, Posting
  <2> QED BY <2>1
<1>3. CASE PageCloses(c)
  <2>1. /\ UNCHANGED <<currentStreamId, finalized, toPage>>
        /\ toWorker'[c] = Append(toWorker[c], Request("close_stream", currentStreamId[c]))
    BY <1>0, <1>3 DEF PageCloses, CloseLogical, Posting
  <2> QED BY <2>1
<1>4. CASE WorkerError(c)
  BY <1>0, <1>4 DEF WorkerError
<1>5. CASE HandleWorkerMessage(c)
  <2> DEFINE m == toPage[c][1]
  <2>0. ASSUME Receives(c)
        PROVE  /\ NextMessage(c) = m /\ m \in Tidings \cup Replies
               /\ toPage[c] # <<>> /\ ~finalized[c]
    BY <2>0, NextIsFirst DEF Receives
  <2>1. ASSUME NEW event, Current(c, event)
        PROVE  /\ Receives(c) /\ NextMessage(c).event = event
               /\ m.event = event /\ About(c, 1)
    BY <2>0, <2>1 DEF Current, OfCurrentStream, About
  <2>2. ASSUME NEW event, Consume(c, event), Receives(c), ~ToldClosed(c, 1)
        PROVE  EndStays(c)
    BY <1>0, <2>0, <2>2 DEF Consume, client, connection, lifecycle
  <2>3. CASE IgnoreFormerStream(c)
    BY <2>0, <2>2, <2>3 DEF IgnoreFormerStream, OfCurrentStream, ToldClosed, About
  <2>4. CASE SendFails(c) \/ Message(c) \/ SocketError(c)
    <3>1. \E event : Consume(c, event)
      BY <2>4 DEF SendFails, Message, SocketError
    <3>2. Receives(c) /\ ~ToldClosed(c, 1)
      BY <2>0, <2>1, <2>4 DEF SendFails, Message, SocketError, ToldClosed
    <3> QED BY <2>2, <3>1, <3>2
  <2>5. CASE CloseFails(c) \/ Closed(c)
    <3>1. HandleLogicalClose(c)
      BY <2>5 DEF CloseFails, Closed, TakeFailedClose
    <3>2. manualClose'[c] => finalized'[c]
      BY <1>0, <3>1 DEF HandleLogicalClose
    <3> QED BY <3>2
  <2>6. CASE Accepted(c)
    <3>1. Receives(c) /\ ~ToldClosed(c, 1)
      BY <2>1, <2>6 DEF Accepted, ToldClosed
    <3>2. /\ UNCHANGED <<currentStreamId, manualClose, finalized, toWorker>>
          /\ toPage'[c] = Tail(toPage[c])
      BY <1>0, <2>6 DEF Accepted, lifecycle
    <3> QED BY <2>0, <3>1, <3>2
  <2>7. CASE OpenFails(c)
    <3>1. Receives(c) /\ ~ToldClosed(c, 1)
      BY <2>0, <2>1, <2>7 DEF OpenFails, ToldClosed
    <3>2. /\ UNCHANGED <<currentStreamId, finalized>>
          /\ toPage'[c] = Tail(toPage[c])
      BY <1>0, <2>7 DEF OpenFails
    <3>3. \/ manualClose'[c] = manualClose[c] /\ toWorker'[c] = toWorker[c]
          \/ toWorker'[c] = Append(toWorker[c], Request("close_stream", currentStreamId[c]))
      BY <2>7, ListenerEnds DEF OpenFails
    <3> QED BY <2>0, <3>1, <3>2, <3>3
  <2>8. CASE HeartbeatFails(c)
    <3>1. Receives(c) /\ ~ToldClosed(c, 1)
      BY <2>0, <2>1, <2>8 DEF HeartbeatFails, ToldClosed
    <3>2. CASE Consume(c, "error")
      BY <2>2, <3>1, <3>2
    <3>3. CASE Listening(c) /\ UNCHANGED lifecycle
      BY <3>3 DEF Listening, lifecycle
    <3> QED BY <2>8, <3>2, <3>3 DEF HeartbeatFails
  <2>9. CASE Opened(c)
    <3>1. Receives(c) /\ ~ToldClosed(c, 1)
      BY <2>1, <2>9 DEF Opened, ToldClosed
    <3>2. /\ UNCHANGED <<currentStreamId, manualClose, finalized>>
          /\ toPage'[c] = Tail(toPage[c])
      BY <1>0, <2>9 DEF Opened, lifecycle
    <3>3. \/ toWorker'[c] = toWorker[c]
          \/ toWorker'[c] = Append(toWorker[c], Request("close_stream", currentStreamId[c]))
      BY <1>0, <2>9 DEF Opened, CloseLogical, Posting
    <3> QED BY <2>0, <3>1, <3>2, <3>3
  <2>10. CASE Reconnecting(c)
    <3>1. Receives(c) /\ ~ToldClosed(c, 1)
      BY <2>1, <2>10 DEF Reconnecting, ToldClosed
    <3>2. CASE Consume(c, "nothing")
      BY <2>2, <3>1, <3>2
    <3>3. CASE ~manualClose[c] /\ UNCHANGED lifecycle
      BY <3>3 DEF lifecycle
    <3> QED BY <2>10, <3>2, <3>3 DEF Reconnecting
  <2> QED BY <1>5, <2>3, <2>4, <2>5, <2>6, <2>7, <2>8, <2>9, <2>10 DEF HandleWorkerMessage
<1> QED BY <1>1, <1>2, <1>3, <1>4, <1>5 DEF PageAction, Heartbeats, Handles, PageStep

\* A step that handles no request of the port takes nothing from it.
LEMMA UnservedEnds ==
  ASSUME Typed, NEW c \in Ports, EndComes(c), Unserved(c)
  PROVE  EndComes(c)'
<1> SUFFICES ASSUME manualClose'[c], ~finalized'[c]
             PROVE  \/ \E i \in 1..Len(toWorker'[c]) : Asks(c, i, "close_stream")'
                    \/ \E i \in 1..Len(toPage'[c]) : ToldClosed(c, i)'
  BY DEF EndComes
<1>1. /\ manualClose[c] /\ ~finalized[c] /\ currentStreamId'[c] = currentStreamId[c]
      /\ toWorker'[c] = toWorker[c]
      /\ Extended(toPage'[c], toPage[c], OthersNews(c)) /\ Len(toPage[c]) \in Nat
  BY TypedChannels DEF Unserved, SameClient, Gets, Channels
<1>2. CASE \E i \in 1..Len(toWorker[c]) : Asks(c, i, "close_stream")
  BY <1>1, <1>2 DEF Asks
<1>3. ASSUME NEW i \in 1..Len(toPage[c]), ToldClosed(c, i)
      PROVE  i \in 1..Len(toPage'[c]) /\ ToldClosed(c, i)'
  <2>1. i \in 1..Len(toPage'[c]) /\ toPage'[c][i] = toPage[c][i]
    BY <1>1 DEF Extended
  <2> QED BY <1>1, <1>3, <2>1 DEF ToldClosed, About
<1> QED BY <1>1, <1>2, <1>3 DEF EndComes

\* Handling the port's next request.
LEMMA ServedEnds ==
  ASSUME Typed, WP!Inv, NEW c \in Ports, EndComes(c), HandleRequest(c), Served(c)
  PROVE  EndComes(c)'
<1> SUFFICES ASSUME manualClose'[c], ~finalized'[c]
             PROVE  \/ \E i \in 1..Len(toWorker'[c]) : Asks(c, i, "close_stream")'
                    \/ \E i \in 1..Len(toPage'[c]) : ToldClosed(c, i)'
  BY DEF EndComes
<1>1. /\ manualClose[c] /\ ~finalized[c] /\ currentStreamId'[c] = currentStreamId[c]
      /\ Shortened(toWorker'[c], toWorker[c])
      /\ Extended(toPage'[c], toPage[c], ServedNews(c, toWorker[c][1]))
      /\ Len(toPage[c]) \in Nat /\ Len(toWorker[c]) \in Nat
  BY TypedChannels DEF Served, SameClient, Gets, Channels
<1>2. ASSUME NEW i \in 1..Len(toWorker[c]), Asks(c, i, "close_stream"), i # 1
      PROVE  \E j \in 1..Len(toWorker'[c]) : Asks(c, j, "close_stream")'
  <2>1. Len(toWorker'[c]) \in Nat
    BY DEF HandleRequest, Typed, RequestsTyped
  <2>2. PICK j \in 1..Len(toWorker'[c]) : j + 1 = i
    <3>1. i - 1 \in 1..Len(toWorker'[c]) /\ (i - 1) + 1 = i
      BY <1>1, <1>2, <2>1 DEF Shortened
    <3> QED BY <3>1
  <2>3. toWorker'[c][j] = toWorker[c][i]
    BY <1>1, <2>2 DEF Shortened
  <2> QED BY <1>1, <1>2, <2>2, <2>3 DEF Asks
<1>3. CASE Asks(c, 1, "close_stream")
  <2>1. \E i \in 1..Len(toPage'[c]) :
          /\ toPage'[c][i].stream = toWorker[c][1].stream
          /\ \/ toPage'[c][i].event = "close"
             \/ toPage'[c][i].event = "fail" /\ toPage'[c][i].action = "close_stream"
    BY <1>1, <1>3, CloseServed DEF Asks
  <2> QED BY <1>1, <1>3, <2>1 DEF Asks, ToldClosed, About
<1>4. ASSUME NEW i \in 1..Len(toPage[c]), ToldClosed(c, i)
      PROVE  i \in 1..Len(toPage'[c]) /\ ToldClosed(c, i)'
  <2>1. i \in 1..Len(toPage'[c]) /\ toPage'[c][i] = toPage[c][i]
    BY <1>1 DEF Extended
  <2> QED BY <1>1, <1>4, <2>1 DEF ToldClosed, About
<1> QED BY <1>1, <1>2, <1>3, <1>4 DEF EndComes

\* Every step keeps the end of every closed client under way.
LEMMA StepEnds ==
  ASSUME IInv, WP!Inv, WP!Inv', ClientTypeOK', [Next]_vars, NEW c \in Ports, EndComes(c)
  PROVE  EndComes(c)'
<1>0. Typed
  BY DEF IInv
<1>1. CASE UNCHANGED vars
  BY <1>1
  DEF vars, clientVars, client, connection, lifecycle, channels, EndComes, Asks, ToldClosed, About
<1>2. ASSUME NEW d \in Ports, PageAction(d) \/ Heartbeats(d) \/ Handles(d) PROVE EndComes(c)'
  <2>1. CASE d = c
    BY <1>0, <1>2, <2>1, PageEndStays, EndStaysKeeps
  <2>2. CASE d # c
    <3>1. PageEffect(d)
      BY <1>2, PageStepKeeps
    <3>2. portOf' = portOf
      BY <1>2 DEF PageAction, Heartbeats, Handles, PageStep, workerVars
    <3>3. Unserved(c)
      BY <1>0, <2>2, <3>1, <3>2, AloneUnserved DEF PageEffect, Alone
    <3> QED BY <1>0, <3>3, UnservedEnds
  <2> QED BY <2>1, <2>2
<1>3. ASSUME NEW d \in Ports, HandleRequest(d) PROVE EndComes(c)'
  BY <1>0, <1>3, RequestStep, UnservedEnds, ServedEnds
<1>4. CASE WorkerStep(Worker!Housekeeping) \/ WorldStep(Worker!SocketEvent)
  BY <1>0, <1>4, OwnStep, UnservedEnds DEF WorldStep, WorkerStep
<1> QED BY <1>1, <1>2, <1>3, <1>4 DEF Next

\* A client starts with its request to open under way.
LEMMA Initially == Init => IInv
<1> SUFFICES ASSUME Init PROVE IInv
  OBVIOUS
<1>0. /\ currentStreamId \in [Ports -> StreamIds]
      /\ \A c, d \in Ports : c # d => currentStreamId[c] # currentStreamId[d]
      /\ logical = [c \in Ports |-> "CONNECTING"]
      /\ opening = [c \in Ports |-> TRUE]
      /\ suspended = [c \in Ports |-> FALSE]
      /\ manualClose = [c \in Ports |-> FALSE]
      /\ finalized = [c \in Ports |-> FALSE]
      /\ toWorker = [c \in Ports |-> <<Request("open_stream", currentStreamId[c])>>]
      /\ toPage = [c \in Ports |-> <<>>]
  BY DEF Init, ClientInit
<1>1. /\ portOf = [s \in StreamIds |-> None] /\ None \notin Ports
  BY WorkerAssumption DEF Init, Worker!Init, Worker!SocketWorkerAssumption
<1>2. ASSUME NEW c \in Ports
      PROVE  /\ Len(toWorker[c]) = 1 /\ toWorker[c][1].action = "open_stream"
             /\ toWorker[c][1].stream = currentStreamId[c] /\ toWorker[c] \in Seq(Requests)
             /\ Len(toPage[c]) = 0
  <2>1. /\ toWorker[c] = <<Request("open_stream", currentStreamId[c])>>
        /\ Request("open_stream", currentStreamId[c]) \in Requests
    BY <1>0 DEF Request, Requests
  <2> QED BY <1>0, <2>1 DEF Request
<1>3. Typed
  <2>1. toWorker \in [Ports -> Seq(Requests)]
    BY <1>0, <1>2
  <2>2. toPage \in [Ports -> Seq(Tidings \cup Replies)]
    BY <1>0
  <2> QED BY <1>0, <2>1, <2>2 DEF Typed, RequestsTyped, ClientTypeOK, Shown
<1>4. ASSUME NEW c \in Ports PROVE PortInv(c)
  <2>1. /\ currentStreamId[c] \in StreamIds /\ opening[c] /\ ~suspended[c]
        /\ \A s \in StreamIds : portOf[s] # c
    BY <1>0, <1>1
  <2>2. Leaving(c) /\ Meant(c) /\ OpenIsNew(c) /\ CloseIsLast(c)
    BY <1>2, <2>1 DEF Leaving, Meant, OpenIsNew, CloseIsLast, Asks
  <2>3. Wants(c)
    BY <1>2 DEF Wants, Asks
  <2>4. Waiting(c) /\ Forgotten(c) /\ ClosedIsTrue(c) /\ AnswerComes(c)
    BY <1>2, <2>1, <2>3 DEF Waiting, Forgotten, ClosedIsTrue, AnswerComes
  <2> QED BY <2>2, <2>4 DEF PortInv
<1>5. Disjoint
  BY <1>0, <1>1, <1>2 DEF Disjoint, HeldBy
<1> QED BY <1>3, <1>4, <1>5 DEF IInv

\* What is proved of the worker's specification is proved of the composition's worker.
LEMMA SameWorkerSpec == Worker!Spec => WP!Spec
<1>1. Worker!Next <=> WP!Next
  BY SameDefinitions DEF Worker!Next, WP!Next, Worker!PageRequest, WP!PageRequest
<1>2. Worker!Init => WP!Init
  BY SameDefinitions
<1>3. ASSUME UNCHANGED Worker!vars PROVE UNCHANGED WP!vars
  BY <1>3
  DEF Worker!vars, Worker!state, Worker!registry, Worker!catalog, Worker!timers,
      Worker!backlog, Worker!physical, Worker!wire, WP!vars, WP!state, WP!registry,
      WP!catalog, WP!timers, WP!backlog, WP!physical, WP!wire
<1>4. [Worker!Next]_(Worker!vars) => [WP!Next]_(WP!vars)
  BY <1>1, <1>3
<1> QED BY <1>2, <1>4, PTL DEF Worker!Spec, WP!Spec

\* The worker's inductive invariant holds behind the ports.
THEOREM WorkerInvariance == Spec => []WP!Inv
<1>1. WP!Spec => []WP!Inv
  BY WP!Invariance, WorkerAssumption
  DEF WP!Invariance, WP!SocketWorkerAssumption, Worker!SocketWorkerAssumption
<1> QED BY <1>1, WorkerBehindPorts, SameWorkerSpec, PTL

\* What holds of every port, its page and the worker's registry in every state.
THEOREM PortInvariance == Spec => []IInv
<1>1. ClientInv => ClientTypeOK
  BY DEF ClientInv
<1>2. IInv /\ WP!Inv /\ WP!Inv' /\ ClientTypeOK' /\ [Next]_vars => IInv'
  BY StepKeeps
<1> QED BY <1>1, <1>2, Initially, ClientInvariance, WorkerInvariance, PTL DEF Spec

\* The end of every closed client is under way in every state.
LEMMA EndInvariance == Spec => [](\A c \in Ports : EndComes(c))
<1>1. Init => \A c \in Ports : EndComes(c)
  BY DEF Init, ClientInit, EndComes
<1>2. IInv /\ WP!Inv /\ WP!Inv' /\ ClientTypeOK' /\ [Next]_vars /\ (\A c \in Ports : EndComes(c))
        => (\A c \in Ports : EndComes(c))'
  BY StepEnds
<1>3. ClientInv => ClientTypeOK
  BY DEF ClientInv
<1> QED BY <1>1, <1>2, <1>3, ClientInvariance, WorkerInvariance, PortInvariance, PTL DEF Spec

-----------------------------------------------------------------------------
(* What the invariant says in the terms of SharedSocketProperties. *)

\* Requested, in the terms of the invariant.
LEMMA SameRequested ==
  ASSUME Typed, NEW c \in Ports, NEW s \in StreamIds,
         NEW action \in {"open_stream", "heartbeat", "send", "close_stream"}
  PROVE  Requested(c, action, s)
           <=> \E i \in 1..Len(toWorker[c]) :
                 toWorker[c][i].action = action /\ toWorker[c][i].stream = s
<1>1. /\ DOMAIN toWorker[c] = 1..Len(toWorker[c])
      /\ \A i \in 1..Len(toWorker[c]) : toWorker[c][i] \in Requests
  <2>1. toWorker[c] \in Seq(Requests)
    BY DEF Typed, RequestsTyped
  <2> QED BY <2>1
<1>2. ASSUME NEW r \in Requests
      PROVE  r = Request(action, s) <=> r.action = action /\ r.stream = s
  BY DEF Requests, Request
<1> QED BY <1>1, <1>2 DEF Requested

\* The messages under way to a page are numbered from 1.
LEMMA TypedAnswered ==
  ASSUME Typed, NEW c \in Ports
  PROVE  DOMAIN toPage[c] = 1..Len(toPage[c])
<1>1. toPage[c] \in Seq(Tidings \cup Replies)
  BY DEF Typed
<1> QED BY <1>1

\* The types of the client's variables and of the channels: nothing travels over a port
\* but requests, answers and events about streams (socket-protocol.ts).
THEOREM SharedSocketTypeCorrect == Spec => []TypeOK
<1>1. IInv => TypeOK
  <2> SUFFICES ASSUME Typed PROVE TypeOK
    BY DEF IInv
  <2>1. ASSUME NEW c \in Ports, NEW i \in DOMAIN toWorker[c]
        PROVE  /\ toWorker[c][i].stream \in StreamIds
               /\ toWorker[c][i].action \in {"open_stream", "heartbeat", "send", "close_stream"}
    <3>1. toWorker[c] \in Seq(Requests)
      BY DEF Typed, RequestsTyped
    <3>2. toWorker[c][i] \in Requests
      BY <2>1, <3>1
    <3> QED BY <3>2 DEF Requests
  <2>2. ASSUME NEW c \in Ports, NEW i \in DOMAIN toPage[c]
        PROVE  /\ toPage[c][i].stream \in StreamIds
               /\ toPage[c][i].event \in {"ok", "fail", "open", "reconnecting", "message",
                                          "error", "close"}
    <3>1. toPage[c] \in Seq(Tidings \cup Replies)
      BY DEF Typed
    <3>2. toPage[c][i] \in Tidings \cup Replies
      BY <2>2, <3>1
    <3> QED BY <3>2 DEF Tidings, Replies
  <2> QED BY <2>1, <2>2 DEF Typed, RequestsTyped, ClientTypeOK, Shown, TypeOK
<1> QED BY <1>1, PortInvariance, PTL

\* The worker keeps a stream for a page only when it is the one the page uses, or when
\* the page's request to close it is still to be handled: coming back from the page
\* cache leaves no stream behind (shared-socket.ts, pagehide and pageshow).
THEOREM LiveStreamIsOne == Spec => []OneLiveStream
<1>1. IInv /\ WP!Inv => OneLiveStream
  <2> SUFFICES ASSUME IInv, WP!Inv, NEW s \in StreamIds, boundTo[s] # None,
                      s # currentStreamId[portOf[s]]
               PROVE  Requested(portOf[s], "close_stream", s)
    BY DEF OneLiveStream
  <2>1. portOf[s] \in Ports
    BY KnowsByInv DEF WorkerKnows
  <2>2. \E i \in 1..Len(toWorker[portOf[s]]) :
          /\ toWorker[portOf[s]][i].action = "close_stream"
          /\ toWorker[portOf[s]][i].stream = s
    BY <2>1 DEF IInv, PortInv, Leaving
  <2> QED BY <2>1, <2>2, SameRequested DEF IInv
<1> QED BY <1>1, PortInvariance, WorkerInvariance, PTL

\* A client that waits for its stream has a request or an answer under way that will
\* end the wait (openStream, opening), and one that the page has closed has its request or
\* the word of the end of its stream under way (closeLogical, handleLogicalClose): neither
\* is ever left waiting for nothing.
THEOREM WaitIsAnswered == Spec => []AwaitedComes
<1>1. IInv => OpeningIsAnswered
  <2> SUFFICES ASSUME IInv, NEW c \in Ports, opening[c], ~finalized[c],
                      ~Requested(c, "open_stream", currentStreamId[c])
               PROVE  Answered(c, "open_stream", currentStreamId[c])
    BY DEF OpeningIsAnswered
  <2>1. currentStreamId[c] \in StreamIds
    BY DEF IInv, Typed, RequestsTyped
  <2>2. ~Wants(c)
    BY <2>1, SameRequested DEF IInv, Wants, Asks
  <2>3. \E i \in 1..Len(toPage[c]) : About(c, i) /\ toPage[c][i].action = "open_stream"
    BY <2>2 DEF IInv, PortInv, AnswerComes
  <2> QED BY <2>3, TypedAnswered DEF IInv, Answered, About
<1>2. IInv /\ (\A c \in Ports : EndComes(c)) => ClosingIsAnswered
  <2> SUFFICES ASSUME IInv, NEW c \in Ports, EndComes(c), manualClose[c], ~finalized[c]
               PROVE  LET s == currentStreamId[c]
                      IN  \/ Requested(c, "close_stream", s)
                          \/ Told(c, "close", s)
                          \/ \E i \in DOMAIN toPage[c] :
                               toPage[c][i] = Response("fail", Request("close_stream", s))
    BY DEF ClosingIsAnswered
  <2>1. currentStreamId[c] \in StreamIds
    BY DEF IInv, Typed, RequestsTyped
  <2>2. CASE \E i \in 1..Len(toWorker[c]) : Asks(c, i, "close_stream")
    BY <2>1, <2>2, SameRequested DEF IInv, Asks
  <2>3. ASSUME NEW i \in 1..Len(toPage[c]), ToldClosed(c, i)
        PROVE  \/ toPage[c][i] = Event("close", currentStreamId[c])
               \/ toPage[c][i] = Response("fail", Request("close_stream", currentStreamId[c]))
    <3>1. toPage[c][i] \in Tidings \cup Replies
      BY DEF IInv, Typed
    <3>2. ASSUME NEW m \in Tidings \cup Replies
          PROVE  /\ m.event = "close" => m = Event("close", m.stream)
                 /\ m.event = "fail" /\ m.action = "close_stream"
                      => m = Response("fail", Request("close_stream", m.stream))
      BY DEF Tidings, Replies, Event, Response, Request
    <3> QED BY <2>3, <3>1, <3>2 DEF ToldClosed, About
  <2>4. DOMAIN toPage[c] = 1..Len(toPage[c])
    BY TypedAnswered DEF IInv
  <2> QED BY <2>2, <2>3, <2>4 DEF EndComes, Told
<1> QED BY <1>1, <1>2, PortInvariance, EndInvariance, PTL DEF AwaitedComes

\* The current stream is being closed only for a page that is hidden or has called
\* close(): the branch of handleWorkerMessage for any other failed close is dead.
THEOREM ClosesAreMeant == Spec => []CloseIsMeant
<1>1. IInv => CloseIsMeant
  <2> SUFFICES ASSUME IInv, NEW c \in Ports,
                      \/ Requested(c, "close_stream", currentStreamId[c])
                      \/ Answered(c, "close_stream", currentStreamId[c])
               PROVE  manualClose[c] \/ suspended[c] \/ finalized[c]
    BY DEF CloseIsMeant
  <2>1. Meant(c) /\ currentStreamId[c] \in StreamIds
    BY DEF IInv, PortInv, Typed, RequestsTyped
  <2>2. CASE Requested(c, "close_stream", currentStreamId[c])
    BY <2>1, <2>2, SameRequested DEF IInv, Meant, Asks, InUse
  <2>3. CASE Answered(c, "close_stream", currentStreamId[c])
    BY <2>1, <2>3, TypedAnswered DEF IInv, Answered, Meant, About, InUse
  <2> QED BY <2>2, <2>3
<1> QED BY <1>1, PortInvariance, PTL

\* Only a message that the worker has closed the stream, or knows it no more, makes the
\* page hear close.
LEMMA CloseHeard ==
  ASSUME Typed, [Next]_vars, NEW c \in Ports, heard'[c] = "close", ~UNCHANGED vars
  PROVE  /\ Handles(c)
         /\ ToldClosed(c, 1) /\ 1 \in 1..Len(toPage[c])
         /\ HandleLogicalClose(c)
<1>0. ASSUME NEW d \in Ports, NEW event, Hears(d, event) PROVE d = c /\ event = "close"
  BY <1>0 DEF Hears
<1>1. ASSUME NEW d \in Ports, PageAction(d) \/ Heartbeats(d) PROVE FALSE
  BY <1>0, <1>1 DEF PageAction, Heartbeats, PageStep, PageHide, PageShow, HeartbeatTimer,
     PageSends, PageCloses, WorkerError
<1>2. ASSUME NEW d \in Ports, HandleRequest(d) PROVE FALSE
  BY <1>2 DEF HandleRequest
<1>3. ~(WorkerStep(Worker!Housekeeping) \/ WorldStep(Worker!SocketEvent))
  BY DEF WorkerStep, WorldStep
<1>4. PICK d \in Ports : Handles(d)
  BY <1>1, <1>2, <1>3 DEF Next
<1>5. CASE IgnoreFormerStream(d) \/ SendFails(d) \/ Message(d) \/ SocketError(d)
  BY <1>0, <1>5 DEF IgnoreFormerStream, SendFails, Message, SocketError, Consume
<1>6. CASE Accepted(d) \/ OpenFails(d) \/ HeartbeatFails(d)
  BY <1>0, <1>6 DEF Accepted, OpenFails, HeartbeatFails, Consume
<1>7. CASE Opened(d) \/ Reconnecting(d)
  BY <1>0, <1>7 DEF Opened, Reconnecting, Consume
<1>8. CASE CloseFails(d) \/ Closed(d)
  <2>1. HandleLogicalClose(d) /\ d = c
    BY <1>0, <1>8 DEF CloseFails, Closed, TakeFailedClose, HandleLogicalClose
  <2>2. Receives(c) /\ NextMessage(c).stream = currentStreamId[c]
        /\ \/ NextMessage(c).event = "close"
           \/ NextMessage(c).event = "fail" /\ NextMessage(c).action = "close_stream"
    BY <1>8, <2>1 DEF CloseFails, Closed, Current, OfCurrentStream
  <2>3. NextMessage(c) = toPage[c][1] /\ 1 \in 1..Len(toPage[c])
    BY <2>2, NextIsFirst DEF Receives
  <2> QED BY <1>4, <2>1, <2>2, <2>3 DEF ToldClosed, About
<1> QED BY <1>4, <1>5, <1>6, <1>7, <1>8 DEF Handles, PageStep, HandleWorkerMessage

\* When the page hears close, the worker has let go of its stream, and no request under
\* way will make it take the stream up again (handleLogicalClose): the message told the
\* truth and nothing has overtaken it.
THEOREM CloseIsTrue == Spec => CloseHeardIsTrue
<1>1. ASSUME IInv, IInv', WP!Inv, WP!Inv', [Next]_vars
      PROVE  [\A c \in Ports :
                heard'[c] = "close" =>
                  (/\ boundTo[currentStreamId[c]] = None
                   /\ ~Requested(c, "open_stream", currentStreamId[c]))']_vars
  <2> USE <1>1
  <2> SUFFICES ASSUME ~UNCHANGED vars, NEW c \in Ports, heard'[c] = "close"
               PROVE  /\ boundTo'[currentStreamId'[c]] = None
                      /\ ~Requested(c, "open_stream", currentStreamId[c])'
    OBVIOUS
  <2>1. /\ Handles(c) /\ ToldClosed(c, 1) /\ 1 \in 1..Len(toPage[c]) /\ HandleLogicalClose(c)
    BY CloseHeard DEF IInv
  <2>2. /\ currentStreamId' = currentStreamId /\ portOf' = portOf
        /\ \E closes \in BOOLEAN : ListenerCloses(c, closes)
    BY <2>1 DEF HandleLogicalClose, Handles, PageStep, workerVars
  <2>3. portOf[currentStreamId[c]] # c /\ ~Wants(c) /\ currentStreamId[c] \in StreamIds
    BY <2>1 DEF IInv, PortInv, ClosedIsTrue, Typed, RequestsTyped
  <2>4. portOf[currentStreamId[c]] = None
    BY <2>3, KnowsByInv DEF IInv, Disjoint, HeldBy, WorkerKnows
  <2>5. boundTo'[currentStreamId'[c]] = None
    BY <2>2, <2>3, <2>4, KnowsByInv DEF WorkerKnows
  <2>6. ~Wants(c)'
    <3>1. Channels
      BY TypedChannels DEF IInv
    <3>2. toWorker[c] \in Seq(Requests) /\ toWorker \in [Ports -> Seq(Requests)]
      BY DEF IInv, Typed, RequestsTyped
    <3>3. CASE toWorker' = toWorker
      BY <2>2, <2>3, <3>3 DEF Wants, Asks
    <3>4. CASE toWorker' = Posting(c, Request("close_stream", currentStreamId[c]))
      <4>1. toWorker'[c] = Append(toWorker[c], Request("close_stream", currentStreamId[c]))
        BY <3>2, <3>4 DEF Posting
      <4>2. ASSUME NEW i \in 1..Len(toWorker'[c]), toWorker'[c][i].action = "open_stream"
            PROVE  i \in 1..Len(toWorker[c]) /\ toWorker'[c][i] = toWorker[c][i]
        BY <3>2, <4>1, <4>2 DEF Request
      <4> QED BY <2>2, <2>3, <4>2 DEF Wants, Asks
    <3> QED BY <2>2, <3>3, <3>4 DEF ListenerCloses
  <2>7. ~Requested(c, "open_stream", currentStreamId[c])'
    <3>1. Requested(c, "open_stream", currentStreamId[c])'
            => \E i \in 1..Len(toWorker'[c]) :
                 /\ toWorker'[c][i].action = "open_stream"
                 /\ toWorker'[c][i].stream = currentStreamId'[c]
      <4>1. toWorker'[c] \in Seq(Requests)
        BY DEF IInv, Typed, RequestsTyped
      <4> QED BY <4>1 DEF Requested, Request
    <3> QED BY <2>6, <3>1 DEF Wants, Asks
  <2> QED BY <2>5, <2>7
<1> QED BY <1>1, PortInvariance, WorkerInvariance, PTL DEF Spec, CloseHeardIsTrue

-----------------------------------------------------------------------------
(* What the worker promises is kept behind the ports, for the pages of this module as for
   any requests: the ownership of streams, the queues and the life of pools. *)

\* The worker that pages drive still implements StreamOwnership: every answer is true, the
\* limits hold, and close is told exactly to the pages whose streams are lost.
THEOREM OwnershipBehindPorts == Spec => WP!KeepsOwnership
<1>1. WP!Spec => WP!KeepsOwnership
  BY WP!OwnershipKept, WorkerAssumption
  DEF WP!OwnershipKept, WP!SocketWorkerAssumption, Worker!SocketWorkerAssumption
<1> QED BY <1>1, WorkerBehindPorts, SameWorkerSpec, PTL

\* Behind the ports every queue is accounted for, is of streams that are there or says that
\* one is gone, and has its flush timer while its socket is open.
THEOREM BacklogBehindPorts ==
  Spec => [](WP!BacklogScheduled /\ WP!BacklogAccounted /\ WP!BacklogOfMembers)
<1>1. WP!Spec => [](WP!BacklogScheduled)
  BY WP!BacklogIsScheduled, WorkerAssumption
  DEF WP!BacklogIsScheduled, WP!SocketWorkerAssumption, Worker!SocketWorkerAssumption
<1>2. WP!Spec => [](WP!BacklogAccounted)
  BY WP!BacklogIsAccounted, WorkerAssumption
  DEF WP!BacklogIsAccounted, WP!SocketWorkerAssumption, Worker!SocketWorkerAssumption
<1>3. WP!Spec => [](WP!BacklogOfMembers)
  BY WP!BacklogIsOfMembers, WorkerAssumption
  DEF WP!BacklogIsOfMembers, WP!SocketWorkerAssumption, Worker!SocketWorkerAssumption
<1> QED BY <1>1, <1>2, <1>3, WorkerBehindPorts, SameWorkerSpec, PTL

\* Behind the ports, too, empty pools are closed, lost sockets replaced and closing pools
\* emptied, when armed timers fire and closing sockets close.
THEOREM PoolsLiveBehindPorts ==
  Spec => /\ (\A p \in Pools : WP!IdleTimerFires(p)) => WP!IdlePoolCloses
          /\ (\A p \in Pools : WP!ReconnectTimerFires(p)) => WP!LostSocketReplaced
          /\ (\A k \in Sockets : WP!CloseArrives(k)) => WP!ClosingPoolEmpties
<1>1. WP!Spec /\ (\A p \in Pools : WP!IdleTimerFires(p)) => WP!IdlePoolCloses
  BY WP!IdlePoolsClose, WorkerAssumption
  DEF WP!IdlePoolsClose, WP!SocketWorkerAssumption, Worker!SocketWorkerAssumption
<1>2. WP!Spec /\ (\A p \in Pools : WP!ReconnectTimerFires(p)) => WP!LostSocketReplaced
  BY WP!LostSocketsReplaced, WorkerAssumption
  DEF WP!LostSocketsReplaced, WP!SocketWorkerAssumption, Worker!SocketWorkerAssumption
<1>3. WP!Spec /\ (\A k \in Sockets : WP!CloseArrives(k)) => WP!ClosingPoolEmpties
  BY WP!ClosingPoolsEmpty, WorkerAssumption
  DEF WP!ClosingPoolsEmpty, WP!SocketWorkerAssumption, Worker!SocketWorkerAssumption
<1> QED BY <1>1, <1>2, <1>3, WorkerBehindPorts, SameWorkerSpec, PTL
=============================================================================
