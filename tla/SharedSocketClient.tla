------------------------- MODULE SharedSocketClient -------------------------
(***************************************************************************)
(* The page's side of a shared socket (shared-socket.ts): one              *)
(* OresSharedSocket for each port.  Requests and what comes back travel    *)
(* over the port in order; a request is answered by a response of its own, *)
(* and events may come in between.                                         *)
(*                                                                         *)
(* A method, a window event and a message handler run to completion, so    *)
(* each is one action, what the page's listeners do meanwhile included: of *)
(* what a listener may call only close() makes a difference while the      *)
(* handler is still running (closes).  The order in which the two sides    *)
(* run, and how long messages are under way, is free.                      *)
(***************************************************************************)
EXTENDS Integers, FiniteSets, Sequences
LOCAL INSTANCE SequencesExt

CONSTANTS
  Ports,              \* one for each page
  StreamIds,          \* logical stream identifiers
  MaxRequests         \* bound on the requests of a page that are not yet answered

ASSUME SharedSocketClientAssumption ==
  /\ MaxRequests \in Nat \ {0}
  /\ IsFiniteSet(StreamIds)  \* at most 256 bytes each (socket-protocol.ts, isSocketStreamId)
  /\ Cardinality(StreamIds) >= Cardinality(Ports)

VARIABLES
  logical,            \* readyState, as the page sees it
  currentStreamId, opening, suspended, manualClose, finalized,
  toWorker, toPage,   \* the two directions of each port
  heard               \* what the page's listeners were called with in the last step

lifecycle == <<suspended, manualClose, finalized>>
connection == <<logical, currentStreamId, opening>>
client == <<connection, lifecycle>>
channels == <<toWorker, toPage>>
clientVars == <<client, channels, heard>>

Request(action, s) == [action |-> action, stream |-> s]

\* Events carry no action; a response repeats the action of the request that
\* request_id names, which the page looks up in pendingActions.
Event(event, s) == [event |-> event, action |-> "none", stream |-> s]
Response(event, request) ==
  [event |-> event, action |-> request.action, stream |-> request.stream]

IsResponse(m) == m.action # "none"
Unanswered(c) == Len(toWorker[c]) + Len(SelectSeq(toPage[c], IsResponse))
MayPost(c) == Unanswered(c) < MaxRequests

StreamsUnderWay(c) ==
  {toWorker[c][i].stream : i \in DOMAIN toWorker[c]}
    \cup {toPage[c][i].stream : i \in DOMAIN toPage[c]}

Posting(c, request) == [toWorker EXCEPT ![c] = Append(@, request)]

ClientInit ==
  /\ currentStreamId \in [Ports -> StreamIds]
  /\ \A c, d \in Ports : c # d => currentStreamId[c] # currentStreamId[d]
  /\ logical = [c \in Ports |-> "CONNECTING"]
  /\ opening = [c \in Ports |-> TRUE]
  /\ suspended = [c \in Ports |-> FALSE]
  /\ manualClose = [c \in Ports |-> FALSE]
  /\ finalized = [c \in Ports |-> FALSE]
  /\ toWorker = [c \in Ports |-> <<Request("open_stream", currentStreamId[c])>>]
  /\ toPage = [c \in Ports |-> <<>>]
  /\ heard = [c \in Ports |-> "nothing"]

Hears(c, event) == heard' = [d \in Ports |-> IF d = c THEN event ELSE "nothing"]

-----------------------------------------------------------------------------
(* Methods and window events. *)

\* openStream, for stream s of a client that is not suspended; was: opening before.
OpenStreamOf(c, s, was) ==
  /\ opening' = [opening EXCEPT ![c] = TRUE]
  /\ \/ was /\ UNCHANGED <<logical, toWorker>>
     \/ /\ ~was
        /\ logical' = [logical EXCEPT ![c] = "CONNECTING"]
        /\ toWorker' = Posting(c, Request("open_stream", s))

CloseLogical(c) ==
  /\ logical' = [logical EXCEPT ![c] = "CLOSING"]
  /\ toWorker' = Posting(c, Request("close_stream", currentStreamId[c]))

Listening(c) == ~manualClose[c] /\ ~finalized[c]

HideSilently(c) ==  \* mutant
  logical' = [logical EXCEPT ![c] = "CLOSING"] /\ UNCHANGED toWorker
HideMisnamed(c) ==  \* mutant
  /\ logical' = [logical EXCEPT ![c] = "CLOSING"]
  /\ toWorker' = Posting(c, Request("close", currentStreamId[c]))
CloseForHide(c) == CloseLogical(c)

\* The browser alternates pagehide and pageshow.
PageHide(c) ==
  /\ Listening(c) /\ ~suspended[c] /\ MayPost(c)
  /\ suspended' = [suspended EXCEPT ![c] = TRUE]
  /\ CloseForHide(c)
  /\ Hears(c, "nothing")
  /\ UNCHANGED <<currentStreamId, opening, manualClose, finalized, toPage>>

\* What opening is when pageshow calls openStream.
StillOpening(c) == opening[c]  \* mutant
OpeningAfterShow(c) == FALSE

\* A client that comes back opens a stream of its own, which nobody knows yet.
PageShow(c, s) ==
  /\ Listening(c) /\ suspended[c]
  /\ suspended' = [suspended EXCEPT ![c] = FALSE]
  /\ currentStreamId' = [currentStreamId EXCEPT ![c] = s]
  /\ OpenStreamOf(c, s, OpeningAfterShow(c))
  /\ Hears(c, "nothing")
  /\ UNCHANGED <<manualClose, finalized, toPage>>

HeartbeatTimer(c) ==
  /\ Listening(c) /\ ~suspended[c] /\ MayPost(c)
  /\ toWorker' = Posting(c, Request("heartbeat", currentStreamId[c]))
  /\ Hears(c, "nothing")
  /\ UNCHANGED <<client, toPage>>

PageSends(c) ==
  /\ logical[c] = "OPEN" /\ MayPost(c)
  /\ toWorker' = Posting(c, Request("send", currentStreamId[c]))
  /\ Hears(c, "nothing")
  /\ UNCHANGED <<client, toPage>>

PageCloses(c) ==
  /\ Listening(c) /\ MayPost(c)
  /\ manualClose' = [manualClose EXCEPT ![c] = TRUE]
  /\ CloseLogical(c)
  /\ Hears(c, "nothing")
  /\ UNCHANGED <<currentStreamId, opening, suspended, finalized, toPage>>

-----------------------------------------------------------------------------
(* Messages of the worker. *)

\* close() called by a listener of the event that the handler is dispatching.
ListenerCloses(c, closes) ==
  /\ closes => Listening(c)
  /\ manualClose' = [manualClose EXCEPT ![c] = @ \/ closes]
  /\ toWorker' = IF closes
                 THEN Posting(c, Request("close_stream", currentStreamId[c]))
                 ELSE toWorker

\* handleLogicalClose.  A listener that calls close() once more leaves the client
\* finalized while it shows CLOSING.
HandleLogicalClose(c) ==
  \E closes \in BOOLEAN :
    /\ ListenerCloses(c, closes)
    /\ opening' = [opening EXCEPT ![c] = FALSE]
    /\ logical' = [logical EXCEPT ![c] = IF closes THEN "CLOSING" ELSE "CLOSED"]
    /\ finalized' = [finalized EXCEPT ![c] = manualClose'[c] \/ ~suspended[c]]
    /\ toPage' = [toPage EXCEPT ![c] = IF finalized'[c] THEN <<>> ELSE Tail(@)]
    /\ Hears(c, "close")
    /\ UNCHANGED <<currentStreamId, suspended>>

\* Nothing but the message goes, and the page hears event.
Consume(c, event) ==
  /\ toPage' = [toPage EXCEPT ![c] = Tail(@)]
  /\ Hears(c, event)
  /\ UNCHANGED <<client, toWorker>>

\* Takes the next message, which is about the current stream.
OfAnyStream(c, m) == TRUE  \* mutant
OfCurrentStream(c, m) == m.stream = currentStreamId[c]

NextMessage(c) == Head(toPage[c])
Receives(c) == toPage[c] # <<>> /\ ~finalized[c]
Current(c, event) ==
  Receives(c) /\ OfCurrentStream(c, NextMessage(c)) /\ NextMessage(c).event = event

\* A response or an event of a stream the client has left.
IgnoreFormerStream(c) ==
  Receives(c) /\ ~OfCurrentStream(c, NextMessage(c)) /\ Consume(c, "nothing")

Accepted(c) ==
  /\ Current(c, "ok")
  /\ opening' = [opening EXCEPT ![c] = @ /\ NextMessage(c).action # "open_stream"]
  /\ toPage' = [toPage EXCEPT ![c] = Tail(@)]
  /\ Hears(c, "nothing")
  /\ UNCHANGED <<logical, currentStreamId, lifecycle, toWorker>>

\* The client gives up instead of sending the request again: it is not finalized, and
\* its heartbeats go on.
OpenFails(c) ==
  /\ Current(c, "fail") /\ NextMessage(c).action = "open_stream"
  /\ \E closes \in BOOLEAN : ListenerCloses(c, closes)
  /\ opening' = [opening EXCEPT ![c] = FALSE]
  /\ logical' = [logical EXCEPT ![c] = "CLOSED"]
  /\ toPage' = [toPage EXCEPT ![c] = Tail(@)]
  /\ Hears(c, "error")
  /\ UNCHANGED <<currentStreamId, suspended, finalized>>

\* The worker does not know the stream any more: open it again.
ReopenNever(c) == UNCHANGED <<logical, opening, toWorker>>  \* mutant
Reopen(c) == OpenStreamOf(c, currentStreamId[c], opening[c])

HeartbeatFails(c) ==
  /\ Current(c, "fail") /\ NextMessage(c).action = "heartbeat"
  /\ \/ /\ Listening(c) /\ ~suspended[c]
        /\ Reopen(c)
        /\ toPage' = [toPage EXCEPT ![c] = Tail(@)]
        /\ Hears(c, "nothing")
        /\ UNCHANGED <<currentStreamId, lifecycle>>
     \/ (manualClose[c] \/ suspended[c]) /\ Consume(c, "error")

\* The stream to be closed is gone already, which counts as closed.
ReportFailedClose(c) == Consume(c, "error")  \* mutant
TakeFailedClose(c) == HandleLogicalClose(c)

\* The client asks whether it is closing or suspended, which CloseIsMeant says it is.
CloseFails(c) ==
  /\ Current(c, "fail") /\ NextMessage(c).action = "close_stream"
  /\ manualClose[c] \/ suspended[c]
  /\ TakeFailedClose(c)

SendFails(c) ==
  Current(c, "fail") /\ NextMessage(c).action = "send" /\ Consume(c, "error")

\* Whether an open event is still wanted.
WantedUnlessClosed(c) == ~manualClose[c]  \* mutant
WantedOnce(c) == Listening(c) /\ ~suspended[c] /\ opening[c]  \* mutant
Wanted(c) == Listening(c) /\ ~suspended[c]

Opened(c) ==
  /\ Current(c, "open")
  /\ opening' = [opening EXCEPT ![c] = FALSE]
  /\ toPage' = [toPage EXCEPT ![c] = Tail(@)]
  /\ \/ ~Wanted(c) /\ CloseLogical(c) /\ Hears(c, "nothing")
     \/ /\ Wanted(c)
        /\ logical' = [logical EXCEPT ![c] = "OPEN"]
        /\ Hears(c, "open")
        /\ UNCHANGED toWorker
  /\ UNCHANGED <<currentStreamId, lifecycle>>

\* A suspended client shows CONNECTING from here on.
Reconnecting(c) ==
  /\ Current(c, "reconnecting")
  /\ \/ manualClose[c] /\ Consume(c, "nothing")
     \/ /\ ~manualClose[c]
        /\ logical' = [logical EXCEPT ![c] = "CONNECTING"]
        /\ toPage' = [toPage EXCEPT ![c] = Tail(@)]
        /\ Hears(c, "reconnecting")
        /\ UNCHANGED <<currentStreamId, opening, lifecycle, toWorker>>

Message(c) ==
  /\ Current(c, "message")
  /\ Consume(c, IF logical[c] = "OPEN" THEN "message" ELSE "nothing")

SocketError(c) == Current(c, "error") /\ Consume(c, "error")

Closed(c) == Current(c, "close") /\ HandleLogicalClose(c)

\* sharedWorker.onerror: the worker did not load or failed.
WorkerError(c) ==
  /\ ~finalized[c]
  /\ \E closes \in BOOLEAN :
       /\ ListenerCloses(c, closes)
       /\ logical' = [logical EXCEPT ![c] = IF closes THEN "CLOSING" ELSE "CLOSED"]
  /\ finalized' = [finalized EXCEPT ![c] = TRUE]
  /\ toPage' = [toPage EXCEPT ![c] = <<>>]
  /\ Hears(c, "error")
  /\ UNCHANGED <<currentStreamId, opening, suspended>>

HandleWorkerMessage(c) ==
  \/ IgnoreFormerStream(c)
  \/ Accepted(c) \/ OpenFails(c) \/ HeartbeatFails(c) \/ CloseFails(c)
  \/ SendFails(c)
  \/ Opened(c) \/ Reconnecting(c) \/ Message(c) \/ SocketError(c) \/ Closed(c)
=============================================================================
