----------------------- MODULE SharedSocketProperties -----------------------
(* What pages and worker keep true together. *)
EXTENDS SharedSocket

Requested(c, action, s) == \E i \in DOMAIN toWorker[c] : toWorker[c][i] = Request(action, s)

\* An answer to such a request, or the event, is on its way to the page.
Answered(c, action, s) ==
  \E i \in DOMAIN toPage[c] : toPage[c][i].action = action /\ toPage[c][i].stream = s
Told(c, event, s) == \E i \in DOMAIN toPage[c] : toPage[c][i] = Event(event, s)

\* The types of the client's variables and of the channels.
TypeOK ==
  /\ logical \in [Ports -> {"CONNECTING", "OPEN", "CLOSING", "CLOSED"}]
  /\ currentStreamId \in [Ports -> StreamIds]
  /\ {opening, suspended, manualClose, finalized} \subseteq [Ports -> BOOLEAN]
  /\ \A c \in Ports :
       /\ \A i \in DOMAIN toWorker[c] :
            /\ toWorker[c][i].stream \in StreamIds
            /\ toWorker[c][i].action
                 \in {"open_stream", "heartbeat", "send", "close_stream"}
       /\ \A i \in DOMAIN toPage[c] :
            /\ toPage[c][i].stream \in StreamIds
            /\ toPage[c][i].event \in {"ok", "fail", "open", "reconnecting", "message",
                                       "error", "close"}

\* The worker keeps a stream for a page only when it is the one the page uses, or when
\* the page's request to close it is still to be handled (shared-socket.ts, pagehide and
\* pageshow): coming back from the page cache leaves no stream behind.
OneLiveStream ==
  \A s \in StreamIds :
    boundTo[s] # None => \/ s = currentStreamId[portOf[s]]
                         \/ Requested(portOf[s], "close_stream", s)

\* A client that shows OPEN, and so hands messages to the page, is one the page wants
\* open: no open event that was under way revives a hidden or closed client.
OpenIsWanted ==
  \A c \in Ports :
    logical[c] = "OPEN" => ~suspended[c] /\ ~manualClose[c] /\ ~finalized[c]

\* A client that waits for its stream (the flag opening, which keeps it from asking
\* again) has a request or an answer under way that will end the wait.
OpeningIsAnswered ==
  \A c \in Ports :
    opening[c] /\ ~finalized[c] =>
      \/ Requested(c, "open_stream", currentStreamId[c])
      \/ Answered(c, "open_stream", currentStreamId[c])

\* A client that the page has closed has its request to close the stream under way, or
\* word that the stream is closed or unknown, which finalizes the client.
ClosingIsAnswered ==
  \A c \in Ports :
    LET s == currentStreamId[c]
    IN  manualClose[c] /\ ~finalized[c] =>
          \/ Requested(c, "close_stream", s)
          \/ Told(c, "close", s)
          \/ \E i \in DOMAIN toPage[c] : toPage[c][i] = Response("fail", Request("close_stream", s))

\* What a client waits for is under way, be it the stream or the end of it.
AwaitedComes == OpeningIsAnswered /\ ClosingIsAnswered

\* The current stream is being closed only for a page that is hidden or has called
\* close(), so handleWorkerMessage's branch for any other failed close is dead.
CloseIsMeant ==
  \A c \in Ports :
    LET s == currentStreamId[c]
    IN  Requested(c, "close_stream", s) \/ Answered(c, "close_stream", s)
          => manualClose[c] \/ suspended[c] \/ finalized[c]

\* When the page hears close, the worker has let go of its stream, and no request
\* under way will make the worker take it up again.
CloseHeardIsTrue ==
  [][\A c \in Ports :
       heard'[c] = "close" =>
         (/\ boundTo[currentStreamId[c]] = None
          /\ ~Requested(c, "open_stream", currentStreamId[c]))']_vars

\* A page that uses its socket gets a stream that the worker forgot, its lease expired,
\* registered again, unless it stops using the socket (handleWorkerMessage, 239-242).
InUse(c) == ~suspended[c] /\ ~manualClose[c] /\ ~finalized[c]
LeaseRepaired ==
  \A c \in Ports :
    InUse(c) /\ boundTo[currentStreamId[c]] = None
      ~> boundTo[currentStreamId[c]] # None \/ ~InUse(c)

\* close() ends in a finalized client, whatever the worker knows of the stream.
ManualCloseFinalizes == \A c \in Ports : manualClose[c] ~> finalized[c]

\* The worker forgets the streams of a client that is finalized, also when the worker
\* was never asked to close them.
FinalizedForgotten ==
  \A c \in Ports : finalized[c] ~> \A s \in StreamIds : boundTo[s] # None => portOf[s] # c
=============================================================================
