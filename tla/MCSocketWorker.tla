--------------------------- MODULE MCSocketWorker ---------------------------
(* SocketWorkerProperties on small sets of model values. *)
EXTENDS SocketWorkerProperties, TLC

\* Ports, streams, pools and sockets are interchangeable: no formula names one of them.
Symmetry == Permutations(Ports) \cup Permutations(StreamIds)
              \cup Permutations(Pools) \cup Permutations(Sockets)

\* What happens next depends neither on what was posted nor on what misled the
\* server, so states that differ in these only are the same state.
View == <<registry, catalog, members, socket, timers, backlog, physical,
          congested, announced>>

\* Pages that keep their streams: they open them, send and never call close.
KeptOpenSpec ==
  Init /\ [][ \/ \E c \in Ports, s \in StreamIds :
                   \/ \E i \in Identities : OpenStream(c, s, i)
                   \/ \E n \in DataBytes : Send(c, s, n)
              \/ Housekeeping
              \/ SocketEvent ]_vars
=============================================================================
