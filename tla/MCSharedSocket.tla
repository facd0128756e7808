--------------------------- MODULE MCSharedSocket ---------------------------
(* SharedSocketProperties on small sets of model values. *)
EXTENDS SharedSocketProperties, TLC

\* Streams, pools and sockets are interchangeable.
Symmetry == Permutations(StreamIds) \cup Permutations(Pools) \cup Permutations(Sockets)

\* What happens next depends neither on what was posted or heard in the last step nor
\* on what misled the server; the action properties look at the step.
View == <<client, channels, Worker!registry, Worker!catalog, members, socket,
          Worker!timers, Worker!backlog, Worker!physical, congested, announced>>
=============================================================================
