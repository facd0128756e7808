--------------------------- MODULE StreamOwnership ---------------------------
(***************************************************************************)
(* What SocketWorker promises to the pages, without pools, sockets and     *)
(* queues: a table that says which port owns a stream.  A page that opens  *)
(* a stream owns it alone until it closes it, or hears close, or its lease *)
(* or its port ends; every request is answered truly and at once.          *)
(***************************************************************************)
EXTENDS Naturals, FiniteSets, Sequences

CONSTANTS Ports, StreamIds, None, MaxPorts, MaxStreams

VARIABLES
  owner,    \* the port that owns a stream, or None
  leaving,  \* streams of an ended lease or port, about to be forgotten
  told      \* what the last step told the owners

table == <<owner, leaving, told>>

Owned == {s \in StreamIds : owner[s] # None}
Owners == {c \in Ports : \E s \in StreamIds : owner[s] = c}

Tell(s, event) == [to |-> {s}, event |-> event]
Answer(s, event) == told' = <<Tell(s, event)>>

Room(c) == /\ Cardinality(Owned) < MaxStreams
           /\ c \in Owners \/ Cardinality(Owners) < MaxPorts

Init == owner = [s \in StreamIds |-> None] /\ leaving = {} /\ told = <<>>

\* A free stream gets an owner.  The answer is fail when the server could not be told.
Open(c, s) ==
  /\ owner[s] = None /\ Room(c)
  /\ owner' = [owner EXCEPT ![s] = c]
  /\ \/ Answer(s, "ok")
     \/ Answer(s, "fail")
     \/ told' = <<Tell(s, "open"), Tell(s, "ok")>>

\* Any other request of the owner that succeeds.
Use(c, s) == owner[s] = c /\ Answer(s, "ok") /\ UNCHANGED owner

Refuse(s) == Answer(s, "fail") /\ UNCHANGED owner

Close(c, s) ==
  /\ owner[s] = c
  /\ owner' = [owner EXCEPT ![s] = None]
  /\ told' = <<Tell(s, "close"), Tell(s, "ok")>>

\* Nobody asked: owners hear events, and exactly those that lose a stream hear close.
Lose(S) ==
  /\ S \subseteq Owned
  /\ owner' = [s \in StreamIds |-> IF s \in S THEN None ELSE owner[s]]
  /\ \A i \in DOMAIN told' : /\ told'[i].to \subseteq Owned
                             /\ told'[i].event \notin {"ok", "fail"}
  /\ \A s \in StreamIds :
       s \in S <=> \E i \in DOMAIN told' : told'[i].event = "close" /\ s \in told'[i].to

\* Leases or a port ended.  Until the last of the streams S is forgotten nothing else
\* happens, and nobody hears of it.
Leave(S) == S # {} /\ S \subseteq Owned /\ leaving' = S /\ told' = <<>> /\ UNCHANGED owner

Forget(s) ==
  /\ s \in leaving
  /\ leaving' = leaving \ {s}
  /\ owner' = [owner EXCEPT ![s] = None]
  /\ told' = <<>>

Request ==
  \E s \in StreamIds :
    \/ Refuse(s)
    \/ \E c \in Ports : Open(c, s) \/ Use(c, s) \/ Close(c, s)

Next ==
  \/ leaving = {} /\ leaving' = {} /\ (Request \/ \E S \in SUBSET StreamIds : Lose(S))
  \/ leaving = {} /\ \E S \in SUBSET StreamIds : Leave(S)
  \/ \E s \in StreamIds : Forget(s)

Spec == Init /\ [][Next]_table

\* No more streams, and no more ports with streams, than the worker admits.
WithinLimits ==
  /\ IsFiniteSet(Owned) /\ Cardinality(Owned) <= MaxStreams
  /\ IsFiniteSet(Owners) /\ Cardinality(Owners) <= MaxPorts
==============================================================================
