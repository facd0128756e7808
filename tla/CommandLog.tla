----------------------------- MODULE CommandLog -----------------------------
(***************************************************************************)
(* What ReferenceStore promises: a log of the commands that took effect,   *)
(* to which a command is appended once, when the log makes it possible.    *)
(***************************************************************************)
EXTENDS Integers, Sequences

CONSTANTS Entities, Values, Keys, None

VARIABLE log

Command ==
  [kind : {"create", "update", "delete"}, entity_id : Entities,
   value : Values \cup {None}, idempotency_key : Keys]

\* The last command about entity e creates or updates it.
Live(e) ==
  \E i \in 1..Len(log) :
    /\ log[i].entity_id = e
    /\ log[i].kind # "delete"
    /\ \A j \in i+1..Len(log) : log[j].entity_id # e

Possible(c) ==
  /\ c.kind = "create" => ~Live(c.entity_id)
  /\ c.kind \in {"update", "delete"} => Live(c.entity_id)
  /\ c.kind \in {"create", "update"} => c.value # None

Accept(c) ==
  /\ \A i \in 1..Len(log) : log[i].idempotency_key # c.idempotency_key
  /\ Possible(c)
  /\ log' = Append(log, c)

Init == log = <<>>

Next == \E c \in Command : Accept(c)

Spec == Init /\ [][Next]_log
=============================================================================
