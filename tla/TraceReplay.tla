---------------------------- MODULE TraceReplay ----------------------------
(***************************************************************************)
(* A generated trace of commands replayed into a ReferenceStore            *)
(* (generate_valid_trace and replay of src/deep_tests/contract_model.py).  *)
(* The random choices are nondeterministic, and so is after which commands *)
(* the duplicate is applied.  Entities are the numbers next_id takes.      *)
(* A trace is replayed into a store that nobody used before; a store that  *)
(* has no trace is used directly, as ReferenceStore says.                  *)
(***************************************************************************)
EXTENDS ReferenceStore

CONSTANT Steps   \* length of the trace

ASSUME TraceReplayAssumption ==
  /\ Steps \in Nat
  /\ 0..Steps-1 \subseteq Entities
  /\ 1..Steps \subseteq Keys
  /\ Steps =< MaxRevision

VARIABLES
  live,       \* the entities that exist after the commands generated so far
  next_id,
  trace,
  replayed    \* how many commands of the trace were applied

store == vars
replayVars == <<store, live, next_id, trace, replayed>>

ReplayInit ==
  /\ Init
  /\ live = {}
  /\ next_id = 0
  /\ trace = <<>>
  /\ replayed = 0

Emit(kind, e, v) ==
  /\ revision = 0
  /\ Len(trace) < Steps
  /\ trace' = Append(trace, [kind |-> kind, entity_id |-> e, value |-> v,
                             idempotency_key |-> Len(trace) + 1])
  /\ UNCHANGED <<store, replayed>>

EmitCreate(v) ==
  /\ Emit("create", next_id, v)
  /\ live' = live \cup {next_id}
  /\ next_id' = next_id + 1

EmitUpdate(e, v) ==
  /\ Emit("update", e, v)
  /\ UNCHANGED <<live, next_id>>

StillLive(e) == live' = live  \* mutant
NoLongerLive(e) == live' = live \ {e}

EmitDelete(e) ==
  /\ Emit("delete", e, None)
  /\ NoLongerLive(e)
  /\ UNCHANGED next_id

Generate ==
  \/ \E v \in Values : EmitCreate(v) \/ \E e \in live : EmitUpdate(e, v)
  \/ \E e \in live : EmitDelete(e)

Replaying == Len(trace) = Steps

ApplyNext ==
  /\ Replaying
  /\ replayed < Steps
  /\ Apply(trace[replayed + 1])
  /\ replayed' = replayed + 1
  /\ UNCHANGED <<live, next_id, trace>>

\* duplicate_every divides the index of the command applied last.
ApplyDuplicate ==
  /\ Replaying
  /\ replayed > 0
  /\ Apply(trace[replayed])
  /\ UNCHANGED <<live, next_id, trace, replayed>>

UsedDirectly ==
  /\ trace = <<>>
  /\ Next
  /\ UNCHANGED <<live, next_id, trace, replayed>>

ReplayNext == Generate \/ ApplyNext \/ ApplyDuplicate \/ UsedDirectly

ReplaySpec == ReplayInit /\ [][ReplayNext]_replayVars

-----------------------------------------------------------------------------
(* Properties *)

\* The store has carried out exactly the commands replayed so far, in order, so its
\* snapshot depends on the trace and not on the duplicates ("large trace converges
\* across duplicate schedules", tests/test_replay_stress_followup.py:15).
ReplayFollowsTrace == trace # <<>> => LogOf = SubSeq(trace, 1, replayed)

\* The generator keeps its own set of live entities and never asks the store: a
\* replay has no conflict of keys and nothing to raise at any command, and leaves the
\* entities that the generator believes to exist (106-136, 139-145).
ReplayNeverRaises ==
  Replaying /\ trace # <<>> =>
    IF replayed < Steps
      THEN LET c == trace[replayed + 1]
           IN /\ IsNew(c.idempotency_key)
              /\ Exists(c.entity_id) <=> c.kind # "create"
              /\ HasValue(c) <=> c.kind # "delete"
      ELSE DOMAIN values = live
=============================================================================
