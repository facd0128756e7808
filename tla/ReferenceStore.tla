--------------------------- MODULE ReferenceStore ---------------------------
(***************************************************************************)
(* The reference model that the replay tests compare implementations with  *)
(* (src/deep_tests/contract_model.py): a store of entities that takes      *)
(* commands, each with an idempotency key.                                 *)
(*                                                                         *)
(* Callers may send any command at any time: again, late, or under a key   *)
(* that already stands for another intent.  A command that raises changes  *)
(* nothing, so it is a stuttering step.  SHA-256 is taken to be injective: *)
(* the fingerprint is the intent itself.                                   *)
(***************************************************************************)
EXTENDS Integers, Sequences, FiniteSets

CONSTANTS
  Entities, Values, Keys,
  None,
  MaxRevision   \* bound on the number of effects in a run

ASSUME ReferenceStoreAssumption ==
  /\ None \notin Values
  /\ MaxRevision \in Nat

VARIABLES
  values,       \* entity -> value, for the entities that exist
  tombstones,
  revision,
  dedupe,       \* key -> fingerprint and outcome, for the keys that were used
  history,
  answers       \* what callers were answered: commands with their outcomes

vars == <<values, tombstones, revision, dedupe, history, answers>>

Command ==
  [kind : {"create", "update", "delete"}, entity_id : Entities,
   value : Values \cup {None}, idempotency_key : Keys]

Outcome ==
  [revision : Nat, entity_id : Entities, value : Values \cup {None}, deleted : BOOLEAN]

Intent == [kind : {"create", "update", "delete"}, entity_id : Entities,
           value : Values \cup {None}]

Fingerprint(c) == [kind |-> c.kind, entity_id |-> c.entity_id, value |-> c.value]

Init ==
  /\ values = [e \in {} |-> None]
  /\ tombstones = {}
  /\ revision = 0
  /\ dedupe = [k \in {} |-> None]
  /\ history = <<>>
  /\ answers = {}

Exists(e) == e \in DOMAIN values

IsNew(k) == k \notin DOMAIN dedupe

Answer(c, o) == answers' = answers \cup {[command |-> c, outcome |-> o]}

OutcomeOf(e, v) ==
  [revision |-> revision + 1, entity_id |-> e, value |-> v, deleted |-> v = None]

Remember(k, entry) ==
  dedupe' = [x \in DOMAIN dedupe \cup {k} |-> IF x = k THEN entry ELSE dedupe[x]]

\* What every accepted command ends with; v is None for a delete.
RecordForgetfully(c, v) ==  \* mutant
  LET o == OutcomeOf(c.entity_id, v)
  IN /\ revision' = revision + 1
     /\ UNCHANGED dedupe
     /\ history' = Append(history, o)
     /\ Answer(c, o)
Record(c, v) ==
  LET o == OutcomeOf(c.entity_id, v)
  IN /\ revision' = revision + 1
     /\ Remember(c.idempotency_key, [fingerprint |-> Fingerprint(c), outcome |-> o])
     /\ history' = Append(history, o)
     /\ Answer(c, o)

Put(e, v) ==
  values' = [x \in DOMAIN values \cup {e} |-> IF x = e THEN v ELSE values[x]]

HasValue(c) == c.value # None

KeepTombstone(e) == tombstones' = tombstones  \* mutant
DiscardTombstone(e) == tombstones' = tombstones \ {e}

Create(c) ==
  /\ c.kind = "create"
  /\ HasValue(c) /\ ~Exists(c.entity_id)
  /\ Put(c.entity_id, c.value)
  /\ DiscardTombstone(c.entity_id)
  /\ Record(c, c.value)

Update(c) ==
  /\ c.kind = "update"
  /\ HasValue(c) /\ Exists(c.entity_id)
  /\ Put(c.entity_id, c.value)
  /\ UNCHANGED tombstones
  /\ Record(c, c.value)

Delete(c) ==
  /\ c.kind = "delete"
  /\ Exists(c.entity_id)
  /\ values' = [x \in DOMAIN values \ {c.entity_id} |-> values[x]]
  /\ tombstones' = tombstones \cup {c.entity_id}
  /\ Record(c, None)

\* apply, with a key that was not used before.
ApplyNew(c) ==
  /\ IsNew(c.idempotency_key)
  /\ Create(c) \/ Update(c) \/ Delete(c)

\* apply, with a key that was: the same intent has the outcome it had, another
\* intent raises IdempotencyConflict.
ApplyByKeyAlone(c) ==  \* mutant
  /\ ~IsNew(c.idempotency_key)
  /\ Answer(c, dedupe[c.idempotency_key].outcome)
  /\ UNCHANGED <<values, tombstones, revision, dedupe, history>>
ApplyAgain(c) ==
  /\ ~IsNew(c.idempotency_key)
  /\ dedupe[c.idempotency_key].fingerprint = Fingerprint(c)
  /\ Answer(c, dedupe[c.idempotency_key].outcome)
  /\ UNCHANGED <<values, tombstones, revision, dedupe, history>>

Next == \E c \in Command :
  \/ revision < MaxRevision /\ ApplyNew(c)
  \/ ApplyAgain(c)

Spec == Init /\ [][Next]_vars

Apply(c) == ApplyNew(c) \/ ApplyAgain(c)

-----------------------------------------------------------------------------
(* Properties *)

\* Only entities that exist have a value, and every one has; an outcome is deleted
\* exactly when it has no value.
TypeOK ==
  /\ DOMAIN values \subseteq Entities
  /\ \A e \in DOMAIN values : values[e] \in Values
  /\ tombstones \subseteq Entities
  /\ revision \in Nat
  /\ DOMAIN dedupe \subseteq Keys
  /\ \A k \in DOMAIN dedupe :
       dedupe[k].fingerprint \in Intent /\ dedupe[k].outcome \in Outcome
  /\ history \in Seq(Outcome)
  /\ answers \subseteq [command : Command, outcome : Outcome]

\* The revisions of the history run from 1 without a gap, however commands are
\* repeated (asserted by tests/test_contract_conformance.py:18-19).
HistoryConsecutive ==
  /\ revision = Len(history)
  /\ \A i \in 1..Len(history) : history[i].revision = i

\* Outcome i is the last of the history about entity e.
IsLastAbout(e, i) ==
  /\ history[i].entity_id = e
  /\ \A j \in i+1..Len(history) : history[j].entity_id # e

\* The values and the tombstones are what the history says: an entity has the value
\* of its last outcome, or a tombstone if that deleted it, and never both (61-78).
StateFollowsHistory ==
  \A e \in Entities :
    /\ e \in DOMAIN values \cup tombstones =>
         \E i \in 1..Len(history) : IsLastAbout(e, i)
    /\ \A i \in 1..Len(history) : IsLastAbout(e, i) =>
         IF history[i].deleted
           THEN e \in tombstones /\ ~Exists(e)
           ELSE e \notin tombstones /\ Exists(e) /\ values[e] = history[i].value

\* All answers to one key are the same outcome of the same intent, and answers to
\* two keys are two effects, whatever was sent again and when (56-60, 91).
AnswersAgree ==
  \A a, b \in answers :
    /\ a.command.idempotency_key = b.command.idempotency_key => a = b
    /\ a.outcome.revision = b.outcome.revision => a = b

\* The accepted commands in the order of their effects.
LogOf ==
  [i \in 1..revision |-> (CHOOSE a \in answers : a.outcome.revision = i).command]

Log == INSTANCE CommandLog WITH log <- LogOf

\* The store carries out a log of commands in which each key occurs once and each
\* command is possible where it stands: duplicates, late ones too, leave no trace.
CarriesOutLog == Log!Spec
=============================================================================
