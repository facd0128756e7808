------------------------ MODULE ReferenceStoreProofs ------------------------
(* The store for all sets of entities, values and keys, and runs of any length; then  *)
(* that it carries out a log, and that a replay carries out its trace, for traces of  *)
(* any length.                                                                        *)
EXTENDS TraceReplay, SequenceTheorems, TLAPS

\* What was answered is what is remembered under the command's key.
AnswersRemembered ==
  \A a \in answers :
    /\ a.command.idempotency_key \in DOMAIN dedupe
    /\ dedupe[a.command.idempotency_key].fingerprint = Fingerprint(a.command)
    /\ dedupe[a.command.idempotency_key].outcome = a.outcome

\* Every key that was used stands for an effect of its own.
KeysHaveOwnEffect ==
  /\ \A k \in DOMAIN dedupe : dedupe[k].outcome.revision \in 1..revision
  /\ \A k, l \in DOMAIN dedupe :
       dedupe[k].outcome.revision = dedupe[l].outcome.revision => k = l

Inv == /\ TypeOK
       /\ HistoryConsecutive
       /\ StateFollowsHistory
       /\ AnswersRemembered
       /\ KeysHaveOwnEffect

LEMMA InitInv == Init => Inv
<1> SUFFICES ASSUME Init PROVE Inv
  OBVIOUS
<1>1. /\ DOMAIN values = {} /\ DOMAIN dedupe = {}
      /\ Len(history) = 0 /\ history \in Seq(Outcome)
      /\ tombstones = {} /\ revision = 0 /\ answers = {}
  BY DEF Init
<1> QED
  BY <1>1 DEF Inv, TypeOK, HistoryConsecutive, StateFollowsHistory, AnswersRemembered,
              KeysHaveOwnEffect

\* A command is its fingerprint and its key.
LEMMA CommandByFingerprint ==
  ASSUME NEW c \in Command, NEW d \in Command,
         Fingerprint(c) = Fingerprint(d), c.idempotency_key = d.idempotency_key
  PROVE  c = d
<1>1. /\ Fingerprint(c).kind = c.kind /\ Fingerprint(d).kind = d.kind
      /\ Fingerprint(c).entity_id = c.entity_id /\ Fingerprint(d).entity_id = d.entity_id
      /\ Fingerprint(c).value = c.value /\ Fingerprint(d).value = d.value
  BY DEF Fingerprint
<1> QED BY <1>1 DEF Command

\* What Record adds: an outcome with the next revision, remembered and answered.
LEMMA RecordEffect ==
  ASSUME Inv, NEW c \in Command, NEW v \in Values \cup {None}, Record(c, v),
         IsNew(c.idempotency_key)
  PROVE  LET o == OutcomeOf(c.entity_id, v)
         IN /\ o \in Outcome
            /\ o.revision = revision + 1 /\ o.entity_id = c.entity_id
            /\ o.value = v /\ o.deleted = (v = None)
            /\ revision' = revision + 1 /\ revision' \in Nat
            /\ history' \in Seq(Outcome)
            /\ Len(history') = Len(history) + 1
            /\ \A i \in 1..Len(history) : history'[i] = history[i]
            /\ history'[Len(history) + 1] = o
            /\ DOMAIN dedupe' \subseteq Keys
            /\ \A l \in DOMAIN dedupe' :
                 dedupe'[l].fingerprint \in Intent /\ dedupe'[l].outcome \in Outcome
            /\ answers' \subseteq [command : Command, outcome : Outcome]
            /\ HistoryConsecutive'
            /\ AnswersRemembered'
            /\ KeysHaveOwnEffect'
<1> DEFINE o == OutcomeOf(c.entity_id, v)
           k == c.idempotency_key
<1>1. /\ o \in Outcome
      /\ o.revision = revision + 1 /\ o.entity_id = c.entity_id
      /\ o.value = v /\ o.deleted = (v = None)
  BY DEF OutcomeOf, Outcome, Command, Inv, TypeOK
<1>2. /\ revision' = revision + 1
      /\ history' = Append(history, o)
      /\ answers' = answers \cup {[command |-> c, outcome |-> o]}
      /\ DOMAIN dedupe' = DOMAIN dedupe \cup {k}
      /\ dedupe'[k] = [fingerprint |-> Fingerprint(c), outcome |-> o]
      /\ \A l \in DOMAIN dedupe : dedupe'[l] = dedupe[l]
  BY DEF Record, Remember, Answer, IsNew
<1>8. Fingerprint(c) \in Intent /\ k \in Keys
  BY DEF Fingerprint, Intent, Command
<1> HIDE DEF o
<1>9. /\ DOMAIN dedupe' \subseteq Keys
      /\ \A l \in DOMAIN dedupe' :
           dedupe'[l].fingerprint \in Intent /\ dedupe'[l].outcome \in Outcome
      /\ answers' \subseteq [command : Command, outcome : Outcome]
  BY <1>1, <1>2, <1>8 DEF Inv, TypeOK
<1>3. /\ history' \in Seq(Outcome)
      /\ Len(history') = Len(history) + 1
      /\ \A i \in 1..Len(history) : history'[i] = history[i]
      /\ history'[Len(history) + 1] = o
  BY <1>1, <1>2 DEF Inv, TypeOK
<1>4. HistoryConsecutive'
  BY <1>1, <1>2, <1>3 DEF Inv, TypeOK, HistoryConsecutive
<1>5. AnswersRemembered'
  BY <1>2 DEF Inv, AnswersRemembered, IsNew
<1>6. KeysHaveOwnEffect'
  BY <1>1, <1>2 DEF Inv, TypeOK, KeysHaveOwnEffect, IsNew
<1>7. revision' \in Nat
  BY <1>2 DEF Inv, TypeOK
<1> QED BY <1>1, <1>2, <1>3, <1>4, <1>5, <1>6, <1>7, <1>9 DEF o

\* After an outcome about entity e was appended, it is the last about e, and the last
\* about any other entity is the one it was.
LEMMA LastAfterAppend ==
  ASSUME history \in Seq(Outcome), history' \in Seq(Outcome),
         Len(history') = Len(history) + 1,
         \A i \in 1..Len(history) : history'[i] = history[i],
         NEW e, history'[Len(history) + 1].entity_id = e
  PROVE  /\ \A x, i : x = e /\ i \in 1..Len(history') =>
              (IsLastAbout(x, i)' <=> i = Len(history'))
         /\ \A x, i : x # e /\ i \in 1..Len(history') =>
              (IsLastAbout(x, i)' <=> i \in 1..Len(history) /\ IsLastAbout(x, i))
<1> DEFINE n == Len(history)
<1>1. n \in Nat /\ Len(history') = n + 1
  OBVIOUS
<1>2. ASSUME NEW x, NEW i \in 1..n+1, x = e
      PROVE  IsLastAbout(x, i)' <=> i = n + 1
  BY <1>1, <1>2 DEF IsLastAbout
<1>3. ASSUME NEW x, NEW i \in 1..n+1, x # e
      PROVE  IsLastAbout(x, i)' <=> i \in 1..n /\ IsLastAbout(x, i)
  <2>1. CASE i = n + 1
    BY <1>1, <1>3, <2>1 DEF IsLastAbout
  <2>2. CASE i \in 1..n
    <3>1. \A j \in i+1..n+1 : j \in i+1..n \/ j = n + 1
      BY <1>1
    <3>2. (\A j \in i+1..n+1 : history'[j].entity_id # x)
            <=> (\A j \in i+1..n : history[j].entity_id # x)
      BY <1>1, <1>3, <2>2, <3>1
    <3> QED BY <1>1, <2>2, <3>2 DEF IsLastAbout
  <2> QED BY <1>1, <2>1, <2>2
<1> QED BY <1>1, <1>2, <1>3

\* An effect on one entity that agrees with the outcome it appends.
LEMMA EffectFollowed ==
  ASSUME Inv, NEW c \in Command, NEW v \in Values \cup {None}, Record(c, v),
         IsNew(c.idempotency_key),
         \A x \in Entities : x # c.entity_id =>
           /\ x \in DOMAIN values' <=> x \in DOMAIN values
           /\ x \in tombstones' <=> x \in tombstones
           /\ x \in DOMAIN values => values'[x] = values[x],
         IF v = None
           THEN c.entity_id \in tombstones' /\ c.entity_id \notin DOMAIN values'
           ELSE /\ c.entity_id \notin tombstones' /\ c.entity_id \in DOMAIN values'
                /\ values'[c.entity_id] = v
  PROVE  StateFollowsHistory'
<1> DEFINE e == c.entity_id
           n == Len(history)
<1>1. /\ history' \in Seq(Outcome) /\ Len(history') = n + 1 /\ n \in Nat
      /\ history \in Seq(Outcome)
      /\ \A i \in 1..n : history'[i] = history[i]
      /\ history'[n + 1].entity_id = e
      /\ history'[n + 1].value = v
      /\ history'[n + 1].deleted = (v = None)
  BY RecordEffect DEF Inv, TypeOK
<1>2. /\ \A x, i : x = e /\ i \in 1..n+1 => (IsLastAbout(x, i)' <=> i = n + 1)
      /\ \A x, i : x # e /\ i \in 1..n+1 =>
           (IsLastAbout(x, i)' <=> i \in 1..n /\ IsLastAbout(x, i))
  BY <1>1, LastAfterAppend
<1> SUFFICES ASSUME NEW x \in Entities
    PROVE  /\ x \in DOMAIN values' \cup tombstones' =>
                \E i \in 1..n+1 : IsLastAbout(x, i)'
           /\ \A i \in 1..n+1 : IsLastAbout(x, i)' =>
                IF history'[i].deleted
                  THEN x \in tombstones' /\ x \notin DOMAIN values'
                  ELSE /\ x \notin tombstones' /\ x \in DOMAIN values'
                       /\ values'[x] = history'[i].value
  BY <1>1 DEF StateFollowsHistory, Exists
<1>3. CASE x = e
  <2>0. n + 1 \in 1..n+1
    BY <1>1
  <2>1. PICK i \in 1..n+1 : i = n + 1
    BY <2>0
  <2>2. IsLastAbout(x, i)'
    BY <1>2, <1>3, <2>1
  <2> QED BY <1>1, <1>2, <1>3, <2>1, <2>2
<1>4. CASE x # e
  <2>1. \A i \in 1..n+1 : IsLastAbout(x, i)' <=> i \in 1..n /\ IsLastAbout(x, i)
    BY <1>2, <1>4
  <2>2. /\ x \in DOMAIN values \cup tombstones => \E i \in 1..n : IsLastAbout(x, i)
        /\ \A i \in 1..n : IsLastAbout(x, i) =>
             IF history[i].deleted
               THEN x \in tombstones /\ x \notin DOMAIN values
               ELSE x \notin tombstones /\ x \in DOMAIN values /\ values[x] = history[i].value
    BY DEF Inv, StateFollowsHistory, Exists
  <2>3. \A i \in 1..n : i \in 1..n+1
    BY <1>1
  <2> HIDE DEF n, e
  <2>4. x \in DOMAIN values' \cup tombstones' => \E i \in 1..n+1 : IsLastAbout(x, i)'
    BY <1>4, <2>1, <2>2, <2>3 DEF e
  <2>5. ASSUME NEW i \in 1..n+1, IsLastAbout(x, i)'
        PROVE  IF history'[i].deleted
                 THEN x \in tombstones' /\ x \notin DOMAIN values'
                 ELSE /\ x \notin tombstones' /\ x \in DOMAIN values'
                      /\ values'[x] = history'[i].value
    <3>1. i \in 1..n /\ IsLastAbout(x, i) /\ history'[i] = history[i]
      BY <1>1, <2>1, <2>5
    <3> QED BY <1>4, <2>2, <3>1 DEF e
  <2> QED BY <2>4, <2>5
<1> QED BY <1>3, <1>4

\* Each kind of command.
LEMMA ApplyNewInv ==
  ASSUME Inv, NEW c \in Command, ApplyNew(c)
  PROVE  Inv'
<1> DEFINE e == c.entity_id
<1>1. e \in Entities /\ IsNew(c.idempotency_key)
  BY DEF ApplyNew, Command
<1>2. /\ DOMAIN values \subseteq Entities
      /\ \A x \in DOMAIN values : values[x] \in Values
      /\ tombstones \subseteq Entities
  BY DEF Inv, TypeOK
<1>3. ASSUME NEW v \in Values \cup {None}, Record(c, v), StateFollowsHistory',
             DOMAIN values' \subseteq Entities,
             \A x \in DOMAIN values' : values'[x] \in Values,
             tombstones' \subseteq Entities
      PROVE  Inv'
  BY <1>1, <1>3, RecordEffect DEF Inv, TypeOK
<1>4. ASSUME HasValue(c), Put(e, c.value), tombstones' = tombstones \ {e}, Record(c, c.value)
      PROVE  Inv'
  <2>1. c.value \in Values
    BY <1>4 DEF HasValue, Command
  <2>2. /\ DOMAIN values' = DOMAIN values \cup {e}
        /\ values'[e] = c.value
        /\ \A x \in DOMAIN values : x # e => values'[x] = values[x]
    BY <1>4 DEF Put
  <2> HIDE DEF e
  <2>3. /\ DOMAIN values' \subseteq Entities
        /\ \A x \in DOMAIN values' : values'[x] \in Values
        /\ tombstones' \subseteq Entities
    BY <1>1, <1>2, <1>4, <2>1, <2>2
  <2>4. StateFollowsHistory'
    BY <1>1, <1>4, <2>1, <2>2, EffectFollowed, ReferenceStoreAssumption DEF e
  <2> QED BY <1>3, <1>4, <2>1, <2>3, <2>4
<1>5. CASE Create(c)
  BY <1>4, <1>5 DEF Create, DiscardTombstone
<1>6. CASE Update(c)
  <2>1. e \notin tombstones
    <3>1. e \in DOMAIN values
      BY <1>6 DEF Update, Exists
    <3>2. PICK i \in 1..Len(history) : IsLastAbout(e, i)
      BY <1>1, <3>1 DEF Inv, StateFollowsHistory
    <3> QED BY <1>1, <3>1, <3>2 DEF Inv, StateFollowsHistory, Exists
  <2> QED BY <1>4, <1>6, <2>1 DEF Update
<1>7. CASE Delete(c)
  <2>1. /\ DOMAIN values' = DOMAIN values \ {e}
        /\ \A x \in DOMAIN values : x # e => values'[x] = values[x]
        /\ tombstones' = tombstones \cup {e}
        /\ Record(c, None)
    BY <1>7 DEF Delete
  <2> HIDE DEF e
  <2>2. /\ DOMAIN values' \subseteq Entities
        /\ \A x \in DOMAIN values' : values'[x] \in Values
        /\ tombstones' \subseteq Entities
    BY <1>1, <1>2, <2>1
  <2>3. StateFollowsHistory'
    BY <1>1, <2>1, EffectFollowed DEF e
  <2> QED BY <1>3, <2>1, <2>2, <2>3
<1> QED BY <1>5, <1>6, <1>7 DEF ApplyNew

\* A duplicate is answered from memory and changes nothing else.
LEMMA ApplyAgainInv ==
  ASSUME Inv, NEW c \in Command, ApplyAgain(c)
  PROVE  Inv'
<1> DEFINE a == [command |-> c, outcome |-> dedupe[c.idempotency_key].outcome]
<1>1. /\ answers' = answers \cup {a}
      /\ UNCHANGED <<values, tombstones, revision, dedupe, history>>
      /\ c.idempotency_key \in DOMAIN dedupe
      /\ dedupe[c.idempotency_key].fingerprint = Fingerprint(c)
  BY DEF ApplyAgain, Answer, IsNew
<1>2. /\ a \in [command : Command, outcome : Outcome]
      /\ a.command = c /\ a.outcome = dedupe[c.idempotency_key].outcome
  BY <1>1 DEF Inv, TypeOK
<1> HIDE DEF a
<1>3. TypeOK'
  BY <1>1, <1>2 DEF Inv, TypeOK
<1>4. AnswersRemembered'
  BY <1>1, <1>2 DEF Inv, AnswersRemembered
<1>5. HistoryConsecutive' /\ KeysHaveOwnEffect'
  BY <1>1 DEF Inv, HistoryConsecutive, KeysHaveOwnEffect
<1>6. StateFollowsHistory'
  BY <1>1 DEF Inv, StateFollowsHistory, IsLastAbout, Exists
<1> QED BY <1>3, <1>4, <1>5, <1>6 DEF Inv

LEMMA NextInv == Inv /\ [Next]_vars => Inv'
<1> SUFFICES ASSUME Inv, [Next]_vars PROVE Inv'
  OBVIOUS
<1>1. CASE Next
  BY <1>1, ApplyNewInv, ApplyAgainInv DEF Next
<1>2. CASE UNCHANGED vars
  BY <1>2 DEF vars, Inv, TypeOK, HistoryConsecutive, StateFollowsHistory, IsLastAbout,
              Exists, AnswersRemembered, KeysHaveOwnEffect
<1> QED BY <1>1, <1>2

THEOREM Invariance == Spec => []Inv
  BY InitInv, NextInv, PTL DEF Spec

\* The store keeps the types of its fields: no entity has the value None (61-68).
THEOREM TypeCorrect == Spec => []TypeOK
  BY Invariance, PTL DEF Inv

\* The history has the revisions 1, 2, 3, ... whatever is sent again (83-92).
THEOREM RevisionsConsecutive == Spec => []HistoryConsecutive
  BY Invariance, PTL DEF Inv

\* Values and tombstones are those the history says (61-80).
THEOREM HistoryFollowed == Spec => []StateFollowsHistory
  BY Invariance, PTL DEF Inv

\* An answer is determined by its key and by its effect.
LEMMA AnswersUnique == Inv => AnswersAgree
<1>1. ASSUME Inv, NEW a \in answers, NEW b \in answers,
             \/ a.command.idempotency_key = b.command.idempotency_key
             \/ a.outcome.revision = b.outcome.revision
      PROVE  a = b
  <2>1. /\ a \in [command : Command, outcome : Outcome]
        /\ b \in [command : Command, outcome : Outcome]
    BY <1>1 DEF Inv, TypeOK
  <2>2. a.command.idempotency_key = b.command.idempotency_key
    BY <1>1 DEF Inv, AnswersRemembered, KeysHaveOwnEffect
  <2>3. a.outcome = b.outcome /\ Fingerprint(a.command) = Fingerprint(b.command)
    BY <1>1, <2>2 DEF Inv, AnswersRemembered
  <2>4. a.command = b.command
    BY <2>1, <2>2, <2>3, CommandByFingerprint
  <2> QED BY <2>1, <2>3, <2>4
<1> QED BY <1>1 DEF AnswersAgree

\* One key has one answer, two keys have two effects (55-60, 91).
THEOREM OneAnswerPerKey == Spec => []AnswersAgree
  BY AnswersUnique, Invariance, PTL

-----------------------------------------------------------------------------
(* The store as a log, and replays of traces. *)

\* What was carried out was answered: every key, every effect; and an answer fits
\* both its command and the history.
EffectsAnswered ==
  /\ \A k \in DOMAIN dedupe : \E a \in answers : a.command.idempotency_key = k
  /\ \A n \in 1..revision : \E a \in answers : a.outcome.revision = n
  /\ \A a \in answers :
       /\ a.outcome.revision \in 1..revision
       /\ history[a.outcome.revision] = a.outcome
       /\ a.outcome.entity_id = a.command.entity_id
       /\ a.outcome.deleted <=> a.command.kind = "delete"

StoreInv == Inv /\ AnswersAgree /\ EffectsAnswered

-----------------------------------------------------------------------------
(* The log. *)

\* An effect is where its outcome says, of the store now and of the store next.
LEMMA EffectAtRevision ==
  ASSUME NEW L, NEW A, NEW r,
         L = [i \in 1..r |-> (CHOOSE a \in A : a.outcome.revision = i).command],
         \A a, b \in A : a.outcome.revision = b.outcome.revision => a = b,
         NEW a \in A, a.outcome.revision \in 1..r
  PROVE  L[a.outcome.revision] = a.command
<1> DEFINE n == a.outcome.revision
           b == CHOOSE b \in A : b.outcome.revision = n
<1>1. b \in A /\ b.outcome.revision = n
  OBVIOUS
<1>2. b = a
  BY <1>1
<1>3. L[n] = b.command
  OBVIOUS
<1> QED BY <1>2, <1>3

LEMMA LogEntry ==
  ASSUME StoreInv, NEW a \in answers
  PROVE  /\ a.outcome.revision \in 1..revision
         /\ LogOf[a.outcome.revision] = a.command
<1>1. a.outcome.revision \in 1..revision
  BY DEF StoreInv, EffectsAnswered
<1>2. \A b, d \in answers : b.outcome.revision = d.outcome.revision => b = d
  BY DEF StoreInv, AnswersAgree
<1> QED BY <1>1, <1>2, EffectAtRevision DEF LogOf

LEMMA LogTyped ==
  ASSUME StoreInv
  PROVE  /\ revision \in Nat /\ LogOf \in Seq(Command) /\ Len(LogOf) = revision
         /\ \A n \in 1..revision :
              \E a \in answers : a.outcome.revision = n /\ LogOf[n] = a.command
<1>1. revision \in Nat
  BY DEF StoreInv, Inv, TypeOK
<1>2. ASSUME NEW n \in 1..revision
      PROVE  \E a \in answers : a.outcome.revision = n /\ LogOf[n] = a.command
  <2>1. PICK a \in answers : a.outcome.revision = n
    BY <1>2 DEF StoreInv, EffectsAnswered
  <2> QED BY <2>1, LogEntry
<1>3. \A n \in 1..revision : LogOf[n] \in Command
  <2>1. \A a \in answers : a.command \in Command
    BY DEF StoreInv, Inv, TypeOK
  <2> QED BY <1>2, <2>1
<1>4. LogOf \in [1..revision -> Command]
  <2>1. LogOf = [n \in 1..revision |-> LogOf[n]]
    BY DEF LogOf
  <2> QED BY <1>3, <2>1
<1> QED BY <1>1, <1>2, <1>4

\* An entity lives in the log exactly when it exists in the store.
LEMMA LiveIsExisting ==
  ASSUME StoreInv, NEW e \in Entities
  PROVE  Log!Live(e) <=> Exists(e)
<1>1. /\ Len(LogOf) = revision /\ revision = Len(history) /\ revision \in Nat
  BY LogTyped DEF StoreInv, Inv, HistoryConsecutive
<1>2. ASSUME NEW n \in 1..revision
      PROVE  /\ LogOf[n].entity_id = history[n].entity_id
             /\ LogOf[n].kind = "delete" <=> history[n].deleted
  <2>1. PICK a \in answers : a.outcome.revision = n /\ LogOf[n] = a.command
    BY LogTyped
  <2> QED BY <2>1 DEF StoreInv, EffectsAnswered
<1>3. ASSUME NEW i \in 1..revision
      PROVE  IsLastAbout(e, i) <=> /\ LogOf[i].entity_id = e
                                   /\ \A j \in i+1..revision : LogOf[j].entity_id # e
  <2>1. \A j \in i+1..revision : j \in 1..revision
    BY <1>1
  <2> QED BY <1>1, <1>2, <2>1 DEF IsLastAbout
<1>4. Log!Live(e) <=> \E i \in 1..revision : IsLastAbout(e, i) /\ ~history[i].deleted
  BY <1>1, <1>2, <1>3 DEF Log!Live
<1>5. StateFollowsHistory
  BY DEF StoreInv, Inv
<1> QED BY <1>1, <1>4, <1>5 DEF StateFollowsHistory, Exists

-----------------------------------------------------------------------------
(* The steps of the store. *)

\* A command that takes effect has a new key, is possible in the log, and is its next
\* entry.
LEMMA NewIsRecorded ==
  ASSUME StoreInv, NEW c \in Command, ApplyNew(c)
  PROVE  /\ IsNew(c.idempotency_key)
         /\ \E v \in Values \cup {None} : Record(c, v) /\ (v = None <=> c.kind = "delete")
         /\ Log!Possible(c)
<1>1. c.entity_id \in Entities /\ c.value \in Values \cup {None}
  BY DEF Command
<1>2. Log!Live(c.entity_id) <=> Exists(c.entity_id)
  BY <1>1, LiveIsExisting
<1>3. CASE Create(c)
  BY <1>1, <1>2, <1>3 DEF ApplyNew, Create, HasValue, Log!Possible
<1>4. CASE Update(c)
  BY <1>1, <1>2, <1>4 DEF ApplyNew, Update, HasValue, Log!Possible
<1>5. CASE Delete(c)
  BY <1>1, <1>2, <1>5 DEF ApplyNew, Delete, Log!Possible
<1> QED BY <1>3, <1>4, <1>5 DEF ApplyNew

LEMMA NewIsLogged ==
  ASSUME StoreInv, NEW c \in Command, ApplyNew(c)
  PROVE  StoreInv' /\ revision' = revision + 1 /\ LogOf' = Append(LogOf, c)
<1>1. PICK v \in Values \cup {None} : Record(c, v) /\ (v = None <=> c.kind = "delete")
  BY NewIsRecorded
<1>2. IsNew(c.idempotency_key) /\ Inv
  BY NewIsRecorded DEF StoreInv
<1> DEFINE o == OutcomeOf(c.entity_id, v)
           a == [command |-> c, outcome |-> o]
<1>3. /\ o.revision = revision + 1 /\ o.entity_id = c.entity_id /\ o.deleted = (v = None)
      /\ revision' = revision + 1 /\ revision \in Nat /\ Len(history) = revision
      /\ \A i \in 1..Len(history) : history'[i] = history[i]
      /\ history'[Len(history) + 1] = o
  BY <1>1, <1>2, RecordEffect DEF Inv, HistoryConsecutive, TypeOK
<1>4. /\ answers' = answers \cup {a}
      /\ DOMAIN dedupe' = DOMAIN dedupe \cup {c.idempotency_key}
      /\ a.command = c /\ a.outcome = o
  BY <1>1 DEF Record, Remember, Answer
<1> HIDE DEF o, a
<1>5. Inv' /\ AnswersAgree'
  <2>1. Inv'
    BY <1>2, ApplyNewInv
  <2>2. ASSUME NEW b \in answers
        PROVE  /\ b.outcome.revision # a.outcome.revision
               /\ b.command.idempotency_key # a.command.idempotency_key
    <3>1. b.outcome.revision \in 1..revision
      BY DEF StoreInv, EffectsAnswered
    <3>2. b.command.idempotency_key \in DOMAIN dedupe
      BY <1>2 DEF Inv, AnswersRemembered
    <3> QED BY <1>2, <1>3, <1>4, <3>1, <3>2 DEF IsNew
  <2>3. AnswersAgree'
    BY <1>4, <2>2 DEF StoreInv, AnswersAgree
  <2> QED BY <2>1, <2>3
<1>6. EffectsAnswered'
  <2>1. ASSUME NEW k \in DOMAIN dedupe'
        PROVE  \E b \in answers' : b.command.idempotency_key = k
    BY <1>4 DEF StoreInv, EffectsAnswered
  <2>2. ASSUME NEW n \in 1..revision'
        PROVE  \E b \in answers' : b.outcome.revision = n
    <3>1. CASE n = revision + 1
      BY <1>3, <1>4, <3>1
    <3>2. CASE n # revision + 1
      <4>1. n \in 1..revision
        BY <1>3, <3>2
      <4> QED BY <1>4, <4>1 DEF StoreInv, EffectsAnswered
    <3> QED BY <3>1, <3>2
  <2>3. ASSUME NEW b \in answers'
        PROVE  /\ b.outcome.revision \in 1..revision'
               /\ history'[b.outcome.revision] = b.outcome
               /\ b.outcome.entity_id = b.command.entity_id
               /\ b.outcome.deleted <=> b.command.kind = "delete"
    <3>1. CASE b = a
      <4>1. a.outcome.deleted <=> a.command.kind = "delete"
        BY <1>1, <1>3, <1>4, Zenon
      <4> QED BY <1>3, <1>4, <3>1, <4>1
    <3>2. CASE b \in answers
      BY <1>3, <3>2 DEF StoreInv, EffectsAnswered
    <3> QED BY <1>4, <3>1, <3>2
  <2> QED BY <2>1, <2>2, <2>3 DEF EffectsAnswered
<1>7. StoreInv'
  BY <1>5, <1>6 DEF StoreInv
<1>8. LogOf' = Append(LogOf, c)
  <2>1. LogOf \in Seq(Command) /\ Len(LogOf) = revision
    BY LogTyped
  <2>2. ASSUME NEW b \in answers' PROVE LogOf'[b.outcome.revision] = b.command
    <3>1. b.outcome.revision \in 1..revision'
      BY <1>6 DEF EffectsAnswered
    <3>2. \A d, e \in answers' : d.outcome.revision = e.outcome.revision => d = e
      BY <1>5 DEF AnswersAgree
    <3>3. LogOf' = [i \in 1..revision' |->
                     (CHOOSE d \in answers' : d.outcome.revision = i).command]
      BY DEF LogOf
    <3> QED BY <3>1, <3>2, <3>3, EffectAtRevision
  <2>3. ASSUME NEW n \in 1..revision' PROVE LogOf'[n] = Append(LogOf, c)[n]
    <3>1. CASE n = revision + 1
      <4>1. LogOf'[n] = c
        BY <1>3, <1>4, <2>2, <3>1
      <4> QED BY <1>3, <2>1, <3>1, <4>1
    <3>2. CASE n # revision + 1
      <4>1. n \in 1..revision
        BY <1>3, <3>2
      <4>2. PICK b \in answers : b.outcome.revision = n /\ LogOf[n] = b.command
        BY <4>1, LogTyped
      <4>3. LogOf'[n] = LogOf[n]
        BY <1>4, <2>2, <4>2
      <4> QED BY <2>1, <4>1, <4>3
    <3> QED BY <3>1, <3>2
  <2>4. Append(LogOf, c) \in Seq(Command) /\ Len(Append(LogOf, c)) = revision'
    BY <1>3, <2>1, AppendProperties
  <2>5. LogOf' \in [1..revision' -> Command]
    <3>1. \A n \in 1..revision' : LogOf'[n] \in Command
      BY <2>3, <2>4
    <3>2. LogOf' = [n \in 1..revision' |-> LogOf'[n]]
      BY DEF LogOf
    <3> QED BY <3>1, <3>2
  <2>6. LogOf' \in Seq(Command) /\ Len(LogOf') = revision'
    BY <1>3, <2>5
  <2> QED BY <2>3, <2>4, <2>6, SeqEqual
<1> QED BY <1>3, <1>7, <1>8

\* A duplicate is answered as before, and nothing at all changes: neither the store nor
\* what its callers know.
LEMMA DuplicateChangesNothing ==
  ASSUME StoreInv, NEW c \in Command, ApplyAgain(c)
  PROVE  UNCHANGED vars
<1> DEFINE k == c.idempotency_key
<1>1. /\ k \in DOMAIN dedupe
      /\ dedupe[k].fingerprint = Fingerprint(c)
      /\ answers' = answers \cup {[command |-> c, outcome |-> dedupe[k].outcome]}
      /\ UNCHANGED <<values, tombstones, revision, dedupe, history>>
  BY DEF ApplyAgain, Answer, IsNew
<1>2. PICK a \in answers : a.command.idempotency_key = k
  BY <1>1 DEF StoreInv, EffectsAnswered
<1>3. a \in [command : Command, outcome : Outcome]
  BY DEF StoreInv, Inv, TypeOK
<1>4. Fingerprint(a.command) = Fingerprint(c) /\ a.outcome = dedupe[k].outcome
  BY <1>1, <1>2 DEF StoreInv, Inv, AnswersRemembered
<1>5. a.command = c
  BY <1>2, <1>3, <1>4, CommandByFingerprint
<1>6. a = [command |-> c, outcome |-> dedupe[k].outcome]
  BY <1>3, <1>4, <1>5
<1> QED BY <1>1, <1>6 DEF vars

LEMMA StoreInit == Init => StoreInv /\ LogOf = <<>>
<1> SUFFICES ASSUME Init PROVE StoreInv /\ LogOf = <<>>
  OBVIOUS
<1>1. /\ DOMAIN dedupe = {} /\ revision = 0 /\ answers = {}
  BY DEF Init
<1>2. Inv /\ AnswersAgree
  BY InitInv, AnswersUnique
<1>3. StoreInv
  BY <1>1, <1>2 DEF StoreInv, EffectsAnswered
<1>4. LogOf \in Seq(Command) /\ Len(LogOf) = 0
  BY <1>1, <1>3, LogTyped
<1> QED BY <1>3, <1>4

-----------------------------------------------------------------------------
(* The store used directly. *)

LEMMA KeysAreLogged ==
  ASSUME StoreInv, NEW n \in 1..revision
  PROVE  LogOf[n].idempotency_key \in DOMAIN dedupe
<1>1. PICK a \in answers : a.outcome.revision = n /\ LogOf[n] = a.command
  BY LogTyped
<1> QED BY <1>1 DEF StoreInv, Inv, AnswersRemembered

LEMMA NewIsAccepted ==
  ASSUME StoreInv, NEW c \in Command, ApplyNew(c)
  PROVE  Log!Accept(c)
<1>1. IsNew(c.idempotency_key) /\ Log!Possible(c) /\ Len(LogOf) = revision
  BY NewIsRecorded, LogTyped
<1>2. \A i \in 1..Len(LogOf) : LogOf[i].idempotency_key # c.idempotency_key
  BY <1>1, KeysAreLogged DEF IsNew
<1>3. LogOf' = Append(LogOf, c)
  BY NewIsLogged
<1> QED BY <1>1, <1>2, <1>3 DEF Log!Accept

LEMMA SameStore ==
  ASSUME StoreInv, UNCHANGED vars
  PROVE  StoreInv' /\ LogOf' = LogOf
BY DEF vars, StoreInv, Inv, TypeOK, HistoryConsecutive, StateFollowsHistory, IsLastAbout,
       Exists, AnswersRemembered, KeysHaveOwnEffect, AnswersAgree, EffectsAnswered, LogOf

LEMMA StoreStep ==
  ASSUME StoreInv, [Next]_vars
  PROVE  StoreInv' /\ [Log!Next]_LogOf
<1>1. CASE UNCHANGED vars
  BY <1>1, SameStore
<1>2. ASSUME NEW c \in Command, ApplyNew(c)
      PROVE  StoreInv' /\ [Log!Next]_LogOf
  <2>1. Log!Next
    BY <1>2, NewIsAccepted DEF Log!Next, Log!Command, Command
  <2> QED BY <1>2, <2>1, NewIsLogged
<1>3. ASSUME NEW c \in Command, ApplyAgain(c)
      PROVE  UNCHANGED vars
  BY <1>3, DuplicateChangesNothing
<1> QED BY <1>1, <1>2, <1>3, SameStore DEF Next

\* Sending a command again, however late, is invisible: each step of the store is the
\* next entry of a log without duplicates, or nothing (51-92).
THEOREM LogCarriedOut == Spec => CarriesOutLog
<1>1. Init => StoreInv /\ Log!Init
  BY StoreInit DEF Log!Init
<1>2. StoreInv /\ [Next]_vars => StoreInv' /\ [Log!Next]_LogOf
  BY StoreStep
<1> QED BY <1>1, <1>2, PTL DEF Spec, CarriesOutLog, Log!Spec

-----------------------------------------------------------------------------
(* Traces. *)

\* Entity e exists after the first n commands of t.
LiveAfter(t, n, e) ==
  \E i \in 1..n : /\ t[i].entity_id = e /\ t[i].kind # "delete"
                  /\ \A j \in i+1..n : t[j].entity_id # e

PossibleAfter(t, n, c) ==
  /\ c.kind = "create" => ~LiveAfter(t, n, c.entity_id)
  /\ c.kind \in {"update", "delete"} => LiveAfter(t, n, c.entity_id)
  /\ c.value # None <=> c.kind # "delete"

\* What the generator has written is a trace that a store can carry out, and live is
\* what it leaves.
Generated ==
  /\ trace \in Seq(Command) /\ Len(trace) =< Steps
  /\ next_id \in 0..Len(trace) /\ live \subseteq 0..next_id-1
  /\ \A i \in 1..Len(trace) : /\ trace[i].idempotency_key = i
                              /\ PossibleAfter(trace, i - 1, trace[i])
  /\ \A e \in Entities : LiveAfter(trace, Len(trace), e) <=> e \in live

Progress ==
  /\ replayed \in 0..Len(trace)
  /\ Len(trace) < Steps => replayed = 0

ReplayInv == StoreInv /\ Generated /\ Progress /\ ReplayFollowsTrace

LEMMA LiveAfterAppend ==
  ASSUME NEW t \in Seq(Command), NEW c \in Command, NEW u, u = Append(t, c), NEW e
  PROVE  /\ \A n \in 0..Len(t) : LiveAfter(u, n, e) <=> LiveAfter(t, n, e)
         /\ LiveAfter(u, Len(t) + 1, e) <=>
              IF c.entity_id = e THEN c.kind # "delete" ELSE LiveAfter(t, Len(t), e)
<1>1. /\ Len(t) \in Nat /\ u[Len(t) + 1] = c
      /\ \A i \in 1..Len(t) : u[i] = t[i]
  OBVIOUS
<1>2. ASSUME NEW n \in 0..Len(t) PROVE LiveAfter(u, n, e) <=> LiveAfter(t, n, e)
  <2>1. \A i \in 1..n : u[i] = t[i] /\ \A j \in i+1..n : u[j] = t[j]
    BY <1>1
  <2> QED BY <2>1 DEF LiveAfter
<1>3. CASE c.entity_id = e
  <2>1. LiveAfter(u, Len(t) + 1, e) => c.kind # "delete"
    BY <1>1, <1>3 DEF LiveAfter
  <2>2. c.kind # "delete" => LiveAfter(u, Len(t) + 1, e)
    BY <1>1, <1>3 DEF LiveAfter
  <2> QED BY <1>2, <1>3, <2>1, <2>2
<1>4. CASE c.entity_id # e
  <2>1. ASSUME LiveAfter(u, Len(t) + 1, e) PROVE LiveAfter(t, Len(t), e)
    BY <1>1, <1>4, <2>1 DEF LiveAfter
  <2>2. ASSUME LiveAfter(t, Len(t), e) PROVE LiveAfter(u, Len(t) + 1, e)
    BY <1>1, <1>4, <2>2 DEF LiveAfter
  <2> QED BY <1>2, <1>4, <2>1, <2>2
<1> QED BY <1>3, <1>4

LEMMA EmitKeepsInv ==
  ASSUME ReplayInv, NEW c \in Command,
         revision = 0, Len(trace) < Steps, trace' = Append(trace, c),
         UNCHANGED <<store, replayed>>,
         c.idempotency_key = Len(trace) + 1,
         PossibleAfter(trace, Len(trace), c),
         next_id' \in 0..Len(trace)+1, live' \subseteq 0..next_id'-1,
         \A e \in Entities :
           e \in live' <=> IF c.entity_id = e THEN c.kind # "delete" ELSE e \in live
  PROVE  ReplayInv'
<1> DEFINE n == Len(trace)
<1>1. /\ trace \in Seq(Command) /\ n \in Nat
      /\ Steps \in Nat
      /\ trace' \in Seq(Command) /\ Len(trace') = n + 1 /\ trace'[n + 1] = c
      /\ \A i \in 1..n : trace'[i] = trace[i]
  BY TraceReplayAssumption DEF ReplayInv, Generated
<1>2. /\ \A e, m : m \in 0..n => (LiveAfter(trace', m, e) <=> LiveAfter(trace, m, e))
      /\ \A e : LiveAfter(trace', n + 1, e) <=>
           IF c.entity_id = e THEN c.kind # "delete" ELSE LiveAfter(trace, n, e)
  BY <1>1, LiveAfterAppend
<1>3. ASSUME NEW i \in 1..n+1
      PROVE  trace'[i].idempotency_key = i /\ PossibleAfter(trace', i - 1, trace'[i])
  <2>1. i - 1 \in 0..n
    BY <1>1
  <2>2. \A d : PossibleAfter(trace', i - 1, d) <=> PossibleAfter(trace, i - 1, d)
    BY <1>2, <2>1 DEF PossibleAfter
  <2>3. CASE i = n + 1
    BY <1>1, <2>2, <2>3
  <2>4. CASE i # n + 1
    <3>1. i \in 1..n
      BY <1>1, <2>4
    <3> QED BY <1>1, <2>2, <3>1 DEF ReplayInv, Generated
  <2> QED BY <2>3, <2>4
<1>4. \A e \in Entities : LiveAfter(trace', Len(trace'), e) <=> e \in live'
  BY <1>1, <1>2 DEF ReplayInv, Generated
<1>5. Generated'
  <2>1. Len(trace') =< Steps
    BY <1>1
  <2>2. next_id' \in 0..Len(trace') /\ live' \subseteq 0..next_id'-1
    BY <1>1
  <2>3. \A i \in 1..Len(trace') : /\ trace'[i].idempotency_key = i
                                 /\ PossibleAfter(trace', i - 1, trace'[i])
    BY <1>1, <1>3
  <2> QED BY <1>1, <1>4, <2>1, <2>2, <2>3 DEF Generated
<1>6. replayed = 0 /\ replayed' = 0 /\ Progress'
  BY <1>1 DEF ReplayInv, Progress
<1>7. StoreInv' /\ LogOf' = LogOf
  BY SameStore DEF ReplayInv, store
<1>8. LogOf = <<>>
  BY LogTyped DEF ReplayInv
<1>9. ReplayFollowsTrace'
  BY <1>1, <1>6, <1>7, <1>8 DEF ReplayFollowsTrace
<1> QED BY <1>5, <1>6, <1>7, <1>9 DEF ReplayInv

LEMMA GenerateKeepsInv ==
  ASSUME ReplayInv, Generate
  PROVE  ReplayInv' /\ UNCHANGED vars
<1> DEFINE n == Len(trace)
           Cmd(kind, e, v) == [kind |-> kind, entity_id |-> e, value |-> v,
                               idempotency_key |-> n + 1]
<1>1. /\ n \in Nat /\ n =< Steps /\ next_id \in 0..n /\ live \subseteq 0..next_id-1
      /\ \A e \in Entities : LiveAfter(trace, n, e) <=> e \in live
      /\ Steps \in Nat /\ 0..Steps-1 \subseteq Entities /\ 1..Steps \subseteq Keys
      /\ None \notin Values
  BY TraceReplayAssumption, ReferenceStoreAssumption DEF ReplayInv, Generated
<1>2. ASSUME NEW kind \in {"create", "update", "delete"}, NEW e, NEW v, Emit(kind, e, v)
      PROVE  /\ revision = 0 /\ n < Steps /\ trace' = Append(trace, Cmd(kind, e, v))
             /\ UNCHANGED <<store, replayed>> /\ UNCHANGED vars
             /\ n + 1 \in Keys
  BY <1>1, <1>2 DEF Emit, store
<1>3. ASSUME NEW v \in Values, EmitCreate(v) PROVE ReplayInv' /\ UNCHANGED vars
  <2> DEFINE c == Cmd("create", next_id, v)
  <2>1. Emit("create", next_id, v) /\ live' = live \cup {next_id} /\ next_id' = next_id + 1
    BY <1>3 DEF EmitCreate
  <2>2. /\ revision = 0 /\ n < Steps /\ trace' = Append(trace, c)
        /\ UNCHANGED <<store, replayed>> /\ UNCHANGED vars
        /\ n + 1 \in Keys
    BY <1>2, <2>1
  <2>3. next_id \in Entities /\ next_id \notin live
    BY <1>1, <2>2
  <2>4. /\ c \in Command /\ c.kind = "create" /\ c.entity_id = next_id
        /\ c.value = v /\ c.idempotency_key = n + 1
    BY <2>2, <2>3 DEF Command
  <2> HIDE DEF c
  <2>5. PossibleAfter(trace, n, c)
    BY <1>1, <2>3, <2>4 DEF PossibleAfter
  <2>6. next_id' \in 0..n+1 /\ live' \subseteq 0..next_id'-1
    BY <1>1, <2>1
  <2>7. \A x \in Entities :
          x \in live' <=> IF c.entity_id = x THEN c.kind # "delete" ELSE x \in live
    BY <2>1, <2>4
  <2> QED BY <2>2, <2>4, <2>5, <2>6, <2>7, EmitKeepsInv
<1>4. ASSUME NEW e \in live, NEW v \in Values, EmitUpdate(e, v)
      PROVE  ReplayInv' /\ UNCHANGED vars
  <2> DEFINE c == Cmd("update", e, v)
  <2>1. Emit("update", e, v) /\ live' = live /\ next_id' = next_id
    BY <1>4 DEF EmitUpdate
  <2>2. /\ revision = 0 /\ n < Steps /\ trace' = Append(trace, c)
        /\ UNCHANGED <<store, replayed>> /\ UNCHANGED vars
        /\ n + 1 \in Keys
    BY <1>2, <2>1
  <2>3. e \in Entities
    BY <1>1, <2>2
  <2>4. /\ c \in Command /\ c.kind = "update" /\ c.entity_id = e
        /\ c.value = v /\ c.idempotency_key = n + 1
    BY <2>2, <2>3 DEF Command
  <2> HIDE DEF c
  <2>5. PossibleAfter(trace, n, c)
    BY <1>1, <2>3, <2>4 DEF PossibleAfter
  <2>6. next_id' \in 0..n+1 /\ live' \subseteq 0..next_id'-1
    BY <1>1, <2>1
  <2>7. \A x \in Entities :
          x \in live' <=> IF c.entity_id = x THEN c.kind # "delete" ELSE x \in live
    BY <2>1, <2>4
  <2> QED BY <2>2, <2>4, <2>5, <2>6, <2>7, EmitKeepsInv
<1>5. ASSUME NEW e \in live, EmitDelete(e) PROVE ReplayInv' /\ UNCHANGED vars
  <2> DEFINE c == Cmd("delete", e, None)
  <2>1. Emit("delete", e, None) /\ live' = live \ {e} /\ next_id' = next_id
    BY <1>5 DEF EmitDelete, NoLongerLive
  <2>2. /\ revision = 0 /\ n < Steps /\ trace' = Append(trace, c)
        /\ UNCHANGED <<store, replayed>> /\ UNCHANGED vars
        /\ n + 1 \in Keys
    BY <1>2, <2>1
  <2>3. e \in Entities
    BY <1>1, <2>2
  <2>4. /\ c \in Command /\ c.kind = "delete" /\ c.entity_id = e
        /\ c.value = None /\ c.idempotency_key = n + 1
    BY <2>2, <2>3 DEF Command
  <2> HIDE DEF c
  <2>5. PossibleAfter(trace, n, c)
    BY <1>1, <2>3, <2>4 DEF PossibleAfter
  <2>6. next_id' \in 0..n+1 /\ live' \subseteq 0..next_id'-1
    BY <1>1, <2>1
  <2>7. \A x \in Entities :
          x \in live' <=> IF c.entity_id = x THEN c.kind # "delete" ELSE x \in live
    BY <2>1, <2>4
  <2> QED BY <2>2, <2>4, <2>5, <2>6, <2>7, EmitKeepsInv
<1> QED BY <1>3, <1>4, <1>5 DEF Generate

LEMMA ReplayPosition ==
  ASSUME ReplayInv, trace # <<>>
  PROVE  /\ trace \in Seq(Command) /\ Len(trace) \in Nat \ {0} /\ replayed \in 0..Len(trace)
         /\ LogOf = SubSeq(trace, 1, replayed) /\ revision = replayed
         /\ \A i \in 1..replayed : LogOf[i] = trace[i]
         /\ \A i \in 1..Len(trace) :
              trace[i].idempotency_key \in DOMAIN dedupe <=> i =< replayed
<1>1. /\ trace \in Seq(Command) /\ Len(trace) \in Nat \ {0} /\ replayed \in 0..Len(trace)
      /\ LogOf = SubSeq(trace, 1, replayed) /\ Len(LogOf) = revision
  BY LogTyped DEF ReplayInv, Generated, Progress, ReplayFollowsTrace
<1>2. revision = replayed /\ \A i \in 1..replayed : LogOf[i] = trace[i]
  BY <1>1, SubSeqProperties
<1>3. ASSUME NEW i \in 1..Len(trace)
      PROVE  trace[i].idempotency_key \in DOMAIN dedupe <=> i =< replayed
  <2>1. ASSUME i =< replayed PROVE trace[i].idempotency_key \in DOMAIN dedupe
    <3>1. i \in 1..revision
      BY <1>1, <1>2, <2>1
    <3>2. LogOf[i].idempotency_key \in DOMAIN dedupe
      BY <3>1, KeysAreLogged DEF ReplayInv
    <3> QED BY <1>2, <3>1, <3>2
  <2>2. ASSUME trace[i].idempotency_key \in DOMAIN dedupe PROVE i =< replayed
    <3>1. PICK a \in answers : a.command.idempotency_key = trace[i].idempotency_key
      BY <2>2 DEF ReplayInv, StoreInv, EffectsAnswered
    <3>2. /\ a.outcome.revision \in 1..replayed
          /\ LogOf[a.outcome.revision] = a.command
      BY <1>2, LogEntry DEF ReplayInv
    <3>3. a.command = trace[a.outcome.revision]
      BY <1>2, <3>2
    <3>4. a.outcome.revision \in 1..Len(trace)
      BY <1>1, <3>2
    <3>5. a.outcome.revision = i
      BY <3>1, <3>3, <3>4 DEF ReplayInv, Generated
    <3> QED BY <1>1, <3>2, <3>5
  <2> QED BY <2>1, <2>2
<1> QED BY <1>1, <1>2, <1>3

\* The command after those replayed takes effect, and those replayed do not again.
LEMMA NextTakesEffect ==
  ASSUME ReplayInv, ApplyNext
  PROVE  ReplayInv' /\ [Next]_vars
<1> DEFINE c == trace[replayed + 1]
<1>1. /\ Len(trace) = Steps /\ Steps \in Nat /\ replayed < Steps /\ trace # <<>>
      /\ Steps =< MaxRevision /\ MaxRevision \in Nat
      /\ Apply(c) /\ replayed' = replayed + 1
      /\ UNCHANGED <<live, next_id, trace>>
  <2>1. Len(trace) = Steps /\ Steps \in Nat /\ replayed < Steps /\ replayed \in Nat
    BY TraceReplayAssumption DEF ApplyNext, Replaying, ReplayInv, Progress
  <2>2. trace # <<>>
    BY <2>1
  <2> QED BY <2>1, <2>2, TraceReplayAssumption, ReferenceStoreAssumption DEF ApplyNext
<1>2. /\ trace \in Seq(Command) /\ replayed \in Nat /\ LogOf = SubSeq(trace, 1, replayed)
      /\ revision = replayed /\ c \in Command /\ IsNew(c.idempotency_key)
  BY <1>1, ReplayPosition DEF IsNew
<1>3. ApplyNew(c)
  BY <1>1, <1>2 DEF Apply, ApplyAgain
<1> HIDE DEF c
<1>4. StoreInv' /\ revision' = revision + 1 /\ LogOf' = Append(LogOf, c)
  BY <1>2, <1>3, NewIsLogged DEF ReplayInv
<1>5. Append(SubSeq(trace, 1, replayed), c) = SubSeq(trace, 1, replayed + 1)
  <2>1. SubSeq(trace, 1, replayed + 1)
          = Append(SubSeq(trace, 1, (replayed + 1) - 1), trace[replayed + 1])
    BY <1>1, <1>2, SubSeqRecursiveSecond
  <2> QED BY <1>2, <2>1 DEF c
<1>6. Generated' /\ Progress' /\ ReplayFollowsTrace'
  BY <1>1, <1>2, <1>4, <1>5 DEF ReplayInv, Generated, Progress, ReplayFollowsTrace
<1>7. Next
  BY <1>1, <1>2, <1>3 DEF Next
<1> QED BY <1>4, <1>6, <1>7 DEF ReplayInv

LEMMA DuplicateIsIgnored ==
  ASSUME ReplayInv, ApplyDuplicate
  PROVE  UNCHANGED replayVars
<1> DEFINE c == trace[replayed]
<1>1. /\ replayed > 0 /\ Apply(c)
      /\ UNCHANGED <<live, next_id, trace, replayed>>
  BY DEF ApplyDuplicate
<1>2. trace # <<>>
  BY <1>1 DEF ReplayInv, Progress
<1>3. c \in Command /\ c.idempotency_key \in DOMAIN dedupe
  BY <1>1, <1>2, ReplayPosition
<1>4. ApplyAgain(c)
  BY <1>1, <1>3 DEF Apply, ApplyNew, IsNew
<1>5. UNCHANGED vars
  BY <1>3, <1>4, DuplicateChangesNothing DEF ReplayInv
<1> QED BY <1>1, <1>5 DEF replayVars, store

LEMMA SameReplay ==
  ASSUME ReplayInv, StoreInv', LogOf' = LogOf, UNCHANGED <<live, next_id, trace, replayed>>
  PROVE  ReplayInv'
BY DEF ReplayInv, Generated, Progress, ReplayFollowsTrace

LEMMA ReplayStep ==
  ASSUME ReplayInv, [ReplayNext]_replayVars
  PROVE  ReplayInv' /\ [Next]_vars
<1>1. CASE Generate
  BY <1>1, GenerateKeepsInv
<1>2. CASE ApplyNext
  BY <1>2, NextTakesEffect
<1>3. CASE UNCHANGED replayVars
  <2>1. UNCHANGED vars /\ UNCHANGED <<live, next_id, trace, replayed>>
    BY <1>3 DEF replayVars, store
  <2> QED BY <2>1, SameStore, SameReplay DEF ReplayInv
<1>4. CASE ApplyDuplicate
  BY <1>3, <1>4, DuplicateIsIgnored
<1>5. CASE UsedDirectly
  <2>1. trace = <<>> /\ Next /\ UNCHANGED <<live, next_id, trace, replayed>>
    BY <1>5 DEF UsedDirectly
  <2>2. StoreInv'
    BY <2>1, StoreStep DEF ReplayInv
  <2>3. Generated' /\ Progress' /\ ReplayFollowsTrace'
    BY <2>1 DEF ReplayInv, Generated, Progress, ReplayFollowsTrace
  <2> QED BY <2>1, <2>2, <2>3 DEF ReplayInv
<1> QED BY <1>1, <1>2, <1>3, <1>4, <1>5 DEF ReplayNext

LEMMA ReplayStart == ReplayInit => ReplayInv
<1> SUFFICES ASSUME ReplayInit PROVE ReplayInv
  OBVIOUS
<1>1. StoreInv
  BY StoreInit DEF ReplayInit
<1>2. /\ live = {} /\ next_id = 0 /\ trace = <<>> /\ replayed = 0 /\ Len(trace) = 0
      /\ trace \in Seq(Command) /\ Steps \in Nat
  BY TraceReplayAssumption DEF ReplayInit
<1>3. Generated
  BY <1>2 DEF Generated, LiveAfter
<1>4. Progress /\ ReplayFollowsTrace
  BY <1>2 DEF Progress, ReplayFollowsTrace
<1> QED BY <1>1, <1>3, <1>4 DEF ReplayInv

THEOREM ReplayInvariance == ReplaySpec => []ReplayInv
  BY ReplayStart, ReplayStep, PTL DEF ReplaySpec

\* A replay is a use of the store like any other, within its bound, so that all that
\* is proved of the store holds of replays (139-145).
THEOREM ReplayUsesStore == ReplaySpec => Spec
<1>1. ReplayInit => Init
  BY DEF ReplayInit
<1>2. ReplayInv /\ [ReplayNext]_replayVars => [Next]_vars
  BY ReplayStep
<1> QED BY <1>1, <1>2, ReplayInvariance, PTL DEF ReplaySpec, Spec

\* The store has carried out the trace up to where the replay is, once and in order,
\* whatever was applied a second time (139-145).
THEOREM ReplayInOrder == ReplaySpec => []ReplayFollowsTrace
<1>1. ReplayInv => ReplayFollowsTrace
  BY DEF ReplayInv
<1> QED BY <1>1, ReplayInvariance, PTL

\* What exists in the store is what lives after the commands replayed.
LEMMA ExistingIsLive ==
  ASSUME ReplayInv, trace # <<>>, NEW e \in Entities
  PROVE  Exists(e) <=> LiveAfter(trace, replayed, e)
<1>1. /\ replayed \in Nat /\ Len(LogOf) = replayed
      /\ \A i \in 1..replayed : LogOf[i] = trace[i]
  BY ReplayPosition, LogTyped DEF ReplayInv
<1>2. Log!Live(e) <=> LiveAfter(trace, replayed, e)
  BY <1>1 DEF Log!Live, LiveAfter
<1> QED BY <1>2, LiveIsExisting DEF ReplayInv

\* No replay of a generated trace raises, and it leaves what the generator believes
\* to exist (106-145).
THEOREM ReplaysAreValid == ReplaySpec => []ReplayNeverRaises
<1>1. ASSUME ReplayInv, Replaying, trace # <<>> PROVE ReplayNeverRaises
  <2>1. /\ trace \in Seq(Command) /\ Len(trace) = Steps /\ Steps \in Nat
        /\ replayed \in 0..Steps /\ 0..Steps-1 \subseteq Entities
    BY <1>1, ReplayPosition, TraceReplayAssumption DEF Replaying
  <2>2. CASE replayed < Steps
    <3> DEFINE c == trace[replayed + 1]
    <3>1. replayed + 1 \in 1..Len(trace) /\ ~(replayed + 1 =< replayed)
      BY <2>1, <2>2
    <3>2. c \in Command /\ IsNew(c.idempotency_key)
      BY <1>1, <2>1, <3>1, ReplayPosition DEF IsNew
    <3>3. PossibleAfter(trace, replayed, c)
      <4>1. (replayed + 1) - 1 = replayed
        BY <2>1
      <4> QED BY <1>1, <3>1, <4>1 DEF ReplayInv, Generated
    <3> HIDE DEF c
    <3>4. /\ c.entity_id \in Entities
          /\ c.kind \in {"create", "update", "delete"}
      BY <3>2 DEF Command
    <3>5. Exists(c.entity_id) <=> LiveAfter(trace, replayed, c.entity_id)
      BY <1>1, <3>4, ExistingIsLive
    <3>6. /\ Exists(c.entity_id) <=> c.kind # "create"
          /\ HasValue(c) <=> c.kind # "delete"
      BY <3>3, <3>4, <3>5 DEF PossibleAfter, HasValue
    <3> QED BY <2>2, <3>2, <3>6 DEF ReplayNeverRaises, c
  <2>3. CASE replayed = Steps
    <3>1. /\ DOMAIN values \subseteq Entities /\ live \subseteq Entities
      BY <1>1, <2>1 DEF ReplayInv, StoreInv, Inv, TypeOK, Generated
    <3>2. \A e \in Entities : Exists(e) <=> e \in live
      BY <1>1, <2>1, <2>3, ExistingIsLive DEF ReplayInv, Generated
    <3>3. DOMAIN values = live
      BY <3>1, <3>2 DEF Exists
    <3> QED BY <2>1, <2>3, <3>3 DEF ReplayNeverRaises
  <2> QED BY <2>1, <2>2, <2>3
<1>2. ReplayInv => ReplayNeverRaises
  BY <1>1 DEF ReplayNeverRaises
<1> QED BY <1>2, ReplayInvariance, PTL
=============================================================================
