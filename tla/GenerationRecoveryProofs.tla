---------------------- MODULE GenerationRecoveryProofs ----------------------
(* A deployer that follows recovery_action, for every identity, however often *)
(* it crashes and whatever is deployed or damaged while it is down.           *)
EXTENDS GenerationRecovery, TLAPS

\* What stage s of an operation, whose entry is e, says of the active identity a.
Agrees(e, s, a) ==
  /\ Sound(e)
  /\ s # "Committed" => e.previous_identity # None
  /\ s \in PreActivation \cup {"RolledBack"} => a = e.previous_identity
  /\ s \in {"Activated", "Draining", "Committed"} => a = e.target_identity
  /\ s \in {"HealthChecked", "RollingBack"} =>
       a \in {e.previous_identity, e.target_identity}

Consistent(e, a) == Agrees(e, e.stage, a)

\* An entry agrees with the active identity while the deployer is up, whatever
\* happened before, and while it is down unless somebody else wrote either.
EntryConsistent == journal # None /\ (running \/ owned) => Consistent(journal, active)

\* Before the target is first made active nothing was activated.
NotYetActivated ==
  owned /\ journal # None =>
    \/ journal.stage \notin PreActivation \cup {"HealthChecked"}
    \/ active = journal.target_identity
    \/ activations = 0

Inv == TypeOK /\ EntryConsistent /\ NotYetActivated /\ ActivatedOnce

\* Writing a stage leaves the other fields of an entry alone.
LEMMA RecordEffect ==
  ASSUME NEW e \in DeploymentJournalEntry, NEW s \in OperationStage
  PROVE  LET f == [e EXCEPT !.stage = s]
         IN /\ f \in DeploymentJournalEntry
            /\ f.stage = s
            /\ f.operation_id = e.operation_id
            /\ f.target_identity = e.target_identity
            /\ f.previous_identity = e.previous_identity
            /\ Sound(f) <=> Sound(e)
  BY DEF DeploymentJournalEntry, Sound

\* The two identities of a well-formed entry differ.
LEMMA TwoIdentities ==
  ASSUME NEW e \in DeploymentJournalEntry, Sound(e)
  PROVE  e.target_identity # e.previous_identity
  BY NoneAssumption
  DEF DeploymentJournalEntry, Sound, OptionalIdentity, GenerationIdentity

\* The table has an answer for every entry that agrees with the active identity.
LEMMA TableComplete ==
  ASSUME NEW e \in DeploymentJournalEntry, NEW a, Consistent(e, a)
  PROVE  Answered(e, a)
<1>1. Sound(e) /\ Valid(a)
  BY DEF Consistent, Agrees, Sound, DeploymentJournalEntry, OperationStage, PreActivation,
         PostActivation, Terminal
<1>2. e.stage \in OperationStage
  BY DEF DeploymentJournalEntry
<1> QED
  BY <1>1, <1>2
  DEF Consistent, Agrees, Answered, Noop, ResumeActivation, RollBackTo, AtPrevious, AtTarget,
      Same, OperationStage, PreActivation, PostActivation, Terminal

LEMMA InitInv == Init => Inv
  BY NoneAssumption
  DEF Init, New, Inv, TypeOK, EntryConsistent, NotYetActivated, ActivatedOnce, OptionalIdentity

\* A step that only writes a stage keeps the invariant when the entry then agrees
\* with the active identity and the stage is not one before activation, or nothing
\* was activated yet.
LEMMA RecordInv ==
  ASSUME Inv, NEW s \in OperationStage, journal # None, Record(s),
         UNCHANGED <<active, owned, activations>>, running' \in BOOLEAN,
         Agrees(journal, s, active),
         s \in PreActivation \cup {"HealthChecked"} =>
           journal.stage \in PreActivation /\ Consistent(journal, active)
  PROVE  Inv'
<1> DEFINE f == [journal EXCEPT !.stage = s]
<1>1. journal \in DeploymentJournalEntry
  BY DEF Inv, TypeOK
<1>2. /\ f \in DeploymentJournalEntry
      /\ f.stage = s
      /\ f.target_identity = journal.target_identity
      /\ f.previous_identity = journal.previous_identity
      /\ Sound(f) <=> Sound(journal)
  BY <1>1, RecordEffect
<1>3. journal' = f
  BY DEF Record
<1> HIDE DEF f
<1>4. TypeOK'
  BY <1>2, <1>3 DEF Inv, TypeOK
<1>5. EntryConsistent'
  BY <1>2, <1>3 DEF EntryConsistent, Consistent, Agrees
<1>6. NotYetActivated'
  <2>1. CASE s \in PreActivation \cup {"HealthChecked"}
    <3>1. active # journal.target_identity
      BY <1>1, <2>1, TwoIdentities DEF Consistent, Agrees
    <3> QED BY <1>2, <1>3, <2>1, <3>1 DEF Inv, NotYetActivated
  <2>2. CASE s \notin PreActivation \cup {"HealthChecked"}
    BY <1>2, <1>3, <2>2 DEF NotYetActivated
  <2> QED BY <2>1, <2>2
<1>7. ActivatedOnce'
  BY DEF Inv, ActivatedOnce
<1> QED BY <1>4, <1>5, <1>6, <1>7 DEF Inv

\* Making the target active, from the previous identity of an entry at HealthChecked.
LEMMA ActivateInv ==
  ASSUME Inv, journal # None, Sound(journal), journal.stage = "HealthChecked",
         journal.previous_identity # None, active = journal.previous_identity,
         ActivateTarget, UNCHANGED <<journal, owned>>, running' \in BOOLEAN
  PROVE  Inv'
<1>1. journal \in DeploymentJournalEntry
  BY DEF Inv, TypeOK
<1>2. active # journal.target_identity
  BY <1>1, TwoIdentities
<1>3. owned => activations = 0
  BY <1>2 DEF Inv, NotYetActivated
<1>4. TypeOK'
  BY <1>1 DEF Inv, TypeOK, ActivateTarget, DeploymentJournalEntry
<1>5. EntryConsistent'
  BY DEF EntryConsistent, Consistent, Agrees, ActivateTarget, PreActivation
<1>6. NotYetActivated'
  BY DEF NotYetActivated, ActivateTarget
<1>7. ActivatedOnce'
  BY <1>3 DEF ActivatedOnce, ActivateTarget
<1> QED BY <1>4, <1>5, <1>6, <1>7 DEF Inv

\* Every step of a deployer that is up keeps the invariant.
LEMMA WorkInv ==
  ASSUME Inv, Work
  PROVE  Inv'
<1> USE DEF Operating, PreActivation
<1>1. journal # None => journal \in DeploymentJournalEntry /\ journal.stage \in OperationStage
  BY DEF Inv, TypeOK, DeploymentJournalEntry
<1>2. running /\ journal # None => Consistent(journal, active)
  BY DEF Inv, EntryConsistent
<1>3. running \in BOOLEAN
  BY DEF Inv, TypeOK
<1>4. CASE Prepare
  <2>1. ASSUME NEW s \in OperationStage, NEW t \in PreActivation, Operating({t}), Record(s),
               s \in PreActivation \cup {"HealthChecked"},
               UNCHANGED <<active, running, owned, activations>>
        PROVE  Inv'
    <3>1. Agrees(journal, s, active)
      BY <1>2, <2>1 DEF Consistent, Agrees
    <3> QED BY <1>2, <1>3, <2>1, <3>1, RecordInv
  <2> QED
    BY <1>4, <2>1 DEF Prepare, OperationStage
<1>5. CASE Abandon
  <2>1. Agrees(journal, "RolledBack", active)
    BY <1>2, <1>5 DEF Abandon, Consistent, Agrees, Same
  <2> QED BY <1>3, <1>5, <2>1, RecordInv DEF Abandon, OperationStage, Terminal
<1>6. CASE Activate
  <2>1. Sound(journal) /\ journal.previous_identity # None
    BY <1>2, <1>6 DEF Activate, Consistent, Agrees
  <2> QED BY <1>3, <1>6, <2>1, ActivateInv DEF Activate, Same
<1>7. CASE Complete
  <2>1. ASSUME NEW s \in {"Activated", "Draining", "Committed"}, running, journal # None,
               active = journal.target_identity, Record(s),
               UNCHANGED <<active, running, owned, activations>>,
               journal.stage \in {"HealthChecked", "Activated", "Draining"}
        PROVE  Inv'
    <3>1. Agrees(journal, s, active)
      BY <1>2, <2>1 DEF Consistent, Agrees
    <3> QED BY <1>3, <2>1, <3>1, RecordInv DEF OperationStage, PostActivation, Terminal
  <2>2. journal.stage \in {"Activated", "Draining"} => active = journal.target_identity
    BY <1>2, <1>7 DEF Complete, Consistent, Agrees
  <2> QED BY <1>7, <2>1, <2>2 DEF Complete, Same
<1>8. CASE BeginRollBack
  <2>1. Agrees(journal, "RollingBack", active)
    BY <1>2, <1>8 DEF BeginRollBack, Consistent, Agrees
  <2> QED BY <1>3, <1>8, <2>1, RecordInv DEF BeginRollBack, OperationStage, PostActivation
<1>9. CASE RestorePrevious
  <2>1. Sound(journal) /\ journal.previous_identity # None
    BY <1>2, <1>9 DEF RestorePrevious, Consistent, Agrees
  <2>2. TypeOK'
    BY <1>1, <1>9, <2>1
    DEF RestorePrevious, Inv, TypeOK, DeploymentJournalEntry, OptionalIdentity
  <2>3. EntryConsistent'
    BY <1>9, <2>1 DEF RestorePrevious, EntryConsistent, Consistent, Agrees
  <2>4. NotYetActivated' /\ ActivatedOnce'
    BY <1>9 DEF RestorePrevious, Inv, NotYetActivated, ActivatedOnce
  <2> QED BY <2>2, <2>3, <2>4 DEF Inv
<1>10. CASE RolledBack
  <2>1. Agrees(journal, "RolledBack", active)
    BY <1>2, <1>10 DEF RolledBack, Consistent, Agrees, Same
  <2> QED BY <1>3, <1>10, <2>1, RecordInv DEF RolledBack, OperationStage, Terminal
<1> QED BY <1>4, <1>5, <1>6, <1>7, <1>8, <1>9, <1>10 DEF Work

\* So does every answer of recovery_action that a restarted deployer acts on.
LEMMA RecoverInv ==
  ASSUME Inv, Recover
  PROVE  Inv'
<1>1. journal # None => journal \in DeploymentJournalEntry /\ journal.stage \in OperationStage
  BY DEF Inv, TypeOK, DeploymentJournalEntry
<1>2. running' \in BOOLEAN /\ ~running
  BY DEF Recover, RestartIdle, RecoverNoop, RecoverResume, RecoverRollBack, Restart
<1>3. CASE RestartIdle
  BY <1>3 DEF RestartIdle, Restart, Inv, TypeOK, EntryConsistent, NotYetActivated, ActivatedOnce
<1>4. CASE RecoverNoop
  <2>1. Agrees(journal, journal.stage, active) \/ journal.stage \notin Terminal
    BY <1>1, <1>4 DEF RecoverNoop, Noop, AtPrevious, AtTarget, Same, Agrees, Terminal,
       PreActivation, PostActivation
  <2>2. CASE journal.stage \in Terminal
    BY <1>4, <2>1, <2>2 DEF RecoverNoop, Restart, Inv, TypeOK, EntryConsistent, Consistent,
       NotYetActivated, ActivatedOnce
  <2>3. CASE journal.stage \notin Terminal
    <3>1. Agrees(journal, "RolledBack", active)
      BY <1>4, <2>3 DEF RecoverNoop, Noop, AtPrevious, Same, Agrees, Terminal, PreActivation
    <3> QED BY <1>2, <1>4, <2>3, <3>1, RecordInv
       DEF RecoverNoop, OperationStage, Terminal, PreActivation
  <2> QED BY <2>2, <2>3
<1>5. CASE RecoverResume
  BY <1>2, <1>5, ActivateInv DEF RecoverResume, ResumeActivation, AtPrevious, Same
<1>6. CASE RecoverRollBack
  <2>1. Agrees(journal, "RollingBack", active)
    BY <1>6 DEF RecoverRollBack, RollBackTo, AtTarget, Same, Agrees, PreActivation
  <2> QED BY <1>2, <1>6, <2>1, RecordInv
     DEF RecoverRollBack, OperationStage, PreActivation, PostActivation
<1> QED BY <1>3, <1>4, <1>5, <1>6 DEF Recover

\* And everything that happens around it.
LEMMA AroundInv ==
  ASSUME Inv,
         \/ \E id \in GenerationIdentity : Begin(id) \/ Deploy(id)
         \/ Crash \/ Damage \/ Dismiss
  PROVE  Inv'
<1> USE DEF Inv, TypeOK, EntryConsistent, NotYetActivated, ActivatedOnce
<1>1. ASSUME NEW id \in GenerationIdentity, Begin(id) PROVE Inv'
  <2> DEFINE e == [operation_id |-> TRUE, target_identity |-> id,
                   previous_identity |-> active, stage |-> "Prepared"]
  <2>1. e \in DeploymentJournalEntry
    BY DEF DeploymentJournalEntry, OptionalIdentity, OperationStage, PreActivation
  <2>2. /\ e.stage = "Prepared"
        /\ e.previous_identity = active
    OBVIOUS
  <2>3. Sound(e) /\ journal' = e /\ owned' = TRUE /\ activations' = 0
        /\ UNCHANGED <<active, running>>
    BY <1>1 DEF Begin
  <2> HIDE DEF e
  <2>4. Consistent(e, active)
    BY <2>2, <2>3, NoneAssumption DEF Consistent, Agrees, PreActivation
  <2> QED BY <2>1, <2>3, <2>4
<1>2. ASSUME NEW id \in GenerationIdentity, Deploy(id) PROVE Inv'
  BY <1>2 DEF Deploy
<1>3. CASE Crash
  BY <1>3 DEF Crash
<1>4. CASE Damage
  <2>1. journal' \in DeploymentJournalEntry
    BY <1>4 DEF Damage, DeploymentJournalEntry, Record
  <2> QED BY <1>4, <2>1 DEF Damage
<1>5. CASE Dismiss
  BY <1>5 DEF Dismiss, Restart
<1> QED BY <1>1, <1>2, <1>3, <1>4, <1>5

LEMMA NextInv == Inv /\ [Next]_vars => Inv'
<1> SUFFICES ASSUME Inv, [Next]_vars PROVE Inv'
  OBVIOUS
<1>1. CASE Next
  BY <1>1, WorkInv, RecoverInv, AroundInv DEF Next
<1>2. CASE UNCHANGED vars
  BY <1>2 DEF vars, Inv, TypeOK, EntryConsistent, Consistent, NotYetActivated, ActivatedOnce
<1> QED BY <1>1, <1>2

THEOREM Invariance == Spec => []Inv
  BY InitInv, NextInv, PTL DEF Spec

\* No entry, well formed or not, makes the active identity disappear (279-287).
THEOREM TypeCorrect == Spec => []TypeOK
  BY Invariance, PTL DEF Inv

\* An operation activates its target at most once, through any number of crashes
\* and recoveries (221-252).
THEOREM TargetActivatedOnce == Spec => []ActivatedOnce
  BY Invariance, PTL DEF Inv

\* recovery_action never refuses what a crash of its own deployer left behind (217-269).
THEOREM OwnCrashesRecover == Spec => []OwnCrashRecovers
<1>1. Inv => OwnCrashRecovers
  BY TableComplete DEF Inv, TypeOK, EntryConsistent, OwnCrashRecovers
<1> QED BY <1>1, Invariance, PTL

\* A step that changes the active identity while the deployer is or comes up moves it
\* between the two identities of a well-formed entry (217-252).
LEMMA StepFenced ==
  ASSUME Inv, [Next]_vars, running', active' # active
  PROVE  /\ Sound(journal)
         /\ \/ active = journal.previous_identity /\ active' = journal.target_identity
            \/ active = journal.target_identity /\ active' = journal.previous_identity
<1>1. running /\ journal # None => Sound(journal)
  BY DEF Inv, EntryConsistent, Consistent, Agrees
<1>2. Activate \/ RestorePrevious \/ RecoverResume
  BY DEF Inv, TypeOK, Next, vars, Begin, Deploy, Work, Prepare, Abandon, Complete,
     BeginRollBack, RolledBack, Crash, Damage, Recover, RestartIdle, RecoverNoop,
     RecoverRollBack, Dismiss
<1>3. CASE Activate \/ RestorePrevious
  BY <1>1, <1>3 DEF Activate, RestorePrevious, ActivateTarget, Operating, Same
<1>4. CASE RecoverResume
  BY <1>4 DEF RecoverResume, ResumeActivation, AtPrevious, ActivateTarget, Same
<1> QED BY <1>2, <1>3, <1>4

\* A stale or malformed entry never overwrites a deployment it does not know.
THEOREM StaleEntriesFenced == Spec => RecoveryFenced
<1>1. Inv /\ [Next]_vars =>
        [running' /\ active' # active =>
           /\ Sound(journal)
           /\ \/ active = journal.previous_identity /\ active' = journal.target_identity
              \/ active = journal.target_identity /\ active' = journal.previous_identity]_vars
  BY StepFenced
<1> QED BY <1>1, Invariance, PTL DEF Spec, RecoveryFenced
-----------------------------------------------------------------------------
(* Liveness.  The provers know nothing of ENABLED, so fairness is stated by what  *)
(* there is to do: either that is done with again and again, or something is done *)
(* again and again.                                                               *)

\* A deployer that is up goes on with an operation that has not ended.
DeployerGoesOn ==
  []<>~(running /\ journal # None /\ journal.stage \notin Terminal) \/ []<><<Work>>_vars

\* A deployer that crashed is started again, as long as nobody interferes.
DeployerRestarts == []<>~(~running /\ owned) \/ []<><<Recover>>_vars

\* How far an operation has come, by its stage and by whether the identity that the
\* stage changes has been changed.
Rank(e, a) ==
  CASE e.stage = "Prepared" -> 0
    [] e.stage = "Validated" -> 1
    [] e.stage = "Staged" -> 2
    [] e.stage = "HealthChecked" -> IF a = e.target_identity THEN 4 ELSE 3
    [] e.stage = "Activated" -> 5
    [] e.stage = "Draining" -> 6
    [] e.stage = "RollingBack" -> IF a = e.target_identity THEN 7 ELSE 8
    [] OTHER -> 9

\* An operation in the hands of a deployer that is up, at rank n or later.
UnderWay(n) == running /\ owned /\ journal # None /\ Rank(journal, active) >= n
Ended == Settled \/ ~owned

LEMMA RankIs ==
  ASSUME NEW e, NEW a
  PROVE  /\ e.stage = "Prepared" => Rank(e, a) = 0
         /\ e.stage = "Validated" => Rank(e, a) = 1
         /\ e.stage = "Staged" => Rank(e, a) = 2
         /\ e.stage = "HealthChecked" =>
              Rank(e, a) = IF a = e.target_identity THEN 4 ELSE 3
         /\ e.stage = "Activated" => Rank(e, a) = 5
         /\ e.stage = "Draining" => Rank(e, a) = 6
         /\ e.stage = "RollingBack" =>
              Rank(e, a) = IF a = e.target_identity THEN 7 ELSE 8
         /\ e.stage \in Terminal => Rank(e, a) = 9
         /\ Rank(e, a) \in 0..9
BY DEF Rank, Terminal

\* Nobody but the deployer ends an operation, or takes its entry away, and it lasts as
\* long as nobody interferes.
LEMMA OperationLasts ==
  ASSUME Inv, [Next]_vars, owned, journal # None, owned'
  PROVE  journal' # None
<1>1. journal \in DeploymentJournalEntry
  BY DEF Inv, TypeOK
<1>2. \A s \in OperationStage : Record(s) => journal' # None
  BY <1>1, EntryAssumption, RecordEffect DEF Record
<1>3. CASE UNCHANGED journal
  BY <1>3
<1>4. ASSUME NEW id \in GenerationIdentity, Begin(id) PROVE journal' # None
  <2> DEFINE e == [operation_id |-> TRUE, target_identity |-> id,
                   previous_identity |-> active, stage |-> "Prepared"]
  <2>1. e \in DeploymentJournalEntry
    BY DEF Inv, TypeOK, DeploymentJournalEntry, OptionalIdentity, OperationStage, PreActivation
  <2>2. journal' = e
    BY <1>4 DEF Begin
  <2> QED
    BY <2>1, <2>2, EntryAssumption
<1>5. CASE Work
  BY <1>2, <1>3, <1>5
  DEF Work, Prepare, Abandon, Activate, Complete, BeginRollBack, RestorePrevious, RolledBack,
      OperationStage, PreActivation, PostActivation, Terminal
<1>6. CASE Recover
  BY <1>2, <1>3, <1>6
  DEF Recover, RestartIdle, RecoverNoop, RecoverResume, RecoverRollBack,
      OperationStage, PostActivation, Terminal
<1> QED
  BY <1>3, <1>4, <1>5, <1>6 DEF Next, Crash, Deploy, Damage, Dismiss, vars

\* A rank of 9 means that the operation has ended as it should.
LEMMA LastRankSettles ==
  ASSUME Inv, UnderWay(9)
  PROVE  Settled
<1>1. journal \in DeploymentJournalEntry /\ journal.stage \in OperationStage
  BY DEF Inv, TypeOK, UnderWay, DeploymentJournalEntry
<1>2. journal.stage \in Terminal
  BY <1>1, RankIs DEF UnderWay, OperationStage, PreActivation, PostActivation
<1> QED
  BY <1>1, <1>2 DEF Inv, EntryConsistent, Consistent, Agrees, UnderWay, Settled, Terminal

\* What a deployer that is up does takes the operation on, or to its end.
LEMMA WorkAdvances ==
  ASSUME Inv, UnderWay(0), Work
  PROVE  /\ running' /\ owned' /\ journal' # None
         /\ Rank(journal', active') > Rank(journal, active)
<1>1. journal \in DeploymentJournalEntry /\ journal.stage \in OperationStage
  BY DEF Inv, TypeOK, UnderWay, DeploymentJournalEntry
<1>2. Consistent(journal, active) /\ journal.target_identity # journal.previous_identity
  BY <1>1, TwoIdentities DEF Inv, EntryConsistent, UnderWay, Consistent, Agrees
<1>3. running' /\ owned'
  BY DEF UnderWay, Work, Prepare, Abandon, Activate, Complete, BeginRollBack,
         RestorePrevious, RolledBack
<1>4. journal' # None
  BY <1>3, OperationLasts DEF UnderWay, Next
<1>5. ASSUME NEW s \in OperationStage, Record(s)
      PROVE  journal'.stage = s /\ journal'.target_identity = journal.target_identity
  BY <1>1, <1>5, RecordEffect DEF Record
<1> SUFFICES Rank(journal', active') > Rank(journal, active)
  BY <1>3, <1>4
<1>6. CASE Prepare
  BY <1>5, <1>6, RankIs DEF Prepare, Operating, OperationStage, PreActivation
<1>7. CASE Abandon
  BY <1>2, <1>5, <1>7, RankIs
  DEF Abandon, Operating, OperationStage, PreActivation, Terminal, Same
<1>8. CASE Activate
  BY <1>2, <1>8, RankIs DEF Activate, ActivateTarget, Operating, Same
<1>9. CASE Complete
  BY <1>2, <1>5, <1>9, RankIs
  DEF Complete, Operating, OperationStage, PostActivation, Terminal, Same
<1>10. CASE BeginRollBack
  BY <1>2, <1>5, <1>10, RankIs
  DEF BeginRollBack, Operating, OperationStage, PostActivation, Consistent, Agrees
<1>11. CASE RestorePrevious
  BY <1>2, <1>11, RankIs DEF RestorePrevious, Operating, Same
<1>12. CASE RolledBack
  BY <1>2, <1>5, <1>12, RankIs DEF RolledBack, Operating, OperationStage, Terminal, Same
<1> QED
  BY <1>3, <1>4, <1>6, <1>7, <1>8, <1>9, <1>10, <1>11, <1>12 DEF Work

\* While nothing crashes, an operation that is under way and has not ended stays as far as
\* it has come, whoever takes the next step, and work takes it further.
LEMMA UnderWayLasts ==
  ASSUME Inv, [Next /\ ~Crash]_vars, NEW n \in 0..9, UnderWay(n), ~Ended
  PROVE  /\ UnderWay(n)'
         /\ Work => UnderWay(n + 1)'
<1>1. UnderWay(0)
  BY RankIs DEF UnderWay
<1>2. Work => UnderWay(n)' /\ UnderWay(n + 1)'
  <2> SUFFICES ASSUME Work PROVE UnderWay(n)' /\ UnderWay(n + 1)'
    OBVIOUS
  <2>1. /\ running' /\ owned' /\ journal' # None
        /\ Rank(journal', active') > Rank(journal, active)
    BY <1>1, WorkAdvances
  <2>2. Rank(journal', active') \in 0..9 /\ Rank(journal, active) \in 0..9
    BY RankIs
  <2> QED
    BY <2>1, <2>2 DEF UnderWay
<1>3. ASSUME NEW id \in GenerationIdentity, Begin(id) PROVE FALSE
  <2>1. journal.stage \in Terminal
    BY <1>3 DEF Begin, UnderWay
  <2>2. UnderWay(9)
    BY <2>1, RankIs DEF UnderWay
  <2> QED
    BY <2>2, LastRankSettles DEF Ended
<1>4. Work \/ UNCHANGED vars
  BY <1>3 DEF Next, Crash, Deploy, Damage, Recover, RestartIdle, RecoverNoop, RecoverResume,
     RecoverRollBack, Dismiss, Restart, UnderWay
<1>5. UNCHANGED vars => UnderWay(n)'
  BY DEF UnderWay, vars
<1> QED
  BY <1>2, <1>4, <1>5

\* A deployer that is down stays so until it is started again, and is then under way.
LEMMA RestartContinues ==
  ASSUME Inv, [Next]_vars, ~running, owned, journal # None
  PROVE  /\ Recover => UnderWay(0)'
         /\ \/ ~running' /\ owned' /\ journal' # None
            \/ UnderWay(0)'
            \/ ~owned'
<1>1. owned' => journal' # None
  BY OperationLasts
<1>2. Rank(journal', active') \in 0..9
  BY RankIs
<1>3. Recover => running' /\ owned'
  BY DEF Recover, RestartIdle, RecoverNoop, RecoverResume, RecoverRollBack, Restart
<1>4. running' \in BOOLEAN
  BY DEF Inv, TypeOK, Next, vars, Begin, Deploy, Work, Prepare, Abandon, Activate, Complete,
     BeginRollBack, RestorePrevious, RolledBack, Crash, Damage, Recover, RestartIdle,
     RecoverNoop, RecoverResume, RecoverRollBack, Dismiss, Restart
<1> QED
  BY <1>1, <1>2, <1>3, <1>4 DEF UnderWay

\* Once crashes cease, an operation with which nobody interferes ends, committed or rolled
\* back, with the identity active that its last stage says: it is started again where it
\* is not up, and then has at most nine ranks to climb (210-270).
THEOREM OperationsSettle == Spec /\ DeployerGoesOn /\ DeployerRestarts => Settles
<1> DEFINE Begun == owned /\ journal # None
           Down == ~running /\ owned /\ journal # None
           Due == running /\ journal # None /\ journal.stage \notin Terminal
           Quiet == Inv /\ ~Ended /\ [Next]_vars /\ [~Crash]_vars
           Calm == /\ []Inv /\ [][Next]_vars /\ [][~Crash]_vars
                   /\ DeployerGoesOn /\ DeployerRestarts
<1>1. ASSUME NEW n \in 0..8, Quiet, UnderWay(n)
      PROVE  UnderWay(n)' /\ (Work => UnderWay(n + 1)')
  BY <1>1, UnderWayLasts
<1>2. /\ Quiet /\ UnderWay(0) => UnderWay(0)' /\ (<<Work>>_vars => UnderWay(1)')
      /\ Quiet /\ UnderWay(1) => UnderWay(1)' /\ (<<Work>>_vars => UnderWay(2)')
      /\ Quiet /\ UnderWay(2) => UnderWay(2)' /\ (<<Work>>_vars => UnderWay(3)')
      /\ Quiet /\ UnderWay(3) => UnderWay(3)' /\ (<<Work>>_vars => UnderWay(4)')
      /\ Quiet /\ UnderWay(4) => UnderWay(4)' /\ (<<Work>>_vars => UnderWay(5)')
      /\ Quiet /\ UnderWay(5) => UnderWay(5)' /\ (<<Work>>_vars => UnderWay(6)')
      /\ Quiet /\ UnderWay(6) => UnderWay(6)' /\ (<<Work>>_vars => UnderWay(7)')
      /\ Quiet /\ UnderWay(7) => UnderWay(7)' /\ (<<Work>>_vars => UnderWay(8)')
      /\ Quiet /\ UnderWay(8) => UnderWay(8)' /\ (<<Work>>_vars => UnderWay(9)')
  <2> HIDE DEF Quiet
  <2>1. /\ 0 + 1 = 1 /\ 1 + 1 = 2 /\ 2 + 1 = 3 /\ 3 + 1 = 4 /\ 4 + 1 = 5
        /\ 5 + 1 = 6 /\ 6 + 1 = 7 /\ 7 + 1 = 8 /\ 8 + 1 = 9
        /\ 0 \in 0..8 /\ 1 \in 0..8 /\ 2 \in 0..8 /\ 3 \in 0..8 /\ 4 \in 0..8
        /\ 5 \in 0..8 /\ 6 \in 0..8 /\ 7 \in 0..8 /\ 8 \in 0..8
    OBVIOUS
  <2> QED
    BY <1>1, <2>1
<1>3. Inv /\ ~Ended /\ UnderWay(0) => Due
  <2>1. journal.stage \in Terminal /\ UnderWay(0) => UnderWay(9)
    BY RankIs DEF UnderWay
  <2> QED
    BY <2>1, LastRankSettles DEF UnderWay, Ended
<1>4. Inv /\ UnderWay(9) => Ended
  BY LastRankSettles DEF Ended
<1>5. /\ UnderWay(1) \/ UnderWay(2) \/ UnderWay(3) \/ UnderWay(4) => UnderWay(0)
      /\ UnderWay(5) \/ UnderWay(6) \/ UnderWay(7) \/ UnderWay(8) => UnderWay(0)
  BY RankIs DEF UnderWay
<1>6. Inv /\ Down /\ [Next]_vars
        => /\ Down' \/ UnderWay(0)' \/ Ended'
           /\ <<Recover>>_vars => UnderWay(0)'
  BY RestartContinues DEF Ended
<1>7. Inv /\ Begun => Down \/ UnderWay(0)
  BY RankIs DEF Inv, TypeOK, UnderWay
<1>8. Inv /\ Begun /\ [Next]_vars => Begun' \/ Ended'
  BY OperationLasts DEF Ended
<1>9. Down => ~running /\ owned
  OBVIOUS
<1>10. DeployerGoesOn <=> []<>~Due \/ []<><<Work>>_vars
  BY DEF DeployerGoesOn
<1> HIDE DEF Begun, Down, Due
<1>11. Calm => (UnderWay(0) ~> Ended)
  BY <1>2, <1>3, <1>4, <1>5, <1>10, PTL
<1>12. Calm => (Down ~> UnderWay(0) \/ Ended)
  BY <1>6, <1>9, PTL DEF DeployerRestarts
<1>13. Calm => (Begun ~> Ended)
  BY <1>7, <1>11, <1>12, PTL
<1>14. Spec /\ DeployerGoesOn /\ DeployerRestarts /\ <>[][~Crash]_vars => (Begun ~> Ended)
  BY <1>8, <1>13, Invariance, PTL DEF Spec, DeployerGoesOn, DeployerRestarts
<1> QED
  BY <1>14 DEF Settles, Begun, Ended

=============================================================================
