------------------------- MODULE GenerationRecovery -------------------------
(***************************************************************************)
(* Deployments that crash and recover by their journal: the decision table *)
(* recovery_action of infra-recovery/src/generation.rs, and the deployer   *)
(* that calls it.                                                          *)
(*                                                                         *)
(* The deployer is not in the repository.  It is modelled by what the      *)
(* table asks of it: it writes the stages in the order of OperationStage;  *)
(* the active identity changes while the entry says HealthChecked, and     *)
(* changes back while it says RollingBack.  An entry and the active        *)
(* identity are two durable writes, and it can crash between any two.      *)
(* While it is down others may deploy, and an entry may be damaged.        *)
(***************************************************************************)
EXTENDS Generation

VARIABLES
  active,       \* the durable identity that is actually active
  journal,      \* the durable DeploymentJournalEntry, or None
  running,      \* is the deployer up
  owned,        \* since the entry was begun only its deployer wrote either
  activations   \* how often the deployer has activated the entry's target; 2 is twice or more

vars == <<active, journal, running, owned, activations>>

PreActivation == {"Prepared", "Validated", "Staged"}
PostActivation == {"Activated", "Draining", "RollingBack"}
Terminal == {"Committed", "RolledBack"}
OperationStage == PreActivation \cup {"HealthChecked"} \cup PostActivation \cup Terminal

\* operation_id is abstracted to whether it is 1 to 128 visible ASCII characters.
DeploymentJournalEntry ==
  [operation_id : BOOLEAN, target_identity : GenerationIdentity,
   previous_identity : OptionalIdentity, stage : OperationStage]

ASSUME EntryAssumption == None \notin DeploymentJournalEntry

\* DeploymentJournalEntry::validate succeeds.
Sound(e) ==
  /\ e.operation_id
  /\ Valid(e.target_identity)
  /\ e.previous_identity # None =>
       /\ Valid(e.previous_identity)
       /\ e.previous_identity.generation < e.target_identity.generation

AtTarget(e, a) == Same(a, e.target_identity)
AtPrevious(e, a) == e.previous_identity # None /\ Same(a, e.previous_identity)

\* When recovery_action, given the active identity a, answers RecoveryAction::Noop,
\* ResumeActivation of the target, and RollBackTo the previous identity.
Noop(e, a) ==
  /\ Sound(e) /\ Valid(a)
  /\ \/ e.stage \in PreActivation \cup PostActivation \cup {"RolledBack"} /\ AtPrevious(e, a)
     \/ e.stage = "Committed" /\ AtTarget(e, a)

ResumeByStageAlone(e, a) == Sound(e) /\ e.stage = "HealthChecked"  \* mutant
ResumeRollingBack(e, a) ==  \* mutant
  /\ Sound(e) /\ Valid(a)
  /\ e.stage \in {"HealthChecked", "RollingBack"}
  /\ AtPrevious(e, a)
ResumeActivation(e, a) ==
  /\ Sound(e) /\ Valid(a)
  /\ e.stage = "HealthChecked"
  /\ AtPrevious(e, a)

RollBackToNothing(e, a) ==  \* mutant
  /\ Sound(e) /\ Valid(a)
  /\ e.stage \in PostActivation \cup {"HealthChecked"}
  /\ AtTarget(e, a)
RollBackActivatedOnly(e, a) ==  \* mutant
  /\ Sound(e) /\ Valid(a)
  /\ e.stage \in PostActivation
  /\ e.previous_identity # None
  /\ AtTarget(e, a)
RollBackTo(e, a) ==
  /\ Sound(e) /\ Valid(a)
  /\ e.stage \in PostActivation \cup {"HealthChecked"}
  /\ e.previous_identity # None
  /\ AtTarget(e, a)

\* When its answer is an error: of the two validations, MissingPreviousGeneration, and
\* RecoveryStateMismatch.
Malformed(e, a) == ~Sound(e) \/ ~Valid(a)

MissingPreviousGeneration(e, a) ==
  /\ ~Malformed(e, a)
  /\ e.stage # "Committed"
  /\ e.previous_identity = None

RecoveryStateMismatch(e, a) ==
  /\ ~Malformed(e, a)
  /\ e.stage # "Committed" => e.previous_identity # None /\ ~AtPrevious(e, a)
  /\ e.stage \in PostActivation \cup {"HealthChecked", "Committed"} => ~AtTarget(e, a)

Answered(e, a) == Noop(e, a) \/ ResumeActivation(e, a) \/ RollBackTo(e, a)

Refused(e, a) ==
  Malformed(e, a) \/ MissingPreviousGeneration(e, a) \/ RecoveryStateMismatch(e, a)

-----------------------------------------------------------------------------
(* The deployer at work *)

Init ==
  /\ active \in New
  /\ journal = None
  /\ running = TRUE
  /\ owned = TRUE
  /\ activations = 0

\* Writes the entry at another stage.
Record(stage) == journal' = [journal EXCEPT !.stage = stage]

Operating(stages) == running /\ journal # None /\ journal.stage \in stages

\* The entry of an operation that has ended gives way to that of the next.
Begin(target) ==
  /\ running
  /\ journal # None => journal.stage \in Terminal
  /\ LET e == [operation_id |-> TRUE, target_identity |-> target,
               previous_identity |-> active, stage |-> "Prepared"]
     IN Sound(e) /\ journal' = e
  /\ owned' = TRUE
  /\ activations' = 0
  /\ UNCHANGED <<active, running>>

Prepare ==
  /\ \/ Operating({"Prepared"}) /\ Record("Validated")
     \/ Operating({"Validated"}) /\ Record("Staged")
     \/ Operating({"Staged"}) /\ Record("HealthChecked")
  /\ UNCHANGED <<active, running, owned, activations>>

\* A check before the activation failed.
Abandon ==
  /\ Operating(PreActivation \cup {"HealthChecked"})
  /\ Same(active, journal.previous_identity)
  /\ Record("RolledBack")
  /\ UNCHANGED <<active, running, owned, activations>>

ActivateTarget ==
  /\ active' = journal.target_identity
  /\ activations' = IF activations = 0 THEN 1 ELSE 2

Activate ==
  /\ Operating({"HealthChecked"})
  /\ Same(active, journal.previous_identity)
  /\ ActivateTarget
  /\ UNCHANGED <<journal, running, owned>>

Complete ==
  /\ \/ /\ Operating({"HealthChecked"})
        /\ Same(active, journal.target_identity)
        /\ Record("Activated")
     \/ Operating({"Activated"}) /\ Record("Draining")
     \/ Operating({"Draining"}) /\ Record("Committed")
  /\ UNCHANGED <<active, running, owned, activations>>

\* The new generation turned out bad.
BeginRollBack ==
  /\ Operating({"Activated", "Draining"})
  /\ Record("RollingBack")
  /\ UNCHANGED <<active, running, owned, activations>>

RestorePrevious ==
  /\ Operating({"RollingBack"})
  /\ Same(active, journal.target_identity)
  /\ active' = journal.previous_identity
  /\ UNCHANGED <<journal, running, owned, activations>>

RolledBack ==
  /\ Operating({"RollingBack"})
  /\ Same(active, journal.previous_identity)
  /\ Record("RolledBack")
  /\ UNCHANGED <<active, running, owned, activations>>

-----------------------------------------------------------------------------
(* Crash, what may happen meanwhile, and restart *)

Crash ==
  /\ running
  /\ running' = FALSE
  /\ UNCHANGED <<active, journal, owned, activations>>

\* Another deployment, or a damaged pointer.
Deploy(id) ==
  /\ ~running
  /\ active' = id
  /\ owned' = FALSE
  /\ UNCHANGED <<journal, running, activations>>

\* One field of the entry is damaged.
Damage ==
  /\ ~running
  /\ journal # None
  /\ \/ journal' = [journal EXCEPT !.operation_id = FALSE]
     \/ \E id \in GenerationIdentity : journal' = [journal EXCEPT !.target_identity = id]
     \/ \E id \in OptionalIdentity : journal' = [journal EXCEPT !.previous_identity = id]
     \/ \E stage \in OperationStage : Record(stage)
  /\ owned' = FALSE
  /\ UNCHANGED <<active, running, activations>>

Restart ==
  /\ ~running
  /\ running' = TRUE

RestartIdle ==
  /\ Restart
  /\ journal = None
  /\ UNCHANGED <<active, journal, owned, activations>>

\* Nothing of the target is active: an unfinished operation ends as rolled back.
RecoverNoop ==
  /\ Restart
  /\ journal # None
  /\ Noop(journal, active)
  /\ IF journal.stage \in Terminal THEN UNCHANGED journal ELSE Record("RolledBack")
  /\ UNCHANGED <<active, owned, activations>>

RecoverResume ==
  /\ Restart
  /\ journal # None
  /\ ResumeActivation(journal, active)
  /\ ActivateTarget
  /\ UNCHANGED <<journal, owned>>

\* The rollback is recorded before it is made, as BeginRollBack does.
RecoverRollBack ==
  /\ Restart
  /\ journal # None
  /\ RollBackTo(journal, active)
  /\ Record("RollingBack")
  /\ UNCHANGED <<active, owned, activations>>

\* An operator puts away an entry that recovery refuses.
Dismiss ==
  /\ Restart
  /\ journal # None
  /\ Refused(journal, active)
  /\ journal' = None
  /\ owned' = FALSE
  /\ UNCHANGED <<active, activations>>

Recover == RestartIdle \/ RecoverNoop \/ RecoverResume \/ RecoverRollBack

Work == Prepare \/ Abandon \/ Activate \/ Complete \/ BeginRollBack
          \/ RestorePrevious \/ RolledBack

Next ==
  \/ \E id \in GenerationIdentity : Begin(id) \/ Deploy(id)
  \/ Work
  \/ Crash
  \/ Damage
  \/ Recover
  \/ Dismiss

Spec == Init /\ [][Next]_vars

\* A deployer that is up goes on, and one that is down is started again.
Fairness == WF_vars(Work) /\ WF_vars(Recover)
FairSpec == Spec /\ Fairness

-----------------------------------------------------------------------------
(* Properties *)

\* The entry is missing or complete, and there always is an active identity
\* (DeploymentJournalEntry, 80-86; previous_for_recovery, 279-287, keeps a missing
\* previous identity from becoming the active one).
TypeOK ==
  /\ active \in GenerationIdentity
  /\ journal \in DeploymentJournalEntry \cup {None}
  /\ running \in BOOLEAN
  /\ owned \in BOOLEAN
  /\ activations \in 0..2

\* Wherever the deployer crashes, during a recovery too, recovery_action has an
\* answer as long as nobody else wrote the entry or the active identity: the table
\* (217-269) covers every pair of durable writes that a crash can leave behind.
OwnCrashRecovers ==
  ~running /\ owned /\ journal # None => Answered(journal, active)

\* However often it crashes, one operation activates its target at most once: what
\* was rolled back is never resumed ("restart never double activates a target",
\* tests/recovery_conformance.rs:43).
ActivatedOnce == owned => activations < 2

\* The deployer moves the active identity only between the two identities of an
\* entry that is well formed, digests included; it never replaces a deployment the
\* entry does not know ("stale recovery journal cannot clobber a newer deployment",
\* tests/recovery_conformance.rs:57; "malformed recovery journal never reaches a
\* mutating action", 154).
RecoveryFenced ==
  [][running' /\ active' # active =>
       /\ Sound(journal)
       /\ \/ active = journal.previous_identity /\ active' = journal.target_identity
          \/ active = journal.target_identity /\ active' = journal.previous_identity]_vars

Settled ==
  /\ journal # None
  /\ \/ journal.stage = "Committed" /\ active = journal.target_identity
     \/ journal.stage = "RolledBack" /\ active = journal.previous_identity

\* Once crashes cease, an operation that nobody interfered with ends, committed or
\* rolled back, with the identity active that its last stage says.
Settles ==
  <>[][~Crash]_vars => (owned /\ journal # None ~> Settled \/ ~owned)
=============================================================================
