-------------------------- MODULE GenerationState --------------------------
(***************************************************************************)
(* The identities a host keeps of its generations, and the four calls that *)
(* change them (GenerationState in infra-recovery/src/generation.rs).  The *)
(* caller may make them in any order.  A call that returns an error leaves *)
(* every field as it was, so it is a stuttering step.                      *)
(***************************************************************************)
EXTENDS Generation

VARIABLES desired_identity, staged_identity, active_identity, previous_identity

vars == <<desired_identity, staged_identity, active_identity, previous_identity>>

\* GenerationState::new
Init ==
  /\ active_identity \in New
  /\ desired_identity = active_identity
  /\ staged_identity = None
  /\ previous_identity = None

NotOlder(id) == id.generation >= active_identity.generation  \* mutant
Newer(id) == id.generation > active_identity.generation

Stage(id) ==
  /\ Valid(id)
  /\ Newer(id)
  /\ desired_identity' = id
  /\ staged_identity' = id
  /\ UNCHANGED <<active_identity, previous_identity>>

StagedOrNot == TRUE  \* mutant
Staged == staged_identity # None

ActivateStaged ==
  /\ Staged
  /\ previous_identity' = active_identity
  /\ active_identity' = staged_identity
  /\ staged_identity' = None
  /\ UNCHANGED desired_identity

Commit ==
  /\ desired_identity' = active_identity
  /\ previous_identity' = None
  /\ UNCHANGED <<active_identity, staged_identity>>

Unstage == staged_identity' = None
KeepDesired == UNCHANGED desired_identity  \* mutant
DesirePrevious == desired_identity' = previous_identity

RollBack ==
  /\ previous_identity # None
  /\ DesirePrevious
  /\ active_identity' = previous_identity
  /\ Unstage
  /\ previous_identity' = None

Next ==
  \/ \E id \in GenerationIdentity : Stage(id)
  \/ ActivateStaged
  \/ Commit
  \/ RollBack

Spec == Init /\ [][Next]_vars

-----------------------------------------------------------------------------
(* Properties *)

\* The active and the desired identity are always there, the other two may be
\* missing (GenerationState, 59-64).
TypeOK ==
  /\ desired_identity \in GenerationIdentity
  /\ active_identity \in GenerationIdentity
  /\ staged_identity \in OptionalIdentity
  /\ previous_identity \in OptionalIdentity

\* Whatever the order of the calls, the number of the previous generation is less
\* than that of the active one, and that less than the staged one's: neither a
\* rollback goes forward nor an activation back (stage, 139, compares with the
\* active generation only at the moment of the call).
LineageOrdered ==
  /\ staged_identity # None =>
       staged_identity.generation > active_identity.generation
  /\ previous_identity # None =>
       previous_identity.generation < active_identity.generation

\* The desired identity is one the host holds: it never names a generation that
\* a rollback or a second stage has dropped (143, 161, 170).
DesiredIsHeld ==
  desired_identity \in {staged_identity, active_identity, previous_identity}
=============================================================================
