----------------------- MODULE GenerationStateProofs -----------------------
(* LineageOrdered and DesiredIsHeld for every sequence of calls.            *)
EXTENDS GenerationState, TLAPS

\* DesiredIsHeld is not inductive: an activation must not leave the desired
\* identity at what was the previous one.
DesiredBeforeActivation ==
  staged_identity # None => desired_identity \in {staged_identity, active_identity}

Inv == TypeOK /\ LineageOrdered /\ DesiredIsHeld /\ DesiredBeforeActivation

LEMMA InitInv == Init => Inv
  BY NoneAssumption
  DEF Init, New, Inv, TypeOK, OptionalIdentity, LineageOrdered, DesiredIsHeld,
      DesiredBeforeActivation

\* Every call keeps the invariant, whichever was made before it (136-175).
LEMMA NextInv == Inv /\ [Next]_vars => Inv'
<1> USE DEF Inv, TypeOK, OptionalIdentity, LineageOrdered, DesiredIsHeld,
            DesiredBeforeActivation
<1> SUFFICES ASSUME Inv, [Next]_vars PROVE Inv'
  OBVIOUS
<1> SUFFICES ASSUME Next PROVE Inv'
  BY DEF vars
<1>1. ASSUME NEW id \in GenerationIdentity, Stage(id) PROVE Inv'
  BY <1>1, NoneAssumption DEF Stage, Newer
<1>2. CASE ActivateStaged
  BY <1>2, NoneAssumption DEF ActivateStaged, Staged
<1>3. CASE Commit
  BY <1>3, NoneAssumption DEF Commit
<1>4. CASE RollBack
  BY <1>4, NoneAssumption DEF RollBack, DesirePrevious, Unstage
<1> QED BY <1>1, <1>2, <1>3, <1>4 DEF Next

THEOREM Invariance == Spec => []Inv
  BY InitInv, NextInv, PTL DEF Spec

\* The fields of GenerationState keep their types whatever is called (59-64).
THEOREM TypeCorrect == Spec => []TypeOK
  BY Invariance, PTL DEF Inv

\* No sequence of stage, activate_staged, commit and roll_back makes a previous
\* generation newer than the active one or a staged one older (139, 154, 172).
THEOREM LineageStaysOrdered == Spec => []LineageOrdered
  BY Invariance, PTL DEF Inv

\* The desired identity never dangles (143, 161, 170).
THEOREM DesiredStaysHeld == Spec => []DesiredIsHeld
  BY Invariance, PTL DEF Inv
=============================================================================
