----------------------------- MODULE Generation -----------------------------
(***************************************************************************)
(* Identities of deployed generations (infra-recovery/src/generation.rs):  *)
(* a number and the digest of the bundle.                                  *)
(***************************************************************************)
EXTENDS Integers

CONSTANTS
  MaxGeneration,     \* u64::MAX
  Digests,           \* the strings a generation_sha256 may be
  CanonicalDigests,  \* those of 64 lower-case hexadecimal digits
  None

ASSUME GenerationAssumption ==
  /\ MaxGeneration \in Nat \ {0}
  /\ CanonicalDigests \subseteq Digests

GenerationIdentity == [generation : 0..MaxGeneration, generation_sha256 : Digests]

ASSUME NoneAssumption == None \notin GenerationIdentity

OptionalIdentity == GenerationIdentity \cup {None}

IsCanonicalSha256(value) == value \in CanonicalDigests

\* GenerationIdentity::validate succeeds.
Valid(id) == id.generation # 0 /\ IsCanonicalSha256(id.generation_sha256)

\* What GenerationIdentity::new can return.
New == {id \in GenerationIdentity : Valid(id)}

\* Derived equality.  SameNumber is a mutant, as are the definitions marked so
\* in the modules that extend this one.
SameNumber(a, b) == a.generation = b.generation
Same(a, b) == a = b
=============================================================================
