----------------------------- MODULE SessionSets -----------------------------
(***************************************************************************)
(* Sets of sessions as they are counted in the proofs about the two halves *)
(* of the console: a step moves one session.                               *)
(***************************************************************************)
EXTENDS Integers, FiniteSets, FiniteSetTheorems, TLAPS

\* A session joins or leaves a set of sessions.
LEMMA OneSessionMoves ==
  ASSUME NEW before, NEW after, NEW s, IsFiniteSet(before), after \ {s} = before \ {s}
  PROVE  /\ IsFiniteSet(after) /\ Cardinality(after) \in Nat /\ Cardinality(before) \in Nat
         /\ s \in after /\ s \notin before => Cardinality(after) = Cardinality(before) + 1
         /\ s \notin after /\ s \in before => Cardinality(after) = Cardinality(before) - 1
         /\ (s \in after <=> s \in before) => Cardinality(after) = Cardinality(before)
  <1>1. IsFiniteSet(before) /\ Cardinality(before) \in Nat
    BY FS_CardinalityType
  <1>2. CASE s \in after /\ s \notin before
    <2>1. after = before \cup {s}
      BY <1>2
    <2>2. QED
      BY <1>1, <1>2, <2>1, FS_AddElement
  <1>3. CASE s \notin after /\ s \in before
    <2>1. after = before \ {s}
      BY <1>3
    <2>2. IsFiniteSet(after) /\ Cardinality(after) = Cardinality(before) - 1
      BY <1>1, <1>3, <2>1, FS_RemoveElement
    <2>3. Cardinality(after) \in Nat
      BY <2>2, FS_CardinalityType
    <2>4. QED
      BY <1>1, <1>3, <2>2, <2>3
  <1>4. CASE s \in after <=> s \in before
    <2>1. after = before
      BY <1>4
    <2>2. QED
      BY <1>1, <1>4, <2>1
  <1>5. QED
    BY <1>2, <1>3, <1>4
=============================================================================
