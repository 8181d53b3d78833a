--------------------------- MODULE BucketAclProofs ---------------------------
(***************************************************************************)
(* What obsBucketACLMatches establishes, for lists of grants of any length. *)
(* The code compares lengths and looks up each expected grant; that nothing *)
(* unexpected is in the list is a counting argument.                       *)
(***************************************************************************)
EXTENDS BucketAcl, FiniteSetTheorems, FunctionTheorems, TLAPS

(* A list of grants that matches holds exactly the expected grants, each of *)
(* them once: a repeated grant cannot make up for a missing one, and no     *)
(* grant beyond the canned ACL goes unnoticed.                             *)
THEOREM MatchIsExact ==
    ASSUME NEW Grants, NEW actual \in Seq(Grants),
           NEW expected, IsFiniteSet(expected),
           obsBucketACLMatches(actual, expected)
    PROVE  /\ actualSet(actual) = expected
           /\ \A i, j \in 1..Len(actual) :
                 signatureOf(actual[i]) = signatureOf(actual[j]) => i = j
  <1> DEFINE I == 1..Len(actual)
             f == [i \in I |-> signatureOf(actual[i])]
             T == actualSet(actual)
  <1>1. f \in Surjection(I, T)
    BY DEF Surjection, actualSet
  <1>2. Len(actual) \in Nat
    OBVIOUS
  <1>3. IsFiniteSet(I) /\ Cardinality(I) = Len(actual)
    <2>1. IsFiniteSet(I) /\ Cardinality(I) = IF 1 > Len(actual) THEN 0 ELSE Len(actual) - 1 + 1
      BY <1>2, FS_Interval
    <2> QED
      BY <2>1, <1>2
  <1> HIDE DEF f, I, T
  <1>4. /\ IsFiniteSet(T) /\ Cardinality(T) <= Len(actual)
        /\ Cardinality(T) = Len(actual) <=> f \in Injection(I, T)
    BY <1>1, <1>3, FS_Surjection
  <1>5. expected \in SUBSET T /\ Cardinality(expected) = Len(actual)
    BY DEF obsBucketACLMatches, T
  <1>6. /\ Cardinality(expected) <= Cardinality(T)
        /\ Cardinality(T) = Cardinality(expected) => T = expected
    BY <1>4, <1>5, FS_Subset
  <1>7. Cardinality(T) = Len(actual)
    <2>1. Cardinality(T) \in Nat
      BY <1>4, FS_CardinalityType
    <2> QED
      BY <2>1, <1>2, <1>4, <1>5, <1>6
  <1>8. f \in Injection(I, T)
    BY <1>4, <1>7
  <1>9. \A i, j \in I : f[i] = f[j] => i = j
    BY <1>8 DEF Injection, IsInjective
  <1>10. \A i, j \in 1..Len(actual) : signatureOf(actual[i]) = signatureOf(actual[j]) => i = j
    BY <1>9 DEF f, I
  <1> QED
    BY <1>5, <1>6, <1>7, <1>10 DEF T
=============================================================================
