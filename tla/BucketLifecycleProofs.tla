------------------------ MODULE BucketLifecycleProofs ------------------------
(***************************************************************************)
(* What the abstract life of a Bucket guarantees: the tracking of OBS      *)
(* buckets by claims that BucketController inherits by implementing it.    *)
(***************************************************************************)
EXTENDS BucketLifecycle, TLAPS

TypeOK ==
    /\ request \in [Buckets -> {"absent", "active", "deleting"}]
    /\ claim \in [Buckets -> BOOLEAN]
    /\ owned \in [Buckets -> BOOLEAN]
    /\ foreign \in [Buckets -> BOOLEAN]

IInv == TypeOK /\ Tracked

(* An OBS bucket the controller made is always claimed by a Bucket that      *)
(* exists, and nothing that was there first is ever claimed: the abstract    *)
(* form of the finalizer discipline of Reconcile.                          *)
THEOREM AlwaysTracked == Spec => []Tracked
  <1>1. Init => IInv
    BY DEF Init, IInv, TypeOK, Tracked
  <1>2. IInv /\ [Next]_vars => IInv'
    <2> SUFFICES ASSUME IInv, [Next]_vars PROVE IInv'
      OBVIOUS
    <2> USE DEF IInv, TypeOK, Tracked
    <2>1. ASSUME UNCHANGED vars PROVE IInv'
      BY <2>1 DEF vars
    <2>2. ASSUME NEW b \in Buckets, Declare(b) PROVE IInv'
      BY <2>2 DEF Declare
    <2>3. ASSUME NEW b \in Buckets, Claim(b) PROVE IInv'
      BY <2>3 DEF Claim
    <2>4. ASSUME NEW b \in Buckets, Make(b) PROVE IInv'
      BY <2>4 DEF Make
    <2>5. ASSUME NEW b \in Buckets, Withdraw(b) PROVE IInv'
      BY <2>5 DEF Withdraw
    <2>6. ASSUME NEW b \in Buckets, Destroy(b) PROVE IInv'
      BY <2>6 DEF Destroy
    <2>7. ASSUME NEW b \in Buckets, Release(b) PROVE IInv'
      BY <2>7 DEF Release
    <2>8. ASSUME NEW b \in Buckets, Leave(b) PROVE IInv'
      BY <2>8 DEF Leave
    <2>9. ASSUME NEW b \in Buckets, Vanish(b) PROVE IInv'
      BY <2>9 DEF Vanish
    <2>10. ASSUME Elsewhere PROVE IInv'
      BY <2>10 DEF Elsewhere
    <2> QED
      BY <2>1, <2>2, <2>3, <2>4, <2>5, <2>6, <2>7, <2>8, <2>9, <2>10 DEF Next
  <1>3. IInv => Tracked
    BY DEF IInv
  <1> QED
    BY <1>1, <1>2, <1>3, PTL DEF Spec
=============================================================================
