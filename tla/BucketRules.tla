----------------------------- MODULE BucketRules -----------------------------
(***************************************************************************)
(* The Bucket resource as the controller reads it, and the decisions       *)
(* Reconcile takes from it: which call comes next, which errors are        *)
(* retried, which reason a condition carries, which watch events count.    *)
(***************************************************************************)
EXTENDS Integers

Ours  == "buckets.obs.wilaris.de/finalizer"
Other == "other-controller/finalizer"

Errors == {"nil", "Provider", "Transient", "Rejected", "AlreadyExists",
           "AlreadyExistsKept", "AlreadyExistsGone", "NotEmpty", "NotEmptyHeld", "NotFound"}

Reasons == {"BucketReady", "ProviderNotReady", "ReconcileFailed", "RequestRejected",
            "BucketAlreadyExists", "BucketNotEmpty", "BucketNotFound"}

Status == [reason : Reasons \cup {"none"}, gen : Nat]
NoStatus == [reason |-> "none", gen |-> 0]

Resource == [phase : {"absent", "active", "deleting"}, uid : Nat, gen : Nat,
             finalizers : SUBSET {Ours, Other}, force : BOOLEAN, status : Status]

Gone(uid) == [phase |-> "absent", uid |-> uid, gen |-> 0, finalizers |-> {},
              force |-> FALSE, status |-> NoStatus]

HasFinalizer(o) == Ours \in o.finalizers

(* An object that is being deleted goes away with its last finalizer.      *)
Settled(o) == IF o.phase = "deleting" /\ o.finalizers = {} THEN Gone(o.uid) ELSE o

(* bucketReadyStatusCondition: the Ready reason of each error class.  A       *)
(* Kubernetes NotFound in the error goes first, also one that is about the   *)
(* Bucket itself.                                                          *)
Reason(e) ==
    CASE e = "nil"                                    -> "BucketReady"
      [] e \in {"Provider", "AlreadyExistsGone"}      -> "ProviderNotReady"
      [] e \in {"AlreadyExists", "AlreadyExistsKept"} -> "BucketAlreadyExists"
      [] e \in {"NotEmpty", "NotEmptyHeld"}           -> "BucketNotEmpty"
      [] e = "NotFound"                               -> "BucketNotFound"
      [] e = "Rejected"                               -> "RequestRejected"
      [] OTHER                                        -> "ReconcileFailed"

(* Mutants of Retried: everything is retried; only network trouble is.     *)
RetriedAlways(e)    == e # "nil"
RetriedTransient(e) == e = "Transient"

(* isUserCorrectableBucketError, and the early return for a bucket that is  *)
(* not empty and not to be destroyed: errors that are reported, not retried.*)
Retried(e) == e \in {"Transient", "AlreadyExistsKept", "AlreadyExistsGone", "NotEmpty", "NotFound"}

(* Mutant of bucketEventPredicate: finalizer changes do not count.          *)
predicateWithoutFinalizers(old, new) == old.phase # new.phase \/ old.gen # new.gen

(* bucketEventPredicate: creations and deletions always pass; an update     *)
(* passes when generation, deletion timestamp or finalizers differ.        *)
bucketEventPredicate(old, new) ==
    \/ old.phase # new.phase
    \/ old.gen # new.gen
    \/ old.finalizers # new.finalizers

(* Without our finalizer, a Bucket that is being deleted tracks nothing.   *)
Tracked(o) ==
    /\ o.phase # "absent"
    /\ o.phase = "deleting" => HasFinalizer(o)

(* Mutant of AfterNotEmpty: forceDestroy is not consulted.                  *)
AfterNotEmptyPurge(o) == "purge"

(* Where a deletion goes when OBS says the bucket is not empty.            *)
AfterNotEmpty(o) == IF o.force THEN "purge" ELSE "status"

(* Mutants of NextCall: an unclaimed Bucket adopts what is there; the        *)
(* finalizer goes without a delete; a bucket that exists is not updated.    *)
NextCallAdopts(o, exists) ==
    IF o.phase = "deleting" THEN IF exists THEN "delete" ELSE "unfinalize"
    ELSE IF ~HasFinalizer(o) THEN "finalize"
    ELSE IF exists THEN "update" ELSE "create"
NextCallAbandons(o, exists) ==
    IF o.phase = "deleting" THEN "unfinalize"
    ELSE IF ~HasFinalizer(o) THEN IF exists THEN "status" ELSE "finalize"
    ELSE IF exists THEN "update" ELSE "create"
NextCallSkipsUpdate(o, exists) ==
    IF o.phase = "deleting" THEN IF exists THEN "delete" ELSE "unfinalize"
    ELSE IF ~HasFinalizer(o) THEN IF exists THEN "status" ELSE "finalize"
    ELSE IF exists THEN "reobserve" ELSE "create"

(* Where Reconcile goes with Bucket o once it knows whether the OBS bucket  *)
(* exists.                                                                 *)
NextCall(o, exists) ==
    IF o.phase = "deleting" THEN IF exists THEN "delete" ELSE "unfinalize"
    ELSE IF ~HasFinalizer(o) THEN IF exists THEN "status" ELSE "finalize"
    ELSE IF exists THEN "update" ELSE "create"
=============================================================================
