--------------------------- MODULE BucketLifecycle ---------------------------
(***************************************************************************)
(* What the Bucket controller promises, without queues, copies, retries and *)
(* calls: the life of a Bucket, of the claim on its OBS bucket (our         *)
(* finalizer) and of the OBS bucket made for it.  BucketController is shown *)
(* to implement it for Buckets with OBS names of their own.                *)
(***************************************************************************)
EXTENDS Naturals

CONSTANT Buckets

VARIABLES
    request,  \* what the user wants with each Bucket
    claim,    \* whether the controller holds the Bucket by its finalizer
    owned,    \* whether an OBS bucket made by the controller exists
    foreign,  \* whether an OBS bucket that was there first exists
    others    \* how often others may still delete an OBS bucket

vars == <<request, claim, owned, foreign, others>>

(* No OBS bucket of the controller's at first.                             *)
Init ==
    /\ request = [b \in Buckets |-> "absent"]
    /\ claim = [b \in Buckets |-> FALSE]
    /\ owned = [b \in Buckets |-> FALSE]
    /\ foreign \in [Buckets -> BOOLEAN]
    /\ others \in Nat

Declare(b) ==
    /\ request[b] = "absent"
    /\ request' = [request EXCEPT ![b] = "active"]
    /\ UNCHANGED <<claim, owned, foreign, others>>

(* A Bucket that is wanted is claimed when nothing of its name is there.    *)
Claim(b) ==
    /\ request[b] = "active" /\ ~claim[b] /\ ~foreign[b]
    /\ claim' = [claim EXCEPT ![b] = TRUE]
    /\ UNCHANGED <<request, owned, foreign, others>>

(* Only what is claimed is made; a deletion that the controller has not      *)
(* noticed yet does not stop it.                                           *)
Make(b) ==
    /\ claim[b] /\ ~owned[b] /\ ~foreign[b]
    /\ owned' = [owned EXCEPT ![b] = TRUE]
    /\ UNCHANGED <<request, claim, foreign, others>>

(* The user deletes the Bucket; without a claim it may be gone at once.     *)
Withdraw(b) ==
    /\ request[b] = "active"
    /\ \E r \in {"deleting"} \cup (IF claim[b] THEN {} ELSE {"absent"}) :
          request' = [request EXCEPT ![b] = r]
    /\ UNCHANGED <<claim, owned, foreign, others>>

(* The OBS bucket is deleted only while the Bucket is being deleted.        *)
Destroy(b) ==
    /\ request[b] = "deleting" /\ owned[b]
    /\ owned' = [owned EXCEPT ![b] = FALSE]
    /\ UNCHANGED <<request, claim, foreign, others>>

(* The claim goes when the OBS bucket has gone; the Bucket follows, unless   *)
(* others still hold it.                                                   *)
Release(b) ==
    /\ request[b] = "deleting" /\ claim[b] /\ ~owned[b]
    /\ claim' = [claim EXCEPT ![b] = FALSE]
    /\ \E r \in {"deleting", "absent"} : request' = [request EXCEPT ![b] = r]
    /\ UNCHANGED <<owned, foreign, others>>

Leave(b) ==
    /\ request[b] = "deleting" /\ ~claim[b]
    /\ request' = [request EXCEPT ![b] = "absent"]
    /\ UNCHANGED <<claim, owned, foreign, others>>

(* Others delete an OBS bucket: that of a Bucket ...                        *)
Vanish(b) ==
    /\ others > 0 /\ others' = others - 1
    /\ \/ owned[b] /\ owned' = [owned EXCEPT ![b] = FALSE] /\ UNCHANGED foreign
       \/ foreign[b] /\ foreign' = [foreign EXCEPT ![b] = FALSE] /\ UNCHANGED owned
    /\ UNCHANGED <<request, claim>>

(* ... or one that no Bucket is about.                                     *)
Elsewhere ==
    /\ others > 0 /\ others' = others - 1
    /\ UNCHANGED <<request, claim, owned, foreign>>

Next ==
    \/ Elsewhere
    \/ \E b \in Buckets :
          \/ Declare(b) \/ Claim(b) \/ Make(b) \/ Withdraw(b)
          \/ Destroy(b) \/ Release(b) \/ Leave(b) \/ Vanish(b)

Spec == Init /\ [][Next]_vars

(* An OBS bucket the controller made is claimed by a Bucket that exists, and *)
(* nothing that was there first is claimed.                                *)
Tracked ==
    \A b \in Buckets :
        /\ owned[b] => claim[b]
        /\ claim[b] => request[b] # "absent" /\ ~foreign[b]
=============================================================================
