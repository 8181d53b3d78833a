--------------------------- MODULE BucketRelocation ---------------------------
(***************************************************************************)
(* BucketController when the ProviderConfig's region or endpoint changes:  *)
(* unlike providerConfigRef they are mutable, and the client of a reconcile *)
(* talks to the site that its resolution found.  Each site has OBS buckets  *)
(* of its own, and the controller looks for a Bucket's at that site only.   *)
(***************************************************************************)
EXTENDS Naturals

CONSTANTS
    Sites,     \* OBS services that a region or endpoint may name
    Buckets, NoBucket, Rejections, PageSize, MaxObjects, MaxLag, Budget

VARIABLES
    site,  \* the site the ProviderConfig names
    held,  \* the site the worker's client talks to
    cr, watch, cached, queue, provider, remote, pc, cur, copy, err, budget

Names == Sites \X Buckets

(* The controller at work with a client for site s.                        *)
At(s) == INSTANCE BucketController WITH
    ObsName <- [b \in Buckets |-> <<s, b>>], OutsidersCreate <- FALSE, Conflicts <- FALSE

vars == <<site, held, cr, watch, cached, queue, provider, remote, pc, cur, copy, err, budget>>

(* The user edits region or endpoint: the Buckets are enqueued as after any   *)
(* change of the ProviderConfig.                                           *)
Relocate ==
    \E s \in Sites :
        site = s /\ site' \in Sites \ {s} /\ At(s)!ProviderEvent /\ UNCHANGED held

(* The resolution yields a client for the site named at that moment.       *)
Resolve == \E s \in Sites : site = s /\ held' = s /\ At(s)!resolveBucketClient /\ UNCHANGED site

(* All later calls of the reconcile go to that site.                       *)
Work ==
    /\ pc # "resolve"
    /\ \E s \in Sites : held = s /\ At(s)!Reconcile
    /\ UNCHANGED <<site, held>>

(* What does not depend on the site.                                       *)
Others ==
    /\ \E s \in Sites :
          /\ held = s
          /\ \/ \E b \in Buckets : \/ At(s)!Deliver(b) \/ At(s)!Begin(b)
                                   \/ At(s)!UserCreate(b) \/ At(s)!UserEdit(b)
                                   \/ At(s)!UserDelete(b)
             \/ At(s)!Restart
    /\ UNCHANGED <<site, held>>

Init ==
    /\ site \in Sites /\ held = site
    /\ \E s \in Sites : At(s)!Init /\ provider

Next == Relocate \/ Resolve \/ Work \/ Others

Spec == Init /\ [][Next]_vars

-----------------------------------------------------------------------------
(* Properties.                                                             *)

(* Deleting a Bucket deletes its OBS bucket: none stays behind whose Bucket  *)
(* is gone, at any site.                                                   *)
NothingLeftBehind ==
    \A n \in Names : remote[n].origin = "operator" =>
        cr[remote[n].by].phase # "absent" /\ cr[remote[n].by].uid = remote[n].uid
=============================================================================
