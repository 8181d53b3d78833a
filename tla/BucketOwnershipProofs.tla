------------------------ MODULE BucketOwnershipProofs ------------------------
(***************************************************************************)
(* The Bucket controller and the OBS buckets it makes, for Buckets with    *)
(* OBS names of their own: none is left behind, none is deleted without a  *)
(* deletion of its Bucket, the abstract life of a Bucket is implemented,   *)
(* and Ready is said only of settings that are in place.                   *)
(*                                                                         *)
(* First the versions of a Bucket: those stored, those on their way to the *)
(* informer, its own, and the copy in the worker's hands.  The worker acts *)
(* on copies that are out of date, and its patches name no version; what   *)
(* it may still rely on is the order in which versions of a Bucket reach   *)
(* it, and what it found out on the way to each call.                      *)
(***************************************************************************)
EXTENDS BucketControllerProofs

(* Every Bucket has an OBS name of its own, and create meets no conflict.    *)
Exclusive ==
    /\ \A b1, b2 \in Buckets : ObsName[b1] = ObsName[b2] => b1 = b2
    /\ ~OutsidersCreate /\ ~Conflicts

-----------------------------------------------------------------------------
(* Versions of a Bucket.                                                   *)

(* How far the life of a Bucket has come: active without and with our       *)
(* finalizer, being deleted with and without it, gone.                     *)
Stage(o) ==
    IF o.phase = "absent" THEN 4
    ELSE IF o.phase = "deleting" THEN IF HasFinalizer(o) THEN 2 ELSE 3
    ELSE IF HasFinalizer(o) THEN 1 ELSE 0

Claimed(o) == Stage(o) \in {1, 2}

(* Version v is not younger than version w: lives follow each other, the     *)
(* stages of a life too, and the generation grows while it lasts.          *)
NotAfter(v, w) ==
    \/ v.uid < w.uid
    \/ /\ v.uid = w.uid /\ Stage(v) <= Stage(w)
       /\ w.phase # "absent" => v.gen <= w.gen

(* Nothing is left of a Bucket that is gone.                               *)
Bare(o) == o.phase = "absent" => o.finalizers = {}

(* Version n may follow version o without a claim or a release.             *)
Follows(o, n) ==
    /\ n \in Resource /\ NotAfter(o, n) /\ Bare(n)
    /\ Claimed(n) <=> Claimed(o)
    /\ Claimed(n) => n.uid = o.uid
    /\ o.phase = "deleting" => n.phase # "active"
    /\ o.phase = "absent" => n.phase # "deleting"

(* Version n adds our finalizer to version o, which is active.              *)
Claims(o, n) ==
    /\ n \in Resource /\ Stage(o) = 0 /\ Stage(n) = 1
    /\ n.uid = o.uid /\ n.gen = o.gen

(* Version n takes our finalizer from version o, which is being deleted.    *)
Releases(o, n) ==
    /\ n \in Resource /\ Stage(o) = 2 /\ Stage(n) \in {3, 4} /\ Bare(n)
    /\ n.uid = o.uid /\ (n.phase # "absent" => n.gen = o.gen)

(* An active Bucket keeps its status, or starts without one.                *)
Kept(o, n) ==
    n.phase = "active" => n.status = NoStatus \/ (o.phase = "active" /\ n.status = o.status)

(* What the stages mean.                                                   *)
LEMMA StageFacts ==
    ASSUME NEW o \in Resource
    PROVE  /\ o.uid \in Nat /\ o.gen \in Nat /\ Stage(o) \in {0, 1, 2, 3, 4}
           /\ o.phase \in {"absent", "active", "deleting"}
           /\ Stage(o) = 0 <=> o.phase = "active" /\ ~HasFinalizer(o)
           /\ Stage(o) = 1 <=> o.phase = "active" /\ HasFinalizer(o)
           /\ Stage(o) = 2 <=> o.phase = "deleting" /\ HasFinalizer(o)
           /\ Stage(o) = 3 <=> o.phase = "deleting" /\ ~HasFinalizer(o)
           /\ Stage(o) = 4 <=> o.phase = "absent"
           /\ Claimed(o) <=> o.phase # "absent" /\ HasFinalizer(o)
  <1>1. o.uid \in Nat /\ o.gen \in Nat /\ o.phase \in {"absent", "active", "deleting"}
    BY DEF Resource
  <1> QED
    BY <1>1 DEF Stage, Claimed

(* The order is reflexive ...                                              *)
LEMMA OrderReflexive == \A v \in Resource : NotAfter(v, v)
  BY StageFacts DEF NotAfter

(* ... and transitive.                                                     *)
LEMMA OrderTransitive ==
    ASSUME NEW u \in Resource, NEW v \in Resource, NEW w \in Resource,
           NotAfter(u, v), NotAfter(v, w)
    PROVE  NotAfter(u, w)
  <1>1. /\ u.uid \in Nat /\ v.uid \in Nat /\ w.uid \in Nat
        /\ u.gen \in Nat /\ v.gen \in Nat /\ w.gen \in Nat
        /\ Stage(u) \in 0..4 /\ Stage(v) \in 0..4 /\ Stage(w) \in 0..4
        /\ Stage(v) = 4 <=> v.phase = "absent"
        /\ Stage(w) = 4 <=> w.phase = "absent"
    BY StageFacts
  <1> QED
    BY <1>1 DEF NotAfter

(* What follows a version that was being deleted with our finalizer.        *)
LEMMA AfterDeletion ==
    ASSUME NEW v \in Resource, NEW w \in Resource, NotAfter(v, w), Stage(v) = 2
    PROVE  w.uid > v.uid \/ (w.uid = v.uid /\ Stage(w) >= 2)
  BY StageFacts DEF NotAfter

(* A change of the finalizers other than ours, settled or not.             *)
LEMMA PatchFollows ==
    ASSUME NEW o \in Resource, o.phase # "absent", NEW f \in SUBSET {Ours, Other},
           Ours \in f <=> Ours \in o.finalizers
    PROVE  LET n == [o EXCEPT !.finalizers = f] IN Follows(o, n) /\ Follows(o, Settled(n))
  <1> DEFINE n == [o EXCEPT !.finalizers = f]
  <1>1. /\ n \in Resource /\ n.finalizers = f
        /\ n.phase = o.phase /\ n.uid = o.uid /\ n.gen = o.gen
    BY ResourceFacts DEF Resource
  <1> HIDE DEF n
  <1>2. Follows(o, n)
    BY <1>1, StageFacts DEF Follows, Bare, NotAfter, Claimed, Stage, HasFinalizer
  <1>3. CASE n.phase = "deleting" /\ n.finalizers = {}
    <2>1. Settled(n) = Gone(n.uid) /\ Gone(n.uid) \in Resource
      BY <1>1, <1>3, ResourceFacts, StageFacts DEF Settled
    <2>2. Gone(n.uid).phase = "absent" /\ Gone(n.uid).uid = o.uid /\ Gone(n.uid).finalizers = {}
      BY <1>1 DEF Gone
    <2>3. ~Claimed(o) /\ Stage(o) <= 4
      BY <1>1, <1>3, StageFacts DEF HasFinalizer
    <2> QED
      BY <1>2, <2>1, <2>2, <2>3 DEF Follows, Bare, NotAfter, Claimed, Stage, n
  <1>4. CASE ~(n.phase = "deleting" /\ n.finalizers = {})
    BY <1>2, <1>4 DEF Settled, n
  <1> QED
    BY <1>2, <1>3, <1>4 DEF n

(* A new status.                                                           *)
LEMMA StatusFollows ==
    ASSUME NEW o \in Resource, o.phase # "absent", NEW s \in Status
    PROVE  Follows(o, [o EXCEPT !.status = s])
  <1> DEFINE n == [o EXCEPT !.status = s]
  <1>1. /\ n \in Resource /\ n.finalizers = o.finalizers
        /\ n.phase = o.phase /\ n.uid = o.uid /\ n.gen = o.gen
    BY ResourceFacts DEF Resource
  <1> HIDE DEF n
  <1>2. Follows(o, n)
    BY <1>1, StageFacts DEF Follows, Bare, NotAfter, Claimed, Stage, HasFinalizer
  <1> QED
    BY <1>2 DEF n

(* A user's edit.                                                          *)
LEMMA EditFollows ==
    ASSUME NEW o \in Resource, o.phase # "absent", NEW force \in BOOLEAN
    PROVE  Follows(o, [o EXCEPT !.gen = @ + 1, !.force = force])
  <1> DEFINE n == [o EXCEPT !.gen = @ + 1, !.force = force]
  <1>1. n \in Resource /\ n.finalizers = o.finalizers
    BY ResourceFacts
  <1>2. n.phase = o.phase /\ n.uid = o.uid /\ n.gen = o.gen + 1
    BY DEF Resource
  <1> HIDE DEF n
  <1>3. Follows(o, n)
    BY <1>1, <1>2, StageFacts DEF Follows, Bare, NotAfter, Claimed, Stage, HasFinalizer
  <1> QED
    BY <1>3 DEF n

(* A user's deletion.                                                      *)
LEMMA DeletionFollows ==
    ASSUME NEW o \in Resource, o.phase = "active"
    PROVE  Follows(o, Settled([o EXCEPT !.phase = "deleting", !.gen = @ + 1]))
  <1> DEFINE n == [o EXCEPT !.phase = "deleting", !.gen = @ + 1]
  <1>1. n \in Resource /\ n.finalizers = o.finalizers
    BY ResourceFacts
  <1>2. n.phase = "deleting" /\ n.uid = o.uid /\ n.gen = o.gen + 1
    BY DEF Resource
  <1> HIDE DEF n
  <1>3. Follows(o, n)
    BY <1>1, <1>2, StageFacts DEF Follows, Bare, NotAfter, Claimed, Stage, HasFinalizer
  <1>4. CASE n.finalizers = {}
    <2>1. Settled(n) = Gone(n.uid) /\ Gone(n.uid) \in Resource
      BY <1>1, <1>2, <1>4, ResourceFacts, StageFacts DEF Settled
    <2>2. Gone(n.uid).phase = "absent" /\ Gone(n.uid).uid = o.uid /\ Gone(n.uid).finalizers = {}
      BY <1>2 DEF Gone
    <2>3. ~HasFinalizer(o)
      BY <1>1, <1>4 DEF HasFinalizer
    <2>4. ~Claimed(o) /\ Stage(o) <= 4
      BY <2>3, StageFacts
    <2> QED
      BY <2>1, <2>2, <2>4 DEF Follows, Bare, NotAfter, Claimed, Stage, n
  <1>5. CASE n.finalizers # {}
    BY <1>3, <1>5 DEF Settled, n
  <1> QED
    BY <1>4, <1>5

(* A Bucket that is created anew.                                          *)
LEMMA CreationFollows ==
    ASSUME NEW o \in Resource, o.phase = "absent", NEW force \in BOOLEAN
    PROVE  Follows(o, [phase |-> "active", uid |-> o.uid + 1, gen |-> 1, finalizers |-> {},
                       force |-> force, status |-> NoStatus])
  <1> DEFINE n == [phase |-> "active", uid |-> o.uid + 1, gen |-> 1, finalizers |-> {},
                   force |-> force, status |-> NoStatus]
  <1>1. n \in Resource /\ n.finalizers = {} /\ n.uid = o.uid + 1 /\ n.phase = "active"
    BY StageFacts, CreatedFacts
  <1> HIDE DEF n
  <1>2. ~Claimed(n) /\ ~Claimed(o) /\ NotAfter(o, n)
    BY <1>1, StageFacts DEF HasFinalizer, NotAfter
  <1>3. Follows(o, n)
    BY <1>1, <1>2 DEF Follows, Bare
  <1> QED
    BY <1>3 DEF n

-----------------------------------------------------------------------------
(* Which versions of a Bucket the controller may still act on.             *)

(* The informer's, those on their way to it, and the worker's copy.         *)
Known(b) ==
    {cached[b]} \cup {watch[b][i] : i \in 1..Len(watch[b])}
    \cup {v \in {copy} : cur = b}

(* They reach the worker in the order in which the API server stored them.  *)
Ordered(b) ==
    /\ cur = b => NotAfter(copy, cached[b])
    /\ NotAfter(cached[b], cr[b])
    /\ \A i \in 1..Len(watch[b]) : NotAfter(cached[b], watch[b][i]) /\ NotAfter(watch[b][i], cr[b])
    /\ \A i, j \in 1..Len(watch[b]) : i <= j => NotAfter(watch[b][i], watch[b][j])

(* A version that carries our finalizer is of the life that still does; or   *)
(* it is of a deletion that was carried through, and then nothing known is  *)
(* older than that deletion.                                               *)
ClaimsSound(b) ==
    \A v \in Known(b) : Claimed(v) =>
        \/ Claimed(cr[b]) /\ cr[b].uid = v.uid
        \/ /\ ~Claimed(cr[b]) /\ Stage(v) = 2
           /\ \A w \in Known(b) : w.uid > v.uid \/ (w.uid = v.uid /\ Stage(w) >= 2)

VersionsSound(b) == Ordered(b) /\ ClaimsSound(b)

(* Known versions are well typed and lie between the copy and what is stored. *)
LEMMA KnownFacts ==
    ASSUME AllTypes, NEW b \in Buckets, Ordered(b)
    PROVE  /\ cr[b] \in Resource /\ cached[b] \in Resource /\ copy \in Resource
           /\ watch[b] \in Seq(Resource)
           /\ \A i \in 1..Len(watch[b]) : watch[b][i] \in Resource
           /\ \A v \in Known(b) : v \in Resource /\ NotAfter(v, cr[b])
           /\ cur = b => \A v \in Known(b) : NotAfter(copy, v)
  <1>1. /\ cr[b] \in Resource /\ cached[b] \in Resource /\ copy \in Resource
        /\ watch[b] \in Seq(Resource)
    BY DEF AllTypes, ApiTypes, RestTypes, WorkTypes
  <1>2. \A i \in 1..Len(watch[b]) : watch[b][i] \in Resource
    BY <1>1
  <1>3. ASSUME NEW v \in Known(b) PROVE v \in Resource /\ NotAfter(v, cr[b])
    <2>1. CASE v = cached[b]
      BY <1>1, <2>1 DEF Ordered
    <2>2. CASE \E i \in 1..Len(watch[b]) : v = watch[b][i]
      BY <1>2, <2>2 DEF Ordered
    <2>3. CASE v = copy /\ cur = b
      BY <1>1, <2>3, OrderTransitive DEF Ordered
    <2> QED
      BY <1>3, <2>1, <2>2, <2>3 DEF Known
  <1>4. ASSUME cur = b, NEW v \in Known(b) PROVE NotAfter(copy, v)
    <2>1. CASE v = cached[b]
      BY <1>4, <2>1 DEF Ordered
    <2>2. CASE \E i \in 1..Len(watch[b]) : v = watch[b][i]
      <3>1. NotAfter(copy, cached[b]) /\ NotAfter(cached[b], v) /\ v \in Resource
        BY <1>2, <1>4, <2>2 DEF Ordered
      <3> QED
        BY <1>1, <3>1, OrderTransitive
    <2>3. CASE v = copy
      BY <1>1, <2>3, OrderReflexive
    <2> QED
      BY <1>4, <2>1, <2>2, <2>3 DEF Known
  <1> QED
    BY <1>1, <1>2, <1>3, <1>4

(* A step that leaves the versions of Bucket b alone.                       *)
LEMMA QuietVersions ==
    ASSUME NEW b \in Buckets, VersionsSound(b),
           cr'[b] = cr[b], watch'[b] = watch[b], cached'[b] = cached[b], Held(b)
    PROVE  VersionsSound(b)'
  <1>1. Ordered(b)'
    BY DEF VersionsSound, Ordered, Held
  <1>2. Known(b)' \subseteq Known(b)
    BY DEF Known, Held
  <1>3. ClaimsSound(b)'
    BY <1>2 DEF VersionsSound, ClaimsSound
  <1> QED
    BY <1>1, <1>3 DEF VersionsSound

(* A write appends the youngest version.                                   *)
LEMMA WriteOrdered ==
    ASSUME AllTypes, NEW b \in Buckets, Ordered(b), NEW o \in Resource, NotAfter(cr[b], o),
           Write(b, o), cached' = cached, Held(b)
    PROVE  Ordered(b)' /\ Known(b)' \subseteq Known(b) \cup {o} /\ cr'[b] = o
  <1>1. /\ cr[b] \in Resource /\ cached[b] \in Resource /\ watch[b] \in Seq(Resource)
        /\ \A i \in 1..Len(watch[b]) : watch[b][i] \in Resource
    BY KnownFacts
  <1>2. cr'[b] = o
    BY DEF Write, AllTypes, ApiTypes
  <1>3. watch'[b] = watch[b] \/ watch'[b] = Append(watch[b], o)
    BY DEF Write, AllTypes, ApiTypes
  <1>4. /\ Len(watch'[b]) \in Nat
        /\ \A i \in 1..Len(watch'[b]) :
              \/ i \in 1..Len(watch[b]) /\ watch'[b][i] = watch[b][i]
              \/ i = Len(watch[b]) + 1 /\ watch'[b][i] = o
    BY <1>1, <1>3
  <1>5. cur' = b => NotAfter(copy', cached'[b])
    BY DEF Held, Ordered
  <1>6. /\ NotAfter(cached[b], o) /\ NotAfter(o, o)
        /\ \A i \in 1..Len(watch[b]) : NotAfter(watch[b][i], o)
    BY <1>1, OrderReflexive, OrderTransitive DEF Ordered
  <1>7. ASSUME NEW i \in 1..Len(watch'[b])
        PROVE  NotAfter(cached'[b], watch'[b][i]) /\ NotAfter(watch'[b][i], cr'[b])
    BY <1>2, <1>4, <1>6, <1>7 DEF Ordered
  <1>8. ASSUME NEW i \in 1..Len(watch'[b]), NEW j \in 1..Len(watch'[b]), i <= j
        PROVE  NotAfter(watch'[b][i], watch'[b][j])
    <2>1. CASE i \in 1..Len(watch[b]) /\ watch'[b][i] = watch[b][i]
      BY <1>4, <1>6, <1>8, <2>1 DEF Ordered
    <2>2. CASE i = Len(watch[b]) + 1 /\ watch'[b][i] = o
      <3>1. j = Len(watch[b]) + 1 /\ watch'[b][j] = o
        BY <1>1, <1>4, <1>8, <2>2
      <3> QED
        BY <1>6, <2>2, <3>1
    <2> QED
      BY <1>4, <1>8, <2>1, <2>2
  <1>9. Ordered(b)'
    BY <1>2, <1>5, <1>6, <1>7, <1>8 DEF Ordered
  <1>10. Known(b)' \subseteq Known(b) \cup {o}
    BY <1>4 DEF Known, Held
  <1> QED
    BY <1>2, <1>9, <1>10

(* A write that neither claims nor releases.                               *)
LEMMA WriteKeeps ==
    ASSUME AllTypes, NEW b \in Buckets, VersionsSound(b), NEW o, Follows(cr[b], o),
           Write(b, o), cached' = cached, Held(b)
    PROVE  VersionsSound(b)'
  <1>1. /\ o \in Resource /\ NotAfter(cr[b], o) /\ (Claimed(o) <=> Claimed(cr[b]))
        /\ Claimed(o) => o.uid = cr[b].uid
    BY DEF Follows
  <1>2. Ordered(b)' /\ Known(b)' \subseteq Known(b) \cup {o} /\ cr'[b] = o
    BY <1>1, WriteOrdered DEF VersionsSound
  <1>3. ASSUME NEW v \in Known(b)', Claimed(v)
        PROVE  \/ Claimed(o) /\ o.uid = v.uid
               \/ /\ ~Claimed(o) /\ Stage(v) = 2
                  /\ \A w \in Known(b)' : w.uid > v.uid \/ (w.uid = v.uid /\ Stage(w) >= 2)
    <2>1. CASE v = o
      BY <1>3, <2>1
    <2>2. CASE v \in Known(b) /\ Claimed(cr[b])
      BY <1>1, <1>3, <2>2 DEF VersionsSound, ClaimsSound
    <2>3. CASE v \in Known(b) /\ ~Claimed(cr[b])
      <3>1. /\ Stage(v) = 2
            /\ \A w \in Known(b) : w.uid > v.uid \/ (w.uid = v.uid /\ Stage(w) >= 2)
        BY <1>3, <2>3 DEF VersionsSound, ClaimsSound
      <3>2. v \in Resource /\ NotAfter(v, cr[b]) /\ cr[b] \in Resource
        BY <2>3, KnownFacts DEF VersionsSound
      <3>3. NotAfter(v, o)
        BY <1>1, <3>2, OrderTransitive
      <3>4. o.uid > v.uid \/ (o.uid = v.uid /\ Stage(o) >= 2)
        BY <1>1, <3>1, <3>2, <3>3, AfterDeletion
      <3> QED
        BY <1>1, <1>2, <2>3, <3>1, <3>4
    <2> QED
      BY <1>2, <1>3, <2>1, <2>2, <2>3
  <1>4. ClaimsSound(b)'
    BY <1>2, <1>3 DEF ClaimsSound
  <1> QED
    BY <1>2, <1>4 DEF VersionsSound

(* A claim by a worker whose copy is active and unclaimed: no deletion that  *)
(* was carried through is still to come.                                   *)
LEMMA WriteClaims ==
    ASSUME AllTypes, NEW b \in Buckets, VersionsSound(b), NEW o \in Resource,
           NotAfter(cr[b], o), Claimed(o), o.uid = cr[b].uid, cur = b, Stage(copy) = 0,
           Write(b, o), cached' = cached, Held(b)
    PROVE  VersionsSound(b)'
  <1>1. Ordered(b)' /\ Known(b)' \subseteq Known(b) \cup {o} /\ cr'[b] = o
    BY WriteOrdered DEF VersionsSound
  <1>2. ASSUME NEW v \in Known(b)', Claimed(v) PROVE o.uid = v.uid
    <2>1. CASE v = o
      BY <2>1
    <2>2. CASE v \in Known(b) /\ Claimed(cr[b])
      BY <1>2, <2>2 DEF VersionsSound, ClaimsSound
    <2>3. CASE v \in Known(b) /\ ~Claimed(cr[b])
      <3>1. copy \in Known(b) /\ copy \in Resource /\ v \in Resource /\ NotAfter(copy, v)
        BY <2>3, KnownFacts DEF VersionsSound, Known
      <3>2. Stage(v) = 2 /\ (copy.uid > v.uid \/ (copy.uid = v.uid /\ Stage(copy) >= 2))
        BY <1>2, <2>3, <3>1 DEF VersionsSound, ClaimsSound
      <3>3. copy.uid > v.uid
        BY <3>2
      <3>4. copy.uid <= v.uid /\ copy.uid \in Nat /\ v.uid \in Nat
        BY <3>1, StageFacts DEF NotAfter
      <3> QED
        BY <3>3, <3>4
    <2> QED
      BY <1>1, <1>2, <2>1, <2>2, <2>3
  <1>3. ClaimsSound(b)'
    BY <1>1, <1>2 DEF ClaimsSound
  <1> QED
    BY <1>1, <1>3 DEF VersionsSound

(* A release by a worker whose copy is of the deletion it carries through.   *)
LEMMA WriteReleases ==
    ASSUME AllTypes, NEW b \in Buckets, VersionsSound(b), NEW o \in Resource,
           NotAfter(cr[b], o), Claimed(cr[b]), ~Claimed(o), cur = b, Stage(copy) = 2,
           Write(b, o), cached' = cached, Held(b)
    PROVE  VersionsSound(b)'
  <1>1. Ordered(b)' /\ Known(b)' \subseteq Known(b) \cup {o} /\ cr'[b] = o
    BY WriteOrdered DEF VersionsSound
  <1>2. /\ copy \in Known(b) /\ copy \in Resource /\ cr[b] \in Resource
        /\ \A v \in Known(b) : v \in Resource /\ NotAfter(copy, v) /\ NotAfter(v, cr[b])
    BY KnownFacts DEF VersionsSound, Known
  <1>3. ASSUME NEW w \in Known(b)' PROVE w.uid > copy.uid \/ (w.uid = copy.uid /\ Stage(w) >= 2)
    <2>1. w \in Resource /\ NotAfter(copy, w)
      <3>1. NotAfter(copy, o)
        BY <1>2, OrderTransitive
      <3> QED
        BY <1>1, <1>2, <1>3, <3>1
    <2> QED
      BY <1>2, <2>1, AfterDeletion
  <1>4. ASSUME NEW v \in Known(b)', Claimed(v) PROVE v.uid = copy.uid /\ Stage(v) = 2
    <2>1. v \in Known(b)
      BY <1>1, <1>4
    <2>2. cr[b].uid = v.uid /\ cr[b].uid = copy.uid
      <3>1. Claimed(copy)
        BY DEF Claimed
      <3> QED
        BY <1>2, <1>4, <2>1, <3>1 DEF VersionsSound, ClaimsSound
    <2>3. v.uid \in Nat
      BY <1>2, <2>1, StageFacts
    <2>4. v.uid > copy.uid \/ (v.uid = copy.uid /\ Stage(v) >= 2)
      BY <1>3
    <2>5. Stage(v) >= 2
      BY <2>2, <2>3, <2>4
    <2> QED
      BY <1>4, <2>2, <2>5 DEF Claimed
  <1>5. ClaimsSound(b)'
    BY <1>1, <1>3, <1>4 DEF ClaimsSound
  <1> QED
    BY <1>1, <1>5 DEF VersionsSound
-----------------------------------------------------------------------------
(* Every step keeps the versions of a Bucket in order.                     *)

(* The informer takes the oldest version on its way.                       *)
LEMMA DeliverVersions ==
    ASSUME AllTypes, NEW b \in Buckets, VersionsSound(b), NEW x \in Buckets, Deliver(x)
    PROVE  VersionsSound(b)'
  <1>1. cr' = cr /\ cur' = cur /\ copy' = copy
    BY DEF Deliver, worker
  <1>2. CASE x # b
    <2>1. watch'[b] = watch[b] /\ cached'[b] = cached[b]
      BY <1>2 DEF Deliver, AllTypes, ApiTypes, RestTypes
    <2> QED
      BY <1>1, <2>1, QuietVersions DEF Held
  <1>3. CASE x = b
    <2>1. /\ watch[b] \in Seq(Resource) /\ watch[b] # <<>>
          /\ cached'[b] = Head(watch[b]) /\ watch'[b] = Tail(watch[b])
      BY <1>3 DEF Deliver, AllTypes, ApiTypes, RestTypes
    <2>2. /\ cached'[b] = watch[b][1] /\ 1 \in 1..Len(watch[b])
          /\ \A i \in 1..Len(watch'[b]) :
                i + 1 \in 1..Len(watch[b]) /\ watch'[b][i] = watch[b][i + 1]
      BY <2>1
    <2>3. /\ copy \in Resource /\ cached[b] \in Resource /\ cached'[b] \in Resource
          /\ NotAfter(cached[b], cached'[b]) /\ NotAfter(cached'[b], cr[b])
      BY <2>2, KnownFacts DEF VersionsSound, Ordered
    <2>4. cur = b => NotAfter(copy, cached'[b])
      BY <2>3, OrderTransitive DEF VersionsSound, Ordered
    <2>5. ASSUME NEW i \in 1..Len(watch'[b])
          PROVE  NotAfter(cached'[b], watch'[b][i]) /\ NotAfter(watch'[b][i], cr[b])
      <3>1. i + 1 \in 1..Len(watch[b]) /\ watch'[b][i] = watch[b][i + 1] /\ 1 <= i + 1
        BY <2>2, <2>5
      <3> QED
        BY <2>2, <3>1 DEF VersionsSound, Ordered
    <2>6. ASSUME NEW i \in 1..Len(watch'[b]), NEW j \in 1..Len(watch'[b]), i <= j
          PROVE  NotAfter(watch'[b][i], watch'[b][j])
      <3>1. /\ i + 1 \in 1..Len(watch[b]) /\ watch'[b][i] = watch[b][i + 1]
            /\ j + 1 \in 1..Len(watch[b]) /\ watch'[b][j] = watch[b][j + 1]
            /\ i + 1 <= j + 1
        BY <2>2, <2>6
      <3> QED
        BY <3>1 DEF VersionsSound, Ordered
    <2>7. Ordered(b)'
      BY <1>1, <2>3, <2>4, <2>5, <2>6 DEF Ordered
    <2>8. Known(b)' \subseteq Known(b)
      BY <1>1, <2>2 DEF Known
    <2>9. ClaimsSound(b)'
      BY <1>1, <2>8 DEF VersionsSound, ClaimsSound
    <2> QED
      BY <2>7, <2>9 DEF VersionsSound
  <1> QED
    BY <1>2, <1>3

(* The worker starts with the informer's version.                          *)
LEMMA BeginVersions ==
    ASSUME AllTypes, NEW b \in Buckets, VersionsSound(b), NEW x \in Buckets, Begin(x)
    PROVE  VersionsSound(b)'
  <1>1. cr' = cr /\ watch' = watch /\ cached' = cached
    BY DEF Begin, api
  <1>2. CASE cur' = b /\ copy' = cached[b]
    <2>1. cached[b] \in Resource
      BY KnownFacts DEF VersionsSound
    <2>2. Ordered(b)'
      BY <1>1, <1>2, <2>1, OrderReflexive DEF VersionsSound, Ordered
    <2>3. Known(b)' \subseteq Known(b)
      BY <1>1, <1>2 DEF Known
    <2>4. ClaimsSound(b)'
      BY <1>1, <2>3 DEF VersionsSound, ClaimsSound
    <2> QED
      BY <2>2, <2>4 DEF VersionsSound
  <1>3. CASE Held(b)
    BY <1>1, <1>3, QuietVersions
  <1> QED
    BY <1>2, <1>3 DEF Begin, worker, Held

(* After a restart only what is stored is known.                           *)
LEMMA RestartVersions ==
    ASSUME AllTypes, NEW b \in Buckets, VersionsSound(b), Restart
    PROVE  VersionsSound(b)'
  <1>1. /\ cr' = cr /\ cached'[b] = cr[b] /\ watch'[b] = <<>> /\ cur' # b
        /\ Len(watch'[b]) = 0
    BY ConstantAssumptions DEF Restart, Idle
  <1>2. cr[b] \in Resource
    BY KnownFacts DEF VersionsSound
  <1>3. Ordered(b)'
    BY <1>1, <1>2, OrderReflexive DEF Ordered
  <1>4. Known(b)' = {cr[b]}
    BY <1>1 DEF Known
  <1>5. ClaimsSound(b)'
    BY <1>1, <1>4 DEF ClaimsSound
  <1> QED
    BY <1>3, <1>5 DEF VersionsSound

(* What is stored, on its way and held of Bucket b is in order.             *)
LifeSound(b) == VersionsSound(b) /\ Bare(cr[b])

(* A step that leaves the API server alone while the worker goes on or stops. *)
LEMMA QuietLife ==
    ASSUME NEW b \in Buckets, LifeSound(b), UNCHANGED api, cached' = cached, Held(b)
    PROVE  LifeSound(b)'
  BY QuietVersions DEF LifeSound, Bare, api

(* A write of one Bucket leaves the others alone.                          *)
LEMMA WriteElsewhere ==
    ASSUME AllTypes, NEW b \in Buckets, LifeSound(b), NEW x \in Buckets, x # b, NEW o,
           Write(x, o), cached' = cached, Held(b)
    PROVE  LifeSound(b)'
  <1>1. cr'[b] = cr[b] /\ watch'[b] = watch[b]
    BY DEF Write, AllTypes, ApiTypes
  <1> QED
    BY <1>1, QuietVersions DEF LifeSound, Bare

(* A write that neither claims nor releases, to any Bucket.                 *)
LEMMA WriteFollows ==
    ASSUME AllTypes, NEW b \in Buckets, LifeSound(b), NEW x \in Buckets, NEW o,
           Follows(cr[x], o), Write(x, o), cached' = cached, Held(b)
    PROVE  LifeSound(b)'
  <1>1. CASE x # b
    BY <1>1, WriteElsewhere
  <1>2. CASE x = b
    <2>1. VersionsSound(b)'
      BY <1>2, WriteKeeps DEF LifeSound
    <2>2. cr'[b] = o /\ Bare(o)
      BY <1>2 DEF Write, Follows, AllTypes, ApiTypes
    <2> QED
      BY <2>1, <2>2 DEF LifeSound, Bare
  <1> QED
    BY <1>1, <1>2

(* What the worker may find in its copy and at OBS at each call.            *)
PlaceSound ==
    /\ pc = "finalize" => Stage(copy) = 0
    /\ pc \in {"create", "update", "reobserve"} => Stage(copy) = 1
    /\ pc \in {"delete", "purge", "deleteAgain", "unfinalize"} => Stage(copy) = 2
    /\ pc \in {"purge", "deleteAgain"} => copy.force
    /\ pc \in {"finalize", "create", "unfinalize"} => ~Exists(name)
    /\ pc = "status" /\ err = "nil" => Stage(copy) = 1
    /\ pc # "dropFinalizer"

(* The status that patchStatus writes.                                     *)
Report == [reason |-> Reason(err), gen |-> copy.gen]

(* The API server stores version o of Bucket x: a user's write, or a patch   *)
(* by the worker, which may add or remove the finalizer.                   *)
Stores(x, o) ==
    /\ Write(x, o) /\ cached' = cached /\ remote' = remote
    /\ \A b \in Buckets : Held(b)
    /\ \/ Follows(cr[x], o) /\ Kept(cr[x], o)
       \/ Claims(cr[x], o) /\ Kept(cr[x], o) /\ cur = x /\ pc = "finalize"
       \/ Releases(cr[x], o) /\ cur = x /\ pc = "unfinalize"
       \/ /\ Follows(cr[x], o) /\ o = [cr[x] EXCEPT !.status = Report]
          /\ cr[x].phase # "absent" /\ cur = x /\ pc = "status"

(* A user's write neither claims nor releases.                             *)
LEMMA UserStores ==
    ASSUME AllTypes, NEW x \in Buckets, Bare(cr[x]),
           UserCreate(x) \/ UserEdit(x) \/ UserDelete(x) \/ OtherFinalizer(x)
    PROVE  \E o : Stores(x, o)
  <1>1. cr[x] \in Resource /\ cr[x].finalizers \subseteq {Ours, Other}
    BY ResourceFacts DEF AllTypes, ApiTypes
  <1>2. ASSUME NEW o, UserWrite(x, o), Follows(cr[x], o), Kept(cr[x], o)
        PROVE  \E n : Stores(x, n)
    <2>1. Stores(x, o)
      BY <1>2 DEF Stores, UserWrite, worker, Held
    <2> QED
      BY <2>1
  <1>3. CASE UserCreate(x)
    <2>1. cr[x].phase = "absent"
      BY <1>3 DEF UserCreate
    <2>2. PICK force \in BOOLEAN :
              UserWrite(x, [phase |-> "active", uid |-> cr[x].uid + 1, gen |-> 1,
                            finalizers |-> {}, force |-> force, status |-> NoStatus])
      BY <1>3 DEF UserCreate
    <2> DEFINE o == [phase |-> "active", uid |-> cr[x].uid + 1, gen |-> 1,
                     finalizers |-> {}, force |-> force, status |-> NoStatus]
    <2>3. Follows(cr[x], o)
      BY <1>1, <2>1, CreationFollows
    <2>4. Kept(cr[x], o)
      BY DEF Kept
    <2> HIDE DEF o
    <2> QED
      BY <1>2, <2>2, <2>3, <2>4 DEF o
  <1>4. CASE UserEdit(x)
    <2>1. cr[x].phase # "absent"
      BY <1>4 DEF UserEdit
    <2>2. PICK force \in BOOLEAN : UserWrite(x, [cr[x] EXCEPT !.gen = @ + 1, !.force = force])
      BY <1>4 DEF UserEdit
    <2> DEFINE o == [cr[x] EXCEPT !.gen = @ + 1, !.force = force]
    <2>3. Follows(cr[x], o)
      BY <1>1, <2>1, EditFollows
    <2>4. Kept(cr[x], o)
      BY <1>1 DEF Kept, Resource
    <2> HIDE DEF o
    <2> QED
      BY <1>2, <2>2, <2>3, <2>4 DEF o
  <1>5. CASE UserDelete(x)
    <2> DEFINE n == [cr[x] EXCEPT !.phase = "deleting", !.gen = @ + 1]
               o == Settled(n)
    <2>1. Follows(cr[x], o)
      BY <1>1, <1>5, DeletionFollows DEF UserDelete
    <2>2. UserWrite(x, o)
      BY <1>5 DEF UserDelete
    <2>3. Kept(cr[x], o)
      <3>1. n.phase = "deleting"
        BY <1>1 DEF Resource
      <3> HIDE DEF n
      <3> QED
        BY <3>1 DEF Kept, Settled, Gone
    <2> HIDE DEF o
    <2> QED
      BY <1>2, <2>1, <2>2, <2>3
  <1>6. CASE OtherFinalizer(x)
    <2> DEFINE f == cr[x].finalizers \cup {Other}
               g == cr[x].finalizers \ {Other}
               m == [cr[x] EXCEPT !.finalizers = f]
               n == [cr[x] EXCEPT !.finalizers = g]
    <2>1. /\ f \in SUBSET {Ours, Other} /\ (Ours \in f <=> Ours \in cr[x].finalizers)
          /\ g \in SUBSET {Ours, Other} /\ (Ours \in g <=> Ours \in cr[x].finalizers)
      BY <1>1 DEF Ours, Other
    <2>2. \/ cr[x].phase = "active" /\ UserWrite(x, m)
          \/ Other \in cr[x].finalizers /\ UserWrite(x, Settled(n))
      BY <1>6 DEF OtherFinalizer
    <2> HIDE DEF f, g
    <2>3. cr[x].phase # "absent"
      BY <2>2 DEF Bare
    <2>4. Follows(cr[x], m) /\ Follows(cr[x], Settled(n))
      BY <1>1, <2>1, <2>3, PatchFollows
    <2>5. /\ m.phase = cr[x].phase /\ m.status = cr[x].status
          /\ n.phase = cr[x].phase /\ n.status = cr[x].status
      BY <1>1 DEF Resource
    <2> HIDE DEF m, n
    <2>6. Kept(cr[x], m) /\ Kept(cr[x], Settled(n))
      BY <2>5 DEF Kept, Settled, Gone
    <2> QED
      BY <1>2, <2>2, <2>4, <2>6
  <1> QED
    BY <1>3, <1>4, <1>5, <1>6

(* The Bucket of a copy that is active and claimed is still claimed.         *)
LEMMA HeldClaim ==
    ASSUME cur \in Buckets, LifeSound(cur), Stage(copy) = 1
    PROVE  Claimed(cr[cur]) /\ cr[cur].uid = copy.uid
  <1>1. copy \in Known(cur) /\ Claimed(copy)
    BY DEF Known, Claimed
  <1> QED
    BY <1>1 DEF LifeSound, VersionsSound, ClaimsSound

(* The Bucket of a copy that is being deleted with our finalizer is being    *)
(* deleted if it still is claimed.                                         *)
LEMMA HeldDeletion ==
    ASSUME AllTypes, cur \in Buckets, LifeSound(cur), Stage(copy) = 2, Claimed(cr[cur])
    PROVE  Stage(cr[cur]) = 2 /\ cr[cur].uid = copy.uid
  <1>1. copy \in Known(cur) /\ Claimed(copy) /\ VersionsSound(cur)
    BY DEF Known, Claimed, LifeSound
  <1>2. copy \in Resource /\ cr[cur] \in Resource /\ NotAfter(copy, cr[cur])
    BY <1>1, KnownFacts DEF VersionsSound
  <1>3. cr[cur].uid = copy.uid
    BY <1>1 DEF VersionsSound, ClaimsSound
  <1>4. Stage(cr[cur]) >= 2
    BY <1>2, <1>3, AfterDeletion, StageFacts
  <1> QED
    BY <1>3, <1>4 DEF Claimed

(* addFinalizer claims a Bucket whose copy is active and unclaimed, or finds *)
(* it claimed already.                                                     *)
LEMMA ClaimStores ==
    ASSUME AllTypes, PlaceSound, addFinalizer
    PROVE  UNCHANGED api \/ \E o : Stores(cur, o)
  <1> DEFINE f == copy.finalizers \cup {Ours}
             n == [cr[cur] EXCEPT !.finalizers = f]
             o == Settled(n)
  <1>1. /\ pc = "finalize" /\ cached' = cached /\ remote' = remote
        /\ \A b \in Buckets : Held(b)
        /\ cur \in Buckets /\ copy \in Resource /\ cr[cur] \in Resource
    <2>1. pc = "finalize" /\ Reconcile /\ remote' = remote
      BY DEF addFinalizer, patchFinalizer, Reconcile
    <2> QED
      BY <2>1, WorkerHolds
  <1>2. UNCHANGED api \/ (~Refused(f) /\ Write(cur, o))
    BY DEF addFinalizer, patchFinalizer, Patched
  <1>3. f \in SUBSET {Ours, Other} /\ Ours \in f
    BY <1>1, ResourceFacts
  <1>4. /\ n \in Resource /\ n.finalizers = f /\ n.phase = cr[cur].phase
        /\ n.uid = cr[cur].uid /\ n.gen = cr[cur].gen /\ n.status = cr[cur].status
    BY <1>1, <1>3, ResourceFacts DEF Resource
  <1> HIDE DEF f
  <1>5. HasFinalizer(cr[cur]) /\ cr[cur].phase # "absent" => Follows(cr[cur], o)
    BY <1>1, <1>3, PatchFollows DEF HasFinalizer
  <1> HIDE DEF n
  <1>6. o = n
    BY <1>3, <1>4 DEF Settled
  <1>7. Kept(cr[cur], o)
    BY <1>4, <1>6 DEF Kept
  <1>8. ~HasFinalizer(cr[cur]) /\ ~Refused(f) => Claims(cr[cur], o)
    <2> SUFFICES ASSUME ~HasFinalizer(cr[cur]), ~Refused(f) PROVE Claims(cr[cur], n)
      BY <1>6
    <2>1. ~(f \subseteq cr[cur].finalizers)
      BY <1>3 DEF HasFinalizer
    <2>2. cr[cur].phase = "active" /\ HasFinalizer(n)
      BY <1>1, <1>3, <1>4, <2>1, StageFacts DEF Refused, HasFinalizer
    <2> QED
      BY <1>1, <1>4, <2>2, StageFacts DEF Claims
  <1> HIDE DEF o
  <1>9. ~Refused(f) /\ Write(cur, o) => Stores(cur, o)
    BY <1>1, <1>5, <1>7, <1>8 DEF Stores, Refused
  <1> QED
    BY <1>2, <1>9

(* removeFinalizer releases the Bucket whose deletion the worker carried     *)
(* through, or meets one that no longer has the finalizer.                 *)
LEMMA ReleaseStores ==
    ASSUME AllTypes, PlaceSound, \A b \in Buckets : LifeSound(b), removeFinalizer
    PROVE  UNCHANGED api \/ \E o : Stores(cur, o)
  <1> DEFINE f == copy.finalizers \ {Ours}
             n == [cr[cur] EXCEPT !.finalizers = f]
             o == Settled(n)
  <1>1. /\ pc = "unfinalize" /\ cached' = cached /\ remote' = remote
        /\ \A b \in Buckets : Held(b)
        /\ cur \in Buckets /\ copy \in Resource /\ cr[cur] \in Resource
        /\ Stage(copy) = 2
    <2>1. pc = "unfinalize" /\ Reconcile /\ remote' = remote
      BY DEF removeFinalizer, patchFinalizer, Reconcile
    <2> QED
      BY <2>1, WorkerHolds DEF PlaceSound
  <1>2. UNCHANGED api \/ (~Refused(f) /\ Write(cur, o))
    BY DEF removeFinalizer, patchFinalizer, Patched
  <1>3. f \in SUBSET {Ours, Other} /\ Ours \notin f
    BY <1>1, ResourceFacts
  <1>4. /\ n \in Resource /\ n.finalizers = f /\ n.phase = cr[cur].phase
        /\ n.uid = cr[cur].uid /\ n.gen = cr[cur].gen /\ n.status = cr[cur].status
    BY <1>1, <1>3, ResourceFacts DEF Resource
  <1> HIDE DEF f
  <1>5. ~HasFinalizer(cr[cur]) /\ cr[cur].phase # "absent" => Follows(cr[cur], o)
    BY <1>1, <1>3, PatchFollows DEF HasFinalizer
  <1> HIDE DEF n
  <1>6. Kept(cr[cur], o)
    BY <1>4 DEF Kept, Settled, Gone
  <1>7. ASSUME HasFinalizer(cr[cur]), ~Refused(f) PROVE Releases(cr[cur], o)
    <2>1. cr[cur].phase = "deleting" /\ Stage(cr[cur]) = 2
      <3>1. Claimed(cr[cur])
        BY <1>1, <1>7, StageFacts DEF Refused
      <3> QED
        BY <1>1, <3>1, HeldDeletion, StageFacts
    <2>2. CASE n.finalizers = {}
      <3>1. o = Gone(n.uid) /\ Gone(n.uid) \in Resource
        BY <1>1, <1>4, <2>1, <2>2, ResourceFacts DEF Settled
      <3>2. /\ Gone(n.uid).phase = "absent" /\ Gone(n.uid).uid = n.uid
            /\ Gone(n.uid).finalizers = {}
        BY DEF Gone
      <3> QED
        BY <1>4, <2>1, <3>1, <3>2 DEF Releases, Stage, Bare
    <2>3. CASE n.finalizers # {}
      <3>1. o = n
        BY <2>3 DEF Settled
      <3>2. Stage(n) = 3
        BY <1>3, <1>4, <2>1, StageFacts DEF HasFinalizer
      <3> QED
        BY <1>4, <2>1, <3>1, <3>2 DEF Releases, Bare
    <2> QED
      BY <2>2, <2>3
  <1> HIDE DEF o
  <1>8. ~Refused(f) /\ Write(cur, o) => Stores(cur, o)
    BY <1>1, <1>5, <1>6, <1>7 DEF Stores, Refused
  <1> QED
    BY <1>2, <1>8

(* patchStatus writes the status and nothing else.                         *)
LEMMA ReportStores ==
    ASSUME AllTypes, patchStatus
    PROVE  UNCHANGED api \/ \E o : Stores(cur, o)
  <1> DEFINE o == [cr[cur] EXCEPT !.status = Report]
  <1>1. /\ pc = "status" /\ cached' = cached /\ remote' = remote
        /\ \A b \in Buckets : Held(b)
        /\ cur \in Buckets /\ copy \in Resource /\ cr[cur] \in Resource
    <2>1. pc = "status" /\ Reconcile /\ remote' = remote
      BY DEF patchStatus, Reconcile
    <2> QED
      BY <2>1, WorkerHolds
  <1>2. Report \in Status
    BY <1>1, ResourceFacts, ReasonFacts DEF AllTypes, WorkTypes, Report
  <1>3. UNCHANGED api \/ (cr[cur].phase # "absent" /\ Write(cur, o))
    BY DEF patchStatus, Report
  <1>4. cr[cur].phase # "absent" => Follows(cr[cur], o)
    BY <1>1, <1>2, StatusFollows
  <1>5. cr[cur].phase # "absent" /\ Write(cur, o) => Stores(cur, o)
    BY <1>1, <1>4 DEF Stores
  <1> QED
    BY <1>3, <1>5

(* Every step but a delivery, a start of Reconcile or a restart stores a     *)
(* version or leaves the API server and the informer alone.                *)
LEMMA StoredStep ==
    ASSUME AllTypes, PlaceSound, \A b \in Buckets : LifeSound(b), Next
    PROVE  \/ \E b \in Buckets : Deliver(b) \/ Begin(b)
           \/ Restart
           \/ UNCHANGED <<api, cached>> /\ \A b \in Buckets : Held(b)
           \/ \E x \in Buckets : \E o : Stores(x, o)
  <1>1. ASSUME NEW x \in Buckets,
               UserCreate(x) \/ UserEdit(x) \/ UserDelete(x) \/ OtherFinalizer(x)
        PROVE  \E o : Stores(x, o)
    BY <1>1, UserStores DEF LifeSound
  <1>2. CASE ProviderEvent \/ Outsiders
    BY <1>2 DEF ProviderEvent, Outsiders, OutsiderWrites, OutsiderDrifts, worker, Held
  <1>3. CASE Reconcile
    <2>1. cached' = cached /\ cur \in Buckets /\ \A b \in Buckets : Held(b)
      BY <1>3, WorkerHolds DEF PlaceSound
    <2>2. UNCHANGED api \/ \E o : Stores(cur, o)
      <3>1. CASE addFinalizer \/ removeFinalizer \/ patchStatus
        BY <3>1, ClaimStores, ReleaseStores, ReportStores
      <3>2. CASE resolveBucketClient \/ observe \/ observeAgain \/ create \/ update
                 \/ delete \/ deleteAllBucketObjects \/ deleteAgain
        BY <3>2 DEF resolveBucketClient, observe, observeAgain, create, update, delete,
                    deleteAllBucketObjects, deleteAgain
      <3> QED
        BY <1>3, <3>1, <3>2 DEF Reconcile, dropFinalizer, PlaceSound
    <2> QED
      BY <2>1, <2>2
  <1> QED
    BY <1>1, <1>2, <1>3 DEF Next, Users

(* Every step keeps what is known of each Bucket in order.                  *)
LEMMA LifeStep ==
    ASSUME AllTypes, PlaceSound, \A x \in Buckets : LifeSound(x), NEW b \in Buckets, Next
    PROVE  LifeSound(b)'
  <1>1. ASSUME NEW x \in Buckets, Deliver(x) PROVE LifeSound(b)'
    BY <1>1, DeliverVersions DEF LifeSound, Bare, Deliver
  <1>2. ASSUME NEW x \in Buckets, Begin(x) PROVE LifeSound(b)'
    BY <1>2, BeginVersions DEF LifeSound, Bare, Begin, api
  <1>3. CASE Restart
    BY <1>3, RestartVersions DEF LifeSound, Bare, Restart
  <1>4. CASE UNCHANGED <<api, cached>> /\ \A x \in Buckets : Held(x)
    BY <1>4, QuietLife
  <1>5. ASSUME NEW x \in Buckets, NEW o, Stores(x, o) PROVE LifeSound(b)'
    <2>1. Write(x, o) /\ cached' = cached /\ Held(b)
      BY <1>5 DEF Stores
    <2>2. CASE x # b
      BY <2>1, <2>2, WriteElsewhere
    <2>3. CASE Follows(cr[x], o)
      BY <2>1, <2>3, WriteFollows
    <2>4. CASE x = b /\ Claims(cr[b], o) /\ cur = b /\ pc = "finalize"
      <3>1. cr[b] \in Resource /\ Stage(copy) = 0
        BY <2>4 DEF PlaceSound, AllTypes, ApiTypes
      <3>2. o \in Resource /\ Claimed(o) /\ o.uid = cr[b].uid /\ NotAfter(cr[b], o) /\ Bare(o)
        BY <2>4, <3>1, StageFacts DEF Claims, Claimed, NotAfter, Bare
      <3>3. VersionsSound(b)'
        BY <2>1, <2>4, <3>1, <3>2, WriteClaims DEF LifeSound
      <3> QED
        BY <2>1, <2>4, <3>2, <3>3 DEF LifeSound, Bare, Write, AllTypes, ApiTypes
    <2>5. CASE x = b /\ Releases(cr[b], o) /\ cur = b /\ pc = "unfinalize"
      <3>1. cr[b] \in Resource /\ Stage(copy) = 2
        BY <2>5 DEF PlaceSound, AllTypes, ApiTypes
      <3>2. /\ o \in Resource /\ Claimed(cr[b]) /\ ~Claimed(o)
            /\ NotAfter(cr[b], o) /\ Bare(o)
        BY <2>5, <3>1, StageFacts DEF Releases, Claimed, NotAfter
      <3>3. VersionsSound(b)'
        BY <2>1, <2>5, <3>1, <3>2, WriteReleases DEF LifeSound
      <3> QED
        BY <2>1, <2>5, <3>2, <3>3 DEF LifeSound, Bare, Write, AllTypes, ApiTypes
    <2> QED
      BY <1>5, <2>2, <2>3, <2>4, <2>5 DEF Stores
  <1> QED
    BY <1>1, <1>2, <1>3, <1>4, <1>5, StoredStep

(* A fault at OBS is an error.                                             *)
LEMMA FaultFacts == \A e : ObsFault(e) => e # "nil"
  BY DEF ObsFault

(* Nobody but the controller makes OBS buckets.                            *)
LEMMA OutsidersTakeAway ==
    ASSUME AllTypes, Exclusive, Outsiders, NEW n \in Names, ~Exists(n)
    PROVE  ~Exists(n)'
  <1>1. PICK m \in Names : OutsiderWrites(m) \/ OutsiderDrifts(m)
    BY DEF Outsiders
  <1>2. CASE OutsiderWrites(m)
    <2>1. m # n /\ remote'[n] = remote[n]
      BY <1>2 DEF OutsiderWrites, AllTypes, ObsTypes
    <2> QED
      BY <2>1 DEF Exists
  <1>3. CASE OutsiderDrifts(m)
    <2>1. remote' = [remote EXCEPT ![m] = NoObsBucket]
      BY <1>3 DEF OutsiderDrifts, Exclusive
    <2>2. remote'[n] = remote[n] \/ remote'[n] = NoObsBucket
      BY <2>1 DEF AllTypes, ObsTypes
    <2> QED
      BY <2>2, ObsFacts DEF Exists
  <1> QED
    BY <1>1, <1>2, <1>3

(* Steps other than those of Reconcile leave the worker where it is, or let   *)
(* it start or stop.                                                       *)
LEMMA PlaceElsewhere ==
    ASSUME AllTypes, Exclusive, PlaceSound, Next, ~Reconcile
    PROVE  PlaceSound'
  <1>1. CASE UNCHANGED worker /\ remote' = remote
    BY <1>1 DEF worker, PlaceSound, Exists, name
  <1>2. ASSUME NEW b \in Buckets, Deliver(b) PROVE PlaceSound'
    BY <1>1, <1>2 DEF Deliver
  <1>3. ASSUME NEW b \in Buckets, Begin(b) PROVE PlaceSound'
    <2>1. remote' = remote /\ (pc' = "resolve" \/ UNCHANGED worker)
      BY <1>3 DEF Begin
    <2>2. pc' = "resolve" => PlaceSound'
      BY DEF PlaceSound
    <2> QED
      BY <1>1, <2>1, <2>2
  <1>4. CASE Users
    BY <1>1, <1>4 DEF Users, UserCreate, UserEdit, UserDelete, OtherFinalizer, UserWrite,
                      ProviderEvent
  <1>5. CASE Outsiders
    <2>1. UNCHANGED <<pc, cur, copy, err>>
      BY <1>5 DEF Outsiders, OutsiderWrites, OutsiderDrifts, worker
    <2>2. pc # "idle" /\ ~Exists(name) => ~Exists(name)'
      <3>1. pc # "idle" => name \in Names
        BY CurFacts
      <3>2. name' = name
        BY <2>1 DEF name
      <3>3. ASSUME pc # "idle", ~Exists(name) PROVE remote'[name].origin = "absent"
        BY <1>5, <3>1, <3>3, OutsidersTakeAway DEF Exists
      <3> QED
        BY <3>2, <3>3 DEF Exists
    <2> QED
      BY <2>1, <2>2 DEF PlaceSound
  <1>6. CASE Restart
    BY <1>6 DEF Restart, Idle, PlaceSound
  <1> QED
    BY <1>2, <1>3, <1>4, <1>5, <1>6 DEF Next

(* Reconcile goes from call to call with what it has found.                 *)
LEMMA PlaceStep ==
    ASSUME AllTypes, Exclusive, CopyTracked, PlaceSound, Next
    PROVE  PlaceSound'
  <1>1. CASE ~Reconcile
    BY <1>1, PlaceElsewhere
  <1>2. CASE Reconcile
    <2>1. /\ pc # "idle" /\ cur \in Buckets /\ copy \in Resource
          /\ name \in Names /\ remote[name] \in ObsBucket
      BY <1>2, WorkerHolds, CurFacts DEF PlaceSound
    <2>2. ASSUME NEW e, ObsFault(e) \/ e \in Errors \ {"nil"}, Fail(e) PROVE PlaceSound'
      <3>1. pc' = "status" /\ err' # "nil"
        BY <2>2, FaultFacts DEF Fail
      <3> QED
        BY <3>1 DEF PlaceSound
    <2>3. CASE pc' = "idle"
      BY <2>3 DEF PlaceSound
    <2>4. CASE addFinalizer \/ removeFinalizer \/ patchStatus
      BY <2>3, <2>4 DEF addFinalizer, removeFinalizer, patchFinalizer, patchStatus, Return, Idle
    <2>5. CASE resolveBucketClient
      <3>1. CASE Goto("observe")
        BY <3>1 DEF Goto, PlaceSound
      <3> QED
        BY <2>2, <2>5, <3>1 DEF resolveBucketClient, Errors
    <2>6. CASE observe
      <3>1. CASE /\ pc' = NextCall(copy, Exists(name)) /\ cur' = cur /\ copy' = copy
                 /\ err' = IF pc' = "status" THEN "AlreadyExists" ELSE "nil"
        <4>1. remote' = remote /\ Tracked(copy)
          BY <2>6 DEF observe, CopyTracked
        <4>2. Exists(name)' = Exists(name)
          BY <3>1, <4>1 DEF Exists, name
        <4>3. /\ pc' \in {"delete", "unfinalize"} => Stage(copy) = 2
              /\ pc' = "finalize" => Stage(copy) = 0
              /\ pc' \in {"create", "update"} => Stage(copy) = 1
              /\ pc' \in {"finalize", "create", "unfinalize"} => ~Exists(name)
              /\ pc' \in {"delete", "unfinalize", "finalize", "create", "update", "status"}
          BY <2>1, <3>1, <4>1, StageFacts DEF NextCall, Tracked
        <4> QED
          BY <3>1, <4>2, <4>3 DEF PlaceSound
      <3>2. CASE \E e \in Errors : ObsFault(e) /\ Fail(e)
        BY <2>2, <3>2
      <3> QED
        BY <2>6, <3>1, <3>2 DEF observe
    <2>7. CASE observeAgain
      <3>1. CASE Goto("status")
        BY <2>7, <3>1 DEF Goto, observeAgain, PlaceSound
      <3> QED
        BY <2>2, <2>7, <3>1 DEF observeAgain
    <2>8. CASE create
      <3>1. ~Exists(name) /\ Stage(copy) = 1 /\ ~Conflicts
        BY <2>8 DEF create, PlaceSound, Exclusive
      <3>2. CASE Goto("update")
        BY <3>1, <3>2 DEF Goto, PlaceSound
      <3>3. Goto("update") \/ \E e \in Errors : (ObsFault(e) \/ e = "Transient") /\ Fail(e)
        BY <2>8, <3>1 DEF create, Errors
      <3> QED
        BY <2>2, <3>2, <3>3
    <2>9. CASE update
      <3>1. CASE Goto("reobserve")
        BY <2>9, <3>1 DEF Goto, update, PlaceSound
      <3>2. \/ Goto("reobserve")
            \/ \E e \in Errors : (ObsFault(e) \/ e \in {"NotFound", "Transient"}) /\ Fail(e)
        BY <2>9 DEF update, Errors
      <3> QED
        BY <2>2, <3>1, <3>2
    <2>10. ASSUME Stage(copy) = 2, Goto("unfinalize"), ~Exists(name) \/ SetRemote(NoObsBucket),
                  SetRemote(NoObsBucket) \/ remote' = remote
           PROVE  PlaceSound'
      <3>1. remote'[name].origin = "absent" /\ name' = name
        BY <2>1, <2>10, ObsFacts DEF SetRemote, Exists, Goto, name, AllTypes, ObsTypes
      <3>2. ~Exists(name)'
        BY <3>1 DEF Exists
      <3> QED
        BY <2>10, <3>2 DEF Goto, PlaceSound
    <2>11. CASE delete
      <3>1. Stage(copy) = 2
        BY <2>11 DEF delete, PlaceSound
      <3>2. CASE /\ pc' = AfterNotEmpty(copy) /\ cur' = cur /\ copy' = copy
                 /\ err' = IF pc' = "status" THEN "NotEmptyHeld" ELSE "nil"
        BY <3>1, <3>2 DEF AfterNotEmpty, PlaceSound
      <3>3. CASE \E e \in Errors : (ObsFault(e) \/ e = "Transient") /\ Fail(e)
        BY <2>2, <3>3
      <3>4. CASE /\ Goto("unfinalize")
                 /\ ~Exists(name) \/ SetRemote(NoObsBucket)
                 /\ SetRemote(NoObsBucket) \/ remote' = remote
        BY <2>10, <3>1, <3>4
      <3> QED
        BY <2>11, <3>2, <3>3, <3>4 DEF delete, Errors
    <2>12. CASE deleteAllBucketObjects
      <3>1. Stage(copy) = 2 /\ copy.force
        BY <2>12 DEF deleteAllBucketObjects, PlaceSound
      <3>2. CASE Goto("deleteAgain") \/ Goto("purge")
        BY <3>1, <3>2 DEF Goto, PlaceSound
      <3>3. CASE \E e \in Errors : (ObsFault(e) \/ e = "NotFound") /\ Fail(e)
        BY <2>2, <3>3
      <3> QED
        BY <2>12, <3>2, <3>3 DEF deleteAllBucketObjects, Errors
    <2>13. CASE deleteAgain
      <3>1. Stage(copy) = 2
        BY <2>13 DEF deleteAgain, PlaceSound
      <3>2. CASE \E e \in Errors :
                   (ObsFault(e) \/ e \in {"NotFound", "NotEmpty", "Transient"}) /\ Fail(e)
        BY <2>2, <3>2
      <3>3. CASE Goto("unfinalize") /\ SetRemote(NoObsBucket)
        BY <2>10, <3>1, <3>3
      <3> QED
        BY <2>13, <3>2, <3>3 DEF deleteAgain, Errors
    <2> QED
      BY <1>2, <2>4, <2>5, <2>6, <2>7, <2>8, <2>9, <2>11, <2>12, <2>13
         DEF Reconcile, dropFinalizer, PlaceSound
  <1> QED
    BY <1>1, <1>2


-----------------------------------------------------------------------------
(* The OBS buckets that the controller made.                               *)

(* What a step may do to the OBS bucket of name n.                          *)
OutsiderChange(n) ==
    \/ remote'[n] = NoObsBucket /\ Exists(n) /\ Spend("drift")
    \/ remote'[n] = [remote[n] EXCEPT !.objects = @ + 1] /\ Exists(n)
WorkerChange(n) ==
    \/ pc = "create" /\ ~Exists(n) /\ remote'[n] = ObsAs("operator", cur, copy.uid)
    \/ pc = "update" /\ Exists(n) /\ remote'[n] = [remote[n] EXCEPT !.cfg = copy.gen]
    \/ /\ pc = "purge" /\ Exists(n)
       /\ \E k \in Nat : remote'[n] = [remote[n] EXCEPT !.objects = k]
    \/ /\ pc \in {"delete", "deleteAgain"} /\ Exists(n) /\ remote[n].objects = 0
       /\ remote'[n] = NoObsBucket

(* Others change OBS buckets only in these ways.                           *)
LEMMA OutsiderChanges ==
    ASSUME AllTypes, Exclusive, Outsiders, NEW n \in Names
    PROVE  remote'[n] = remote[n] \/ OutsiderChange(n)
  <1>1. PICK m \in Names : OutsiderWrites(m) \/ OutsiderDrifts(m)
    BY DEF Outsiders
  <1>2. CASE m # n
    BY <1>1, <1>2 DEF OutsiderWrites, OutsiderDrifts, AllTypes, ObsTypes
  <1>3. CASE m = n /\ OutsiderWrites(n)
    BY <1>3 DEF OutsiderWrites, OutsiderChange, AllTypes, ObsTypes
  <1>4. CASE m = n /\ OutsiderDrifts(n)
    BY <1>4 DEF OutsiderDrifts, OutsiderChange, Exclusive, AllTypes, ObsTypes
  <1> QED
    BY <1>1, <1>2, <1>3, <1>4

(* Reconcile changes only the OBS bucket of the Bucket in hand, in these      *)
(* ways.                                                                   *)
LEMMA WorkerChanges ==
    ASSUME AllTypes, Exclusive, PlaceSound, Reconcile, NEW n \in Names, remote'[n] # remote[n]
    PROVE  n = name /\ WorkerChange(n) /\ UNCHANGED api
  <1>1. /\ pc \in {"create", "update", "delete", "purge", "deleteAgain"}
        /\ cur \in Buckets /\ n = name
    BY RemoteStep DEF name
  <1>2. /\ remote[n] \in ObsBucket /\ remote[n].objects \in Nat
        /\ \A o : SetRemote(o) => remote'[n] = o
    BY <1>1, ObsFacts DEF AllTypes, ObsTypes, SetRemote
  <1>3. CASE create
    <2>1. SetRemote(ObsAs("operator", cur, copy.uid)) /\ ~Exists(n)
      BY <1>1, <1>3 DEF create, Exclusive, PlaceSound
    <2> QED
      BY <1>1, <1>2, <1>3, <2>1 DEF create, WorkerChange
  <1>4. CASE update
    <2>1. SetRemote([remote[n] EXCEPT !.cfg = copy.gen]) /\ Exists(n)
      BY <1>1, <1>4 DEF update, Settings
    <2> QED
      BY <1>1, <1>2, <1>4, <2>1 DEF update, WorkerChange
  <1>5. CASE delete
    <2>1. SetRemote(NoObsBucket) /\ Exists(n) /\ remote[n].objects = 0
      BY <1>1, <1>5 DEF delete
    <2> QED
      BY <1>1, <1>2, <1>5, <2>1 DEF delete, WorkerChange
  <1>6. CASE deleteAgain
    <2>1. SetRemote(NoObsBucket) /\ Exists(n) /\ remote[n].objects = 0
      BY <1>1, <1>6 DEF deleteAgain
    <2> QED
      BY <1>1, <1>2, <1>6, <2>1 DEF deleteAgain, WorkerChange
  <1>7. CASE deleteAllBucketObjects
    <2>2. Exists(n)
      BY <1>1, <1>7, PurgeStep
    <2>3. PICK k \in {0} \cup Listed(remote[n].objects) :
              SetRemote([remote[n] EXCEPT !.objects = remote[n].objects - k])
      BY <1>1, <1>7, PurgeStep
    <2>4. k \in 0..remote[n].objects /\ remote[n].objects - k \in Nat
      BY <1>2, ListedFacts
    <2>5. pc = "purge" /\ UNCHANGED api
      BY <1>7 DEF deleteAllBucketObjects
    <2> QED
      BY <1>1, <1>2, <2>2, <2>3, <2>4, <2>5 DEF WorkerChange
  <1> QED
    BY <1>1, <1>3, <1>4, <1>5, <1>6, <1>7
       DEF Reconcile, resolveBucketClient, observe, observeAgain, addFinalizer,
           removeFinalizer, patchFinalizer, dropFinalizer, patchStatus

(* Every step changes OBS buckets only in these ways.                       *)
LEMMA RemoteChanges ==
    ASSUME AllTypes, Exclusive, PlaceSound, Next, NEW n \in Names
    PROVE  \/ remote'[n] = remote[n]
           \/ Outsiders /\ OutsiderChange(n) /\ UNCHANGED <<api, worker>>
           \/ Reconcile /\ n = name /\ WorkerChange(n) /\ UNCHANGED api
  <1>1. CASE Outsiders
    BY <1>1, OutsiderChanges DEF Outsiders, OutsiderWrites, OutsiderDrifts
  <1>2. CASE Reconcile
    BY <1>2, WorkerChanges
  <1>3. CASE ~Outsiders /\ ~Reconcile
    BY <1>3 DEF Next, Users, Deliver, Begin, Restart, UserCreate, UserEdit, UserDelete,
                OtherFinalizer, UserWrite, ProviderEvent
  <1> QED
    BY <1>1, <1>2, <1>3

(* The parts of an OBS bucket that a change of its objects or settings       *)
(* leaves alone.                                                           *)
LEMMA ChangeFacts ==
    ASSUME NEW r \in ObsBucket, NEW k
    PROVE  LET o == [r EXCEPT !.objects = k]
               c == [r EXCEPT !.cfg = k]
           IN /\ o.origin = r.origin /\ o.by = r.by /\ o.uid = r.uid /\ o.cfg = r.cfg
              /\ c.origin = r.origin /\ c.by = r.by /\ c.uid = r.uid /\ c.cfg = k
              /\ o.objects = k /\ c.objects = r.objects
  BY DEF ObsBucket

(* An OBS bucket that the controller made belongs to the Bucket it was made   *)
(* for, which still is claimed; nobody else makes any under a claimed name. *)
OwnerSound(n) ==
    LET r == remote[n] IN
    /\ r.origin # "outsider"
    /\ r.origin = "operator" =>
          /\ r.by \in Buckets /\ ObsName[r.by] = n
          /\ Claimed(cr[r.by]) /\ cr[r.by].uid = r.uid

(* A claim lasts while the OBS bucket exists: removeFinalizer comes after      *)
(* delete.                                                                 *)
LEMMA ClaimLasts ==
    ASSUME AllTypes, PlaceSound, \A x \in Buckets : LifeSound(x), Next,
           NEW b \in Buckets, Claimed(cr[b]), Exists(ObsName[b])
    PROVE  /\ Claimed(cr'[b]) /\ cr'[b].uid = cr[b].uid
           /\ cr[b].gen <= cr'[b].gen
  <1>1. cr[b] \in Resource
    BY DEF AllTypes, ApiTypes
  <1>2. CASE cr'[b] = cr[b]
    BY <1>1, <1>2, StageFacts
  <1>3. ASSUME NEW x \in Buckets, NEW o, Stores(x, o), cr'[b] # cr[b]
        PROVE  /\ Claimed(cr'[b]) /\ cr'[b].uid = cr[b].uid
               /\ cr[b].gen <= cr'[b].gen
    <2>1. x = b /\ cr'[b] = o
      BY <1>3 DEF Stores, Write, AllTypes, ApiTypes
    <2>2. ~Claims(cr[b], o)
      BY DEF Claims, Claimed
    <2>3. ~(Releases(cr[b], o) /\ cur = b /\ pc = "unfinalize")
      BY DEF PlaceSound, name
    <2>4. Follows(cr[b], o)
      BY <1>3, <2>1, <2>2, <2>3 DEF Stores
    <2>5. o \in Resource /\ Claimed(o) /\ o.uid = cr[b].uid /\ NotAfter(cr[b], o)
      BY <2>4 DEF Follows
    <2> QED
      BY <1>1, <2>1, <2>5, StageFacts DEF NotAfter
  <1> QED
    BY <1>2, <1>3, StoredStep DEF Deliver, Begin, Restart, api

(* Every step keeps the owners.                                            *)
LEMMA OwnerStep ==
    ASSUME AllTypes, Exclusive, PlaceSound, \A x \in Buckets : LifeSound(x), Next,
           NEW n \in Names, OwnerSound(n)
    PROVE  OwnerSound(n)'
  <1> DEFINE r == remote[n]
             s == remote'[n]
  <1>1. r \in ObsBucket
    BY DEF AllTypes, ObsTypes
  <1>2. ASSUME s.origin = r.origin, s.by = r.by, s.uid = r.uid PROVE OwnerSound(n)'
    <2>1. CASE r.origin # "operator"
      BY <1>2, <2>1 DEF OwnerSound
    <2>2. CASE r.origin = "operator"
      <3>1. /\ r.by \in Buckets /\ ObsName[r.by] = n
            /\ Claimed(cr[r.by]) /\ cr[r.by].uid = r.uid
        BY <2>2 DEF OwnerSound
      <3>2. Exists(ObsName[r.by])
        BY <2>2, <3>1 DEF Exists
      <3>3. Claimed(cr'[r.by]) /\ cr'[r.by].uid = r.uid
        BY <3>1, <3>2, ClaimLasts
      <3> QED
        BY <1>2, <2>2, <3>1, <3>3 DEF OwnerSound
    <2> QED
      BY <2>1, <2>2
  <1>3. CASE s = NoObsBucket
    BY <1>3, ObsFacts DEF OwnerSound
  <1>4. CASE \E k : s = [r EXCEPT !.objects = k] \/ s = [r EXCEPT !.cfg = k]
    <2>1. s.origin = r.origin /\ s.by = r.by /\ s.uid = r.uid
      BY <1>1, <1>4 DEF ObsBucket
    <2> QED
      BY <1>2, <2>1
  <1>5. CASE /\ Reconcile /\ n = name /\ pc = "create" /\ UNCHANGED api
             /\ s = ObsAs("operator", cur, copy.uid)
    <2>1. cur \in Buckets /\ Stage(copy) = 1 /\ LifeSound(cur)
      BY <1>5, CurFacts DEF PlaceSound
    <2>2. Claimed(cr[cur]) /\ cr[cur].uid = copy.uid
      BY <2>1, HeldClaim
    <2>3. s.origin = "operator" /\ s.by = cur /\ s.uid = copy.uid
      BY <1>5 DEF ObsAs
    <2> QED
      BY <1>5, <2>1, <2>2, <2>3 DEF OwnerSound, name, api
  <1>6. CASE s = r
    BY <1>2, <1>6
  <1> QED
    <2>1. CASE OutsiderChange(n)
      BY <1>3, <1>4, <2>1 DEF OutsiderChange
    <2>2. CASE Reconcile /\ n = name /\ WorkerChange(n) /\ UNCHANGED api
      BY <1>3, <1>4, <1>5, <2>2 DEF WorkerChange
    <2> QED
      BY <1>6, <2>1, <2>2, RemoteChanges

-----------------------------------------------------------------------------
(* The inductive invariant of ownership.                                   *)
Ownership ==
    /\ NoAdoption /\ PlaceSound
    /\ \A b \in Buckets : LifeSound(b)
    /\ \A n \in Names : OwnerSound(n)

(* At the start nothing is known and nothing owned.                        *)
LEMMA OwnershipInit == Init => Ownership
  <1> SUFFICES ASSUME Init PROVE Ownership
    OBVIOUS
  <1>1. Gone(0) \in Resource /\ Gone(0).finalizers = {} /\ ~Claimed(Gone(0))
    <2>1. Gone(0) \in Resource /\ Gone(0).finalizers = {}
      BY ResourceFacts
    <2> QED
      BY <2>1, StageFacts DEF HasFinalizer
  <1>2. ASSUME NEW b \in Buckets PROVE LifeSound(b)
    <2>1. /\ cr[b] = Gone(0) /\ cached[b] = Gone(0) /\ watch[b] = <<>> /\ cur # b
          /\ Len(watch[b]) = 0
      BY ConstantAssumptions DEF Init
    <2>2. Ordered(b)
      BY <1>1, <2>1, OrderReflexive DEF Ordered
    <2>3. Known(b) = {Gone(0)}
      BY <2>1 DEF Known
    <2>4. ClaimsSound(b)
      BY <1>1, <2>3 DEF ClaimsSound
    <2> QED
      BY <1>1, <2>1, <2>2, <2>4 DEF LifeSound, VersionsSound, Bare
  <1>3. ASSUME NEW n \in Names PROVE OwnerSound(n)
    <2>1. remote[n] \in {NoObsBucket, ObsAs("preexisting", NoBucket, 0)}
      BY DEF Init
    <2>2. remote[n].origin \in {"absent", "preexisting"}
      BY <2>1, ObsFacts
    <2> QED
      BY <2>2 DEF OwnerSound
  <1>4. PlaceSound
    BY DEF Init, PlaceSound
  <1> QED
    BY <1>2, <1>3, <1>4, NoAdoptionInit DEF Ownership

(* Every step keeps it.                                                    *)
LEMMA OwnershipStep ==
    ASSUME Exclusive, Ownership, [Next]_vars
    PROVE  Ownership'
  <1>1. NoAdoption'
    BY NoAdoptionStep DEF Ownership, Exclusive
  <1>2. CASE Next
    <2>1. AllTypes /\ CopyTracked
      BY TypeParts DEF Ownership, NoAdoption, AllTypes
    <2>2. PlaceSound'
      BY <1>2, <2>1, PlaceStep DEF Ownership
    <2>3. \A b \in Buckets : LifeSound(b)'
      BY <1>2, <2>1, LifeStep DEF Ownership
    <2>4. \A n \in Names : OwnerSound(n)'
      BY <1>2, <2>1, OwnerStep DEF Ownership
    <2> QED
      BY <1>1, <2>2, <2>3, <2>4 DEF Ownership
  <1>3. CASE UNCHANGED vars
    <2>1. PlaceSound'
      BY <1>3 DEF vars, Ownership, PlaceSound, Exists, name
    <2>2. \A b \in Buckets : LifeSound(b)'
      BY <1>3, QuietLife DEF vars, Ownership, api, Held
    <2>3. \A n \in Names : OwnerSound(n)'
      BY <1>3 DEF vars, Ownership, OwnerSound
    <2> QED
      BY <1>1, <2>1, <2>2, <2>3 DEF Ownership
  <1> QED
    BY <1>2, <1>3

(* No OBS bucket is left behind: one that the controller made has its        *)
(* Bucket, of the life it was made for, with the finalizer on it, for any   *)
(* number of Buckets, any lag of the informer, any failures and restarts.  *)
THEOREM NoneLeftBehind ==
    ASSUME Exclusive
    PROVE  Spec => []OwnedHasFinalizer
  <1>1. Ownership => OwnedHasFinalizer
    <2> SUFFICES ASSUME Ownership, NEW n \in Names, remote[n].origin = "operator"
                 PROVE  /\ HasFinalizer(cr[remote[n].by])
                        /\ cr[remote[n].by].uid = remote[n].uid
      BY DEF OwnedHasFinalizer
    <2>1. /\ remote[n].by \in Buckets /\ Claimed(cr[remote[n].by])
          /\ cr[remote[n].by].uid = remote[n].uid
      BY DEF Ownership, OwnerSound
    <2>2. cr[remote[n].by] \in Resource
      BY <2>1 DEF Ownership, NoAdoption, TypeOK
    <2> QED
      BY <2>1, <2>2, StageFacts
  <1>2. Ownership /\ [Next]_vars => Ownership'
    BY OwnershipStep
  <1> QED
    BY OwnershipInit, <1>1, <1>2, PTL DEF Spec

(* The controller deletes an OBS bucket it made, or objects in it, only      *)
(* while the Bucket of that very life is being deleted, and objects only by *)
(* force: a copy of an earlier Bucket, however late, never hits a later one. *)
THEOREM NeverDeletesUnasked ==
    ASSUME Exclusive
    PROVE  Spec => DeleteOnlyOnRequest
  <1> DEFINE Taken(n) ==
                LET old == remote[n] new == remote'[n] IN
                /\ old.origin = "operator" /\ ~Outsiders
                /\ new.origin = "absent" \/ new.objects < old.objects
             Asked(n) ==
                LET old == remote[n] IN
                /\ cr[old.by].phase = "deleting" /\ cr[old.by].uid = old.uid
                /\ old.objects > 0 => copy.force
  <1>1. Ownership /\ [Next]_vars => [\A n \in Names : Taken(n) => Asked(n)]_vars
    <2> SUFFICES ASSUME Ownership, Next, NEW n \in Names, Taken(n) PROVE Asked(n)
      OBVIOUS
    <2> DEFINE r == remote[n]
    <2>1. AllTypes /\ PlaceSound /\ OwnerSound(n) /\ \A b \in Buckets : LifeSound(b)
      BY TypeParts DEF Ownership, NoAdoption, AllTypes
    <2>2. /\ r \in ObsBucket /\ r.objects \in Nat /\ r.by \in Buckets /\ ObsName[r.by] = n
          /\ Claimed(cr[r.by]) /\ cr[r.by].uid = r.uid /\ Exists(n)
      BY <2>1, ObsFacts DEF AllTypes, ObsTypes, OwnerSound, Exists
    <2>3. remote'[n] # remote[n]
      BY <2>2
    <2>4. Reconcile /\ n = name /\ WorkerChange(n)
      BY <2>1, <2>3, RemoteChanges
    <2>5. pc \in {"purge", "delete", "deleteAgain"}
      <3>1. pc # "update"
        <4> SUFFICES ASSUME pc = "update" PROVE FALSE
          OBVIOUS
        <4>1. remote'[n] = [r EXCEPT !.cfg = copy.gen]
          BY <2>4 DEF WorkerChange
        <4>2. remote'[n].origin = r.origin /\ remote'[n].objects = r.objects
          BY <2>2, <4>1 DEF ObsBucket
        <4> QED
          BY <2>2, <4>2
      <3> QED
        BY <2>2, <2>4, <3>1 DEF WorkerChange
    <2>6. cur \in Buckets /\ r.by = cur /\ Stage(copy) = 2
      BY <2>1, <2>2, <2>4, <2>5, CurFacts DEF PlaceSound, Exclusive, name
    <2>7. Stage(cr[cur]) = 2
      BY <2>1, <2>2, <2>6, HeldDeletion
    <2>8. cr[cur].phase = "deleting"
      <3>1. cr[cur] \in Resource
        BY <2>1, <2>6 DEF AllTypes, ApiTypes
      <3> QED
        BY <2>7, <3>1, StageFacts
    <2>9. r.objects > 0 => copy.force
      BY <2>1, <2>4, <2>5 DEF WorkerChange, PlaceSound
    <2> QED
      BY <2>2, <2>6, <2>8, <2>9
  <1>2. Ownership /\ [Next]_vars => Ownership'
    BY OwnershipStep
  <1> QED
    BY OwnershipInit, <1>1, <1>2, PTL DEF Spec, DeleteOnlyOnRequest

-----------------------------------------------------------------------------
(* The life of a Bucket is implemented.                                    *)

(* What BucketLifecycle sees of Bucket b does not change: of its request and  *)
(* claim, and of its OBS bucket.                                           *)
SameRequest(b) == cr'[b].phase = cr[b].phase
SameClaim(b)   == HasFinalizer(cr'[b]) = HasFinalizer(cr[b])
SameOrigin(b)  == remote'[ObsName[b]].origin = remote[ObsName[b]].origin

(* A step that changes nothing of it is a stutter, or one of others at an     *)
(* OBS bucket that no Bucket is about.                                     *)
LEMMA LifecycleStutter ==
    ASSUME \A b \in Buckets : SameRequest(b) /\ SameClaim(b) /\ SameOrigin(b)
    PROVE  /\ SameOthers => UNCHANGED Lifecycle!vars
           /\ Spend("drift") /\ budget \in [Kinds -> Nat] => Lifecycle!Next
  <1>1. [b \in Buckets |-> cr'[b].phase] = [b \in Buckets |-> cr[b].phase]
    BY DEF SameRequest
  <1>2. [b \in Buckets |-> HasFinalizer(cr'[b])] = [b \in Buckets |-> HasFinalizer(cr[b])]
    BY DEF SameClaim
  <1>3. /\ [b \in Buckets |-> remote'[ObsName[b]].origin = "operator"]
           = [b \in Buckets |-> remote[ObsName[b]].origin = "operator"]
        /\ [b \in Buckets |-> remote'[ObsName[b]].origin = "preexisting"]
           = [b \in Buckets |-> remote[ObsName[b]].origin = "preexisting"]
    BY DEF SameOrigin
  <1>4. ASSUME Spend("drift"), budget \in [Kinds -> Nat] PROVE Lifecycle!Next
    <2>1. Lifecycle!Elsewhere
      BY <1>1, <1>2, <1>3, <1>4, DriftSpent DEF Lifecycle!Elsewhere
    <2> QED
      BY <2>1 DEF Lifecycle!Next
  <1> QED
    BY <1>1, <1>2, <1>3, <1>4 DEF Lifecycle!vars, SameOthers

(* The request of one Bucket changes.                                      *)
LEMMA LifecycleRequest ==
    ASSUME NEW b \in Buckets, \A x \in Buckets : x # b => SameRequest(x),
           \A x \in Buckets : SameClaim(x) /\ SameOrigin(x), SameOthers,
           \/ cr[b].phase = "absent" /\ cr'[b].phase = "active"
           \/ cr[b].phase = "active" /\ cr'[b].phase = "deleting"
           \/ /\ cr[b].phase \in {"active", "deleting"} /\ ~HasFinalizer(cr[b])
              /\ cr'[b].phase = "absent"
    PROVE  Lifecycle!Next
  <1>1. ASSUME NEW r, cr'[b].phase = r
        PROVE  [x \in Buckets |-> cr'[x].phase]
                 = [[x \in Buckets |-> cr[x].phase] EXCEPT ![b] = r]
    BY <1>1 DEF SameRequest
  <1>2. [x \in Buckets |-> HasFinalizer(cr'[x])] = [x \in Buckets |-> HasFinalizer(cr[x])]
    BY DEF SameClaim
  <1>3. /\ [x \in Buckets |-> remote'[ObsName[x]].origin = "operator"]
           = [x \in Buckets |-> remote[ObsName[x]].origin = "operator"]
        /\ [x \in Buckets |-> remote'[ObsName[x]].origin = "preexisting"]
           = [x \in Buckets |-> remote[ObsName[x]].origin = "preexisting"]
    BY DEF SameOrigin
  <1>4. CASE cr[b].phase = "absent" /\ cr'[b].phase = "active"
    <2>1. Lifecycle!Declare(b)
      BY <1>1, <1>2, <1>3, <1>4 DEF Lifecycle!Declare, SameOthers
    <2> QED
      BY <2>1 DEF Lifecycle!Next
  <1>5. CASE cr[b].phase = "active" /\ cr'[b].phase = "deleting"
    <2>1. Lifecycle!Withdraw(b)
      BY <1>1, <1>2, <1>3, <1>5 DEF Lifecycle!Withdraw, SameOthers
    <2> QED
      BY <2>1 DEF Lifecycle!Next
  <1>6. CASE cr[b].phase = "active" /\ ~HasFinalizer(cr[b]) /\ cr'[b].phase = "absent"
    <2>1. Lifecycle!Withdraw(b)
      BY <1>1, <1>2, <1>3, <1>6 DEF Lifecycle!Withdraw, SameOthers
    <2> QED
      BY <2>1 DEF Lifecycle!Next
  <1>7. CASE cr[b].phase = "deleting" /\ ~HasFinalizer(cr[b]) /\ cr'[b].phase = "absent"
    <2>1. Lifecycle!Leave(b)
      BY <1>1, <1>2, <1>3, <1>7 DEF Lifecycle!Leave, SameOthers
    <2> QED
      BY <2>1 DEF Lifecycle!Next
  <1> QED
    BY <1>4, <1>5, <1>6, <1>7

(* The claim on one Bucket changes, while its OBS bucket does not exist.     *)
LEMMA LifecycleClaim ==
    ASSUME NEW b \in Buckets, \A x \in Buckets : x # b => SameRequest(x) /\ SameClaim(x),
           \A x \in Buckets : SameOrigin(x), ~Exists(ObsName[b]), SameOthers,
           \/ /\ cr[b].phase = "active" /\ ~HasFinalizer(cr[b])
              /\ cr'[b].phase = "active" /\ HasFinalizer(cr'[b])
           \/ /\ cr[b].phase = "deleting" /\ HasFinalizer(cr[b])
              /\ cr'[b].phase \in {"deleting", "absent"} /\ ~HasFinalizer(cr'[b])
    PROVE  Lifecycle!Next
  <1>1. [x \in Buckets |-> cr'[x].phase]
          = [[x \in Buckets |-> cr[x].phase] EXCEPT ![b] = cr'[b].phase]
    BY DEF SameRequest
  <1>2. [x \in Buckets |-> HasFinalizer(cr'[x])]
          = [[x \in Buckets |-> HasFinalizer(cr[x])] EXCEPT ![b] = HasFinalizer(cr'[b])]
    BY DEF SameClaim
  <1>3. /\ [x \in Buckets |-> remote'[ObsName[x]].origin = "operator"]
           = [x \in Buckets |-> remote[ObsName[x]].origin = "operator"]
        /\ [x \in Buckets |-> remote'[ObsName[x]].origin = "preexisting"]
           = [x \in Buckets |-> remote[ObsName[x]].origin = "preexisting"]
    BY DEF SameOrigin
  <1>4. /\ ~(remote[ObsName[b]].origin = "operator")
        /\ ~(remote[ObsName[b]].origin = "preexisting")
    BY DEF Exists
  <1>5. CASE /\ cr[b].phase = "active" /\ ~HasFinalizer(cr[b])
             /\ cr'[b].phase = "active" /\ HasFinalizer(cr'[b])
    <2>1. [x \in Buckets |-> cr'[x].phase] = [x \in Buckets |-> cr[x].phase]
      BY <1>1, <1>5
    <2>2. [x \in Buckets |-> HasFinalizer(cr'[x])]
            = [[x \in Buckets |-> HasFinalizer(cr[x])] EXCEPT ![b] = TRUE]
      BY <1>2, <1>5
    <2>3. Lifecycle!Claim(b)
      BY <1>3, <1>4, <1>5, <2>1, <2>2 DEF Lifecycle!Claim, SameOthers
    <2> QED
      BY <2>3 DEF Lifecycle!Next
  <1>6. CASE /\ cr[b].phase = "deleting" /\ HasFinalizer(cr[b])
             /\ cr'[b].phase \in {"deleting", "absent"} /\ ~HasFinalizer(cr'[b])
    <2>1. [x \in Buckets |-> HasFinalizer(cr'[x])]
            = [[x \in Buckets |-> HasFinalizer(cr[x])] EXCEPT ![b] = FALSE]
      <3>1. HasFinalizer(cr'[b]) = FALSE
        BY <1>6 DEF HasFinalizer
      <3> QED
        BY <1>2, <3>1
    <2>2. Lifecycle!Release(b)
      BY <1>1, <1>3, <1>4, <1>6, <2>1 DEF Lifecycle!Release, SameOthers
    <2> QED
      BY <2>2 DEF Lifecycle!Next
  <1> QED
    BY <1>5, <1>6

(* The OBS bucket of one Bucket is made or taken away.                      *)
LEMMA LifecycleOrigin ==
    ASSUME NEW b \in Buckets, \A x \in Buckets : SameRequest(x) /\ SameClaim(x),
           \A x \in Buckets : x # b => SameOrigin(x), budget \in [Kinds -> Nat],
           LET old == remote[ObsName[b]].origin
               new == remote'[ObsName[b]].origin
           IN \/ HasFinalizer(cr[b]) /\ old = "absent" /\ new = "operator" /\ SameOthers
              \/ old \in {"operator", "preexisting"} /\ new = "absent" /\ Spend("drift")
              \/ /\ cr[b].phase = "deleting" /\ old = "operator" /\ new = "absent"
                 /\ SameOthers
    PROVE  Lifecycle!Next
  <1> DEFINE old == remote[ObsName[b]].origin
             new == remote'[ObsName[b]].origin
  <1>1. [x \in Buckets |-> cr'[x].phase] = [x \in Buckets |-> cr[x].phase]
    BY DEF SameRequest
  <1>2. [x \in Buckets |-> HasFinalizer(cr'[x])] = [x \in Buckets |-> HasFinalizer(cr[x])]
    BY DEF SameClaim
  <1> DEFINE made(x)     == remote[ObsName[x]].origin = "operator"
             madeThen(x) == remote'[ObsName[x]].origin = "operator"
             there(x)     == remote[ObsName[x]].origin = "preexisting"
             thereThen(x) == remote'[ObsName[x]].origin = "preexisting"
  <1>3. \A x \in Buckets : x # b => madeThen(x) = made(x) /\ thereThen(x) = there(x)
    BY DEF SameOrigin
  <1>4. ASSUME NEW v \in BOOLEAN, madeThen(b) = v
        PROVE  [x \in Buckets |-> madeThen(x)] = [[x \in Buckets |-> made(x)] EXCEPT ![b] = v]
    BY <1>3, <1>4
  <1>5. ASSUME NEW v \in BOOLEAN, thereThen(b) = v
        PROVE  [x \in Buckets |-> thereThen(x)] = [[x \in Buckets |-> there(x)] EXCEPT ![b] = v]
    BY <1>3, <1>5
  <1>6. ASSUME thereThen(b) = there(b)
        PROVE  [x \in Buckets |-> thereThen(x)] = [x \in Buckets |-> there(x)]
    BY <1>3, <1>6
  <1>7. ASSUME madeThen(b) = made(b)
        PROVE  [x \in Buckets |-> madeThen(x)] = [x \in Buckets |-> made(x)]
    BY <1>3, <1>7
  <1>8. CASE HasFinalizer(cr[b]) /\ old = "absent" /\ new = "operator" /\ SameOthers
    <2>1. ~made(b) /\ ~there(b) /\ madeThen(b) = TRUE /\ thereThen(b) = there(b)
      BY <1>8
    <2>2. /\ [x \in Buckets |-> madeThen(x)] = [[x \in Buckets |-> made(x)] EXCEPT ![b] = TRUE]
          /\ [x \in Buckets |-> thereThen(x)] = [x \in Buckets |-> there(x)]
      BY <1>4, <1>6, <2>1
    <2>3. Lifecycle!Make(b)
      BY <1>1, <1>2, <1>8, <2>1, <2>2 DEF Lifecycle!Make, SameOthers
    <2> QED
      BY <2>3 DEF Lifecycle!Next
  <1>9. CASE old = "operator" /\ new = "absent"
    <2>1. made(b) /\ madeThen(b) = FALSE /\ thereThen(b) = there(b)
      BY <1>9
    <2>2. /\ [x \in Buckets |-> madeThen(x)] = [[x \in Buckets |-> made(x)] EXCEPT ![b] = FALSE]
          /\ [x \in Buckets |-> thereThen(x)] = [x \in Buckets |-> there(x)]
      BY <1>4, <1>6, <2>1
    <2>3. CASE Spend("drift")
      <3>1. Lifecycle!Vanish(b)
        BY <1>1, <1>2, <2>1, <2>2, <2>3, DriftSpent DEF Lifecycle!Vanish
      <3> QED
        BY <3>1 DEF Lifecycle!Next
    <2>4. CASE cr[b].phase = "deleting" /\ SameOthers
      <3>1. Lifecycle!Destroy(b)
        BY <1>1, <1>2, <2>1, <2>2, <2>4 DEF Lifecycle!Destroy, SameOthers
      <3> QED
        BY <3>1 DEF Lifecycle!Next
    <2> QED
      BY <1>9, <2>3, <2>4
  <1>10. CASE old = "preexisting" /\ new = "absent" /\ Spend("drift")
    <2>1. there(b) /\ thereThen(b) = FALSE /\ madeThen(b) = made(b)
      BY <1>10
    <2>2. /\ [x \in Buckets |-> thereThen(x)] = [[x \in Buckets |-> there(x)] EXCEPT ![b] = FALSE]
          /\ [x \in Buckets |-> madeThen(x)] = [x \in Buckets |-> made(x)]
      BY <1>5, <1>7, <2>1
    <2>3. Lifecycle!Vanish(b)
      BY <1>1, <1>2, <1>10, <2>1, <2>2, DriftSpent DEF Lifecycle!Vanish
    <2> QED
      BY <2>3 DEF Lifecycle!Next
  <1> QED
    BY <1>8, <1>9, <1>10

(* A stored version changes the request of its Bucket, or its claim.        *)
LEMMA LifecycleStored ==
    ASSUME Ownership, NEW b \in Buckets, NEW o, Stores(b, o), SameOthers
    PROVE  Lifecycle!Next \/ UNCHANGED Lifecycle!vars
  <1>1. /\ cr'[b] = o /\ cr[b] \in Resource /\ Bare(cr[b])
        /\ \A x \in Buckets : x # b => SameRequest(x) /\ SameClaim(x)
        /\ \A x \in Buckets : SameOrigin(x)
    BY DEF Stores, Write, Ownership, NoAdoption, TypeOK, LifeSound,
           SameRequest, SameClaim, SameOrigin
  <1>2. CASE Follows(cr[b], o)
    <2>1. o \in Resource /\ Bare(o) /\ (Claimed(o) <=> Claimed(cr[b]))
      BY <1>2 DEF Follows
    <2>2. /\ HasFinalizer(o) <=> Claimed(o)
          /\ HasFinalizer(cr[b]) <=> Claimed(cr[b])
      BY <1>1, <2>1, StageFacts DEF Bare, HasFinalizer
    <2>3. \A x \in Buckets : SameClaim(x)
      <3>1. HasFinalizer(cr'[b]) = HasFinalizer(cr[b])
        BY <1>1, <2>1, <2>2 DEF HasFinalizer
      <3> QED
        BY <1>1, <3>1 DEF SameClaim
    <2>4. o.phase = "absent" => ~HasFinalizer(cr[b])
      BY <2>1, <2>2, StageFacts
    <2>5. CASE o.phase = cr[b].phase
      <3>1. \A x \in Buckets : SameRequest(x)
        BY <1>1, <2>5 DEF SameRequest
      <3> QED
        BY <1>1, <2>3, <3>1, LifecycleStutter
    <2>6. CASE o.phase # cr[b].phase
      <3>1. \/ cr[b].phase = "absent" /\ o.phase = "active"
            \/ cr[b].phase = "active" /\ o.phase = "deleting"
            \/ /\ cr[b].phase \in {"active", "deleting"} /\ ~HasFinalizer(cr[b])
               /\ o.phase = "absent"
        <4>1. /\ o.phase \in {"absent", "active", "deleting"}
              /\ cr[b].phase \in {"absent", "active", "deleting"}
              /\ cr[b].phase = "deleting" => o.phase # "active"
              /\ cr[b].phase = "absent" => o.phase # "deleting"
          BY <1>1, <1>2, <2>1, StageFacts DEF Follows
        <4> QED
          BY <2>4, <2>6, <4>1
      <3> QED
        BY <1>1, <2>3, <3>1, LifecycleRequest
    <2> QED
      BY <2>5, <2>6
  <1>3. CASE Claims(cr[b], o) /\ cur = b /\ pc = "finalize"
    <2>1. ~Exists(ObsName[b])
      BY <1>3 DEF Ownership, PlaceSound, name
    <2>2. /\ cr[b].phase = "active" /\ ~HasFinalizer(cr[b])
          /\ o.phase = "active" /\ HasFinalizer(o)
      BY <1>1, <1>3, StageFacts DEF Claims
    <2> QED
      BY <1>1, <2>1, <2>2, LifecycleClaim
  <1>4. CASE Releases(cr[b], o) /\ cur = b /\ pc = "unfinalize"
    <2>1. ~Exists(ObsName[b])
      BY <1>4 DEF Ownership, PlaceSound, name
    <2>2. o \in Resource /\ Stage(o) \in {3, 4} /\ Bare(o) /\ Stage(cr[b]) = 2
      BY <1>4 DEF Releases
    <2>3. /\ cr[b].phase = "deleting" /\ HasFinalizer(cr[b])
          /\ o.phase \in {"deleting", "absent"} /\ ~HasFinalizer(o)
      BY <1>1, <2>2, StageFacts DEF Bare, HasFinalizer
    <2> QED
      BY <1>1, <2>1, <2>3, LifecycleClaim
  <1> QED
    BY <1>2, <1>3, <1>4 DEF Stores

(* While nothing is stored, an OBS bucket may be made or taken away.        *)
LEMMA LifecycleRemote ==
    ASSUME Exclusive, Ownership, Next, cr' = cr, SameOthers
    PROVE  Lifecycle!Next \/ UNCHANGED Lifecycle!vars
  <1>1. AllTypes /\ PlaceSound /\ \A b \in Buckets : LifeSound(b)
    BY TypeParts DEF Ownership, NoAdoption, AllTypes
  <1>2. \A x \in Buckets : SameRequest(x) /\ SameClaim(x)
    BY DEF SameRequest, SameClaim
  <1>3. CASE \A x \in Buckets : SameOrigin(x)
    BY <1>2, <1>3, LifecycleStutter
  <1>4. ASSUME NEW b \in Buckets, ~SameOrigin(b)
        PROVE  Lifecycle!Next
    <2> DEFINE n == ObsName[b]
    <2>1. n \in Names /\ remote[n] \in ObsBucket /\ budget \in [Kinds -> Nat]
      BY <1>1, ConstantAssumptions DEF AllTypes, ObsTypes, BudgetTypes
    <2>2. ~OutsiderChange(n)
      <3>1. ~Spend("drift")
        <4>1. budget["drift"] \in Nat
          BY <2>1 DEF Kinds
        <4> QED
          BY <2>1, <4>1, DriftSpent DEF SameOthers
      <3>2. [remote[n] EXCEPT !.objects = @ + 1].origin = remote[n].origin
        BY <2>1 DEF ObsBucket
      <3> QED
        BY <1>4, <3>1, <3>2 DEF OutsiderChange, SameOrigin
    <2>3. Reconcile /\ n = name /\ WorkerChange(n)
      BY <1>1, <1>4, <2>1, <2>2, RemoteChanges DEF SameOrigin
    <2>4. pc # "idle" /\ cur \in Buckets /\ cur = b
      <3>1. pc # "idle"
        BY <2>3 DEF WorkerChange
      <3>2. cur \in Buckets
        BY <1>1, <3>1, CurFacts
      <3> QED
        BY <2>3, <3>1, <3>2 DEF Exclusive, name
    <2>5. ASSUME NEW x \in Buckets, x # b PROVE SameOrigin(x)
      <3>1. ObsName[x] # name /\ ObsName[x] \in Names
        BY <2>3, <2>5, ConstantAssumptions DEF Exclusive
      <3>2. remote'[ObsName[x]] = remote[ObsName[x]]
        BY <1>1, <2>3, <3>1, WorkerChanges
      <3> QED
        BY <3>2 DEF SameOrigin
    <2>6. CASE pc = "create" /\ ~Exists(n) /\ remote'[n] = ObsAs("operator", cur, copy.uid)
      <3>1. HasFinalizer(cr[b])
        <4>1. Claimed(cr[b]) /\ cr[b] \in Resource
          BY <1>1, <2>4, <2>6, HeldClaim DEF PlaceSound, AllTypes, ApiTypes
        <4> QED
          BY <4>1, StageFacts
      <3>2. remote[n].origin = "absent" /\ remote'[n].origin = "operator"
        BY <2>6 DEF Exists, ObsAs
      <3> QED
        BY <1>2, <2>1, <2>5, <3>1, <3>2, LifecycleOrigin
    <2>7. CASE pc \in {"delete", "deleteAgain"} /\ Exists(n) /\ remote'[n] = NoObsBucket
      <3>1. remote[n].origin # "preexisting"
        BY <2>1, <2>4, <2>7 DEF Ownership, NoAdoption, PreexistingUnclaimed, Unclaimed, NoClaim
      <3>2. remote[n].origin = "operator"
        BY <2>1, <2>7, <3>1 DEF Ownership, OwnerSound, Exists, ObsBucket
      <3>3. remote[n].by = b /\ Claimed(cr[b])
        BY <2>1, <3>2 DEF Ownership, OwnerSound, Exclusive
      <3>4. Stage(cr[b]) = 2 /\ cr[b] \in Resource
        BY <1>1, <2>4, <2>7, <3>3, HeldDeletion DEF PlaceSound, AllTypes, ApiTypes
      <3>5. cr[b].phase = "deleting"
        BY <3>4, StageFacts
      <3>6. remote'[n].origin = "absent"
        BY <2>7, ObsFacts
      <3> QED
        BY <1>2, <2>1, <2>5, <3>2, <3>5, <3>6, LifecycleOrigin
    <2>8. CASE \E k : \/ remote'[n] = [remote[n] EXCEPT !.cfg = k]
                      \/ remote'[n] = [remote[n] EXCEPT !.objects = k]
      <3>1. remote'[n].origin = remote[n].origin
        BY <2>1, <2>8 DEF ObsBucket
      <3> QED
        BY <1>4, <3>1 DEF SameOrigin
    <2> HIDE DEF n
    <2> QED
      BY <2>3, <2>6, <2>7, <2>8 DEF WorkerChange
  <1> QED
    BY <1>3, <1>4

(* Others delete an OBS bucket.                                            *)
LEMMA LifecycleDrift ==
    ASSUME Exclusive, Ownership, NEW m \in Names, OutsiderDrifts(m)
    PROVE  Lifecycle!Next
  <1>1. budget \in [Kinds -> Nat] /\ remote \in [Names -> ObsBucket]
    BY DEF Ownership, NoAdoption, TypeOK
  <1>2. /\ Exists(m) /\ remote' = [remote EXCEPT ![m] = NoObsBucket]
        /\ Spend("drift") /\ cr' = cr
    BY DEF OutsiderDrifts, Exclusive, api
  <1>3. \A x \in Buckets : SameRequest(x) /\ SameClaim(x)
    BY <1>2 DEF SameRequest, SameClaim
  <1>4. \A x \in Buckets : ObsName[x] # m => SameOrigin(x)
    BY <1>1, <1>2, ConstantAssumptions DEF SameOrigin
  <1>5. CASE \A x \in Buckets : ObsName[x] # m
    BY <1>1, <1>2, <1>3, <1>4, <1>5, LifecycleStutter
  <1>6. ASSUME NEW b \in Buckets, ObsName[b] = m PROVE Lifecycle!Next
    <2>1. \A x \in Buckets : x # b => SameOrigin(x)
      BY <1>4, <1>6 DEF Exclusive
    <2>2. remote[m].origin \in {"operator", "preexisting"}
      <3>1. remote[m] \in ObsBucket /\ remote[m].origin # "outsider"
        BY <1>1 DEF Ownership, OwnerSound
      <3> QED
        BY <1>2, <3>1 DEF Exists, ObsBucket
    <2>3. remote'[m].origin = "absent"
      BY <1>1, <1>2, ObsFacts
    <2> QED
      BY <1>1, <1>2, <1>3, <1>6, <2>1, <2>2, <2>3, LifecycleOrigin
  <1> QED
    BY <1>5, <1>6

(* The controller implements the life of a Bucket, whatever is stale, fails   *)
(* or restarts: it makes an OBS bucket only under a claim, deletes it only   *)
(* for a deletion and releases the claim only after that.                  *)
THEOREM LifecycleImplemented ==
    ASSUME Exclusive
    PROVE  Spec => ImplementsLifecycle
  <1>1. Init => Lifecycle!Init
    <2> SUFFICES ASSUME Init PROVE Lifecycle!Init
      OBVIOUS
    <2>1. \A b \in Buckets : cr[b].phase = "absent" /\ HasFinalizer(cr[b]) = FALSE
      BY DEF Init, Gone, HasFinalizer
    <2>2. \A b \in Buckets : (remote[ObsName[b]].origin = "operator") = FALSE
      BY ObsFacts, ConstantAssumptions DEF Init
    <2>3. budget["drift"] \in Nat
      BY ConstantAssumptions DEF Init, Kinds
    <2> QED
      BY <2>1, <2>2, <2>3 DEF Lifecycle!Init
  <1>2. Ownership /\ [Next]_vars => [Lifecycle!Next]_(Lifecycle!vars)
    <2> SUFFICES ASSUME Ownership, [Next]_vars
                 PROVE  Lifecycle!Next \/ UNCHANGED Lifecycle!vars
      OBVIOUS
    <2>1. CASE UNCHANGED vars
      <3>1. \A b \in Buckets : SameRequest(b) /\ SameClaim(b) /\ SameOrigin(b)
        BY <2>1 DEF vars, SameRequest, SameClaim, SameOrigin
      <3>2. SameOthers
        BY <2>1 DEF vars, SameOthers
      <3> QED
        BY <3>1, <3>2, LifecycleStutter
    <2>2. CASE Next /\ \A n \in Names : ~OutsiderDrifts(n)
      <3>1. AllTypes /\ PlaceSound /\ \A b \in Buckets : LifeSound(b)
        BY TypeParts DEF Ownership, NoAdoption, AllTypes
      <3>2. SameOthers
        BY <2>2, <3>1, DriftKept
      <3>3. cr' = cr \/ \E x \in Buckets : \E o : Stores(x, o)
        BY <2>2, <3>1, StoredStep DEF Deliver, Begin, Restart, api
      <3> QED
        BY <2>2, <3>2, <3>3, LifecycleRemote, LifecycleStored
    <2>3. CASE \E n \in Names : OutsiderDrifts(n)
      BY <2>3, LifecycleDrift
    <2> QED
      BY <2>1, <2>2, <2>3
  <1>3. Ownership /\ [Next]_vars => Ownership'
    BY OwnershipStep
  <1> QED
    BY OwnershipInit, <1>1, <1>2, <1>3, PTL DEF Spec, ImplementsLifecycle, Lifecycle!Spec

-----------------------------------------------------------------------------
(* Ready is said only of settings that are in place.                       *)

(* The settings of an OBS bucket are not newer than any version that carries *)
(* the finalizer and may still be acted on: an update never goes back.     *)
GensBehind(n) ==
    LET r == remote[n] IN
    r.origin = "operator" =>
        \A v \in Known(r.by) \cup {cr[r.by]} : Claimed(v) => r.cfg <= v.gen

(* Between update and patchStatus the settings are those of the copy.       *)
Applied ==
    NoDrift /\ (pc = "reobserve" \/ (pc = "status" /\ err = "nil")) =>
        Exists(name) /\ remote[name].cfg = copy.gen

(* A step makes no version known but those that are or were stored.         *)
LEMMA KnownStep ==
    ASSUME AllTypes, PlaceSound, \A x \in Buckets : LifeSound(x), Next, NEW b \in Buckets
    PROVE  Known(b)' \subseteq Known(b) \cup {cr[b], cr'[b]}
  <1>1. ASSUME NEW x \in Buckets, Deliver(x) PROVE Known(b)' \subseteq Known(b)
    <2>1. cur' = cur /\ copy' = copy
      BY <1>1 DEF Deliver, worker
    <2>2. CASE x # b
      BY <1>1, <2>1, <2>2 DEF Deliver, Known, AllTypes, ApiTypes, RestTypes
    <2>3. CASE x = b
      <3>1. /\ watch[b] \in Seq(Resource) /\ watch[b] # <<>>
            /\ cached'[b] = Head(watch[b]) /\ watch'[b] = Tail(watch[b])
        BY <1>1, <2>3 DEF Deliver, AllTypes, ApiTypes, RestTypes
      <3>2. /\ cached'[b] = watch[b][1] /\ 1 \in 1..Len(watch[b])
            /\ \A i \in 1..Len(watch'[b]) :
                  i + 1 \in 1..Len(watch[b]) /\ watch'[b][i] = watch[b][i + 1]
        BY <3>1
      <3> QED
        BY <2>1, <3>2 DEF Known
    <2> QED
      BY <2>2, <2>3
  <1>2. ASSUME NEW x \in Buckets, Begin(x) PROVE Known(b)' \subseteq Known(b)
    BY <1>2 DEF Begin, Known, api, worker
  <1>3. CASE Restart
    <2>1. cached'[b] = cr[b] /\ watch'[b] = <<>> /\ cur' # b /\ Len(watch'[b]) = 0
      BY <1>3, ConstantAssumptions DEF Restart, Idle
    <2> QED
      BY <2>1 DEF Known
  <1>4. CASE UNCHANGED <<api, cached>> /\ \A x \in Buckets : Held(x)
    BY <1>4 DEF Known, api, Held
  <1>5. ASSUME NEW x \in Buckets, NEW o, Stores(x, o)
        PROVE  Known(b)' \subseteq Known(b) \cup {cr'[b]}
    <2>1. cached' = cached /\ Held(b) /\ Write(x, o)
      BY <1>5 DEF Stores
    <2>2. watch[b] \in Seq(Resource)
      BY DEF AllTypes, ApiTypes
    <2>3. watch'[b] = watch[b] \/ (cr'[b] = o /\ watch'[b] = Append(watch[b], o))
      BY <2>1 DEF Write, AllTypes, ApiTypes
    <2>4. \A i \in 1..Len(watch'[b]) :
              \/ i \in 1..Len(watch[b]) /\ watch'[b][i] = watch[b][i]
              \/ watch'[b][i] = cr'[b]
      BY <2>2, <2>3
    <2> QED
      BY <2>1, <2>4 DEF Known, Held
  <1> QED
    BY <1>1, <1>2, <1>3, <1>4, <1>5, StoredStep

(* Versions with the finalizer are not older than a copy that has it.        *)
LEMMA CopyOldest ==
    ASSUME AllTypes, cur \in Buckets, LifeSound(cur), Stage(copy) = 1,
           NEW v \in Known(cur) \cup {cr[cur]}, Claimed(v)
    PROVE  copy.gen <= v.gen
  <1>1. Claimed(cr[cur]) /\ cr[cur].uid = copy.uid
    BY HeldClaim
  <1>2. /\ copy \in Resource /\ cr[cur] \in Resource /\ copy \in Known(cur)
        /\ \A w \in Known(cur) : w \in Resource /\ NotAfter(w, cr[cur]) /\ NotAfter(copy, w)
    BY KnownFacts DEF LifeSound, VersionsSound, Known
  <1>3. v \in Resource /\ NotAfter(copy, v)
    BY <1>2
  <1>4. v.uid = copy.uid
    BY <1>1 DEF LifeSound, VersionsSound, ClaimsSound
  <1> QED
    BY <1>2, <1>3, <1>4, StageFacts DEF NotAfter

(* Every step keeps the settings behind the versions.                      *)
LEMMA GensStep ==
    ASSUME AllTypes, AllTypes', Exclusive, PlaceSound, \A x \in Buckets : LifeSound(x), Next,
           NEW n \in Names, OwnerSound(n), GensBehind(n)
    PROVE  GensBehind(n)'
  <1> DEFINE r == remote[n]
             s == remote'[n]
  <1>0. ASSUME NEW b \in Buckets, s.by = b,
               \A v \in Known(b)' \cup {cr'[b]} : Claimed(v) => s.cfg <= v.gen
        PROVE  GensBehind(n)'
    BY <1>0 DEF GensBehind, Known
  <1>1. r \in ObsBucket /\ s \in ObsBucket /\ r.cfg \in Nat
    BY DEF AllTypes, ObsTypes, ObsBucket
  <1>2. ASSUME NEW b \in Buckets, NEW v \in Known(b)' \cup {cr'[b]}
        PROVE  v \in Known(b) \cup {cr[b]} \/ v = cr'[b]
    BY <1>2, KnownStep
  <1>3. ASSUME s.origin = r.origin, s.by = r.by, s.cfg = r.cfg, r.origin = "operator"
        PROVE  GensBehind(n)'
    <2>0. PICK b \in Buckets : b = r.by
      BY <1>3 DEF OwnerSound
    <2>1. ObsName[b] = n /\ Claimed(cr[b]) /\ Exists(ObsName[b])
      BY <1>3, <2>0 DEF OwnerSound, Exists
    <2>2. cr[b].gen <= cr'[b].gen /\ r.cfg <= cr[b].gen
      BY <1>3, <2>0, <2>1, ClaimLasts DEF GensBehind
    <2>3. cr[b].gen \in Nat /\ cr'[b].gen \in Nat
      BY <2>1, StageFacts DEF AllTypes, ApiTypes
    <2>4. ASSUME NEW v \in Known(b)' \cup {cr'[b]}, Claimed(v) PROVE r.cfg <= v.gen
      <3>1. CASE v \in Known(b) \cup {cr[b]}
        BY <1>3, <2>0, <2>4, <3>1 DEF GensBehind
      <3>2. CASE v = cr'[b]
        BY <1>1, <2>2, <2>3, <3>2
      <3> QED
        BY <1>2, <2>4, <3>1, <3>2
    <2> QED
      BY <1>0, <1>3, <2>0, <2>4
  <1>4. CASE s.origin # "operator"
    BY <1>4 DEF GensBehind
  <1>5. CASE \E k : s = [r EXCEPT !.objects = k]
    <2>1. s.origin = r.origin /\ s.by = r.by /\ s.cfg = r.cfg
      BY <1>1, <1>5 DEF ObsBucket
    <2> QED
      BY <1>3, <1>4, <2>1
  <1>6. CASE s = NoObsBucket
    BY <1>4, <1>6, ObsFacts
  <1>7. CASE s = ObsAs("operator", cur, copy.uid) /\ Reconcile /\ pc = "create"
    <2>0. PICK b \in Buckets : b = cur
      BY <1>7, CurFacts
    <2>1. s.cfg = 0 /\ s.by = b
      BY <1>7, <2>0 DEF ObsAs
    <2>2. \A v \in Resource : 0 <= v.gen
      BY StageFacts
    <2>3. \A v \in Known(b)' \cup {cr'[b]} : v \in Resource
      <3>1. \A v \in Known(b) : v \in Resource
        BY KnownFacts DEF LifeSound, VersionsSound
      <3>2. cr[b] \in Resource /\ cr'[b] \in Resource
        BY DEF AllTypes, ApiTypes
      <3> QED
        BY <1>2, <3>1, <3>2
    <2> QED
      BY <1>0, <2>1, <2>2, <2>3
  <1>8. CASE /\ s = [r EXCEPT !.cfg = copy.gen] /\ Reconcile /\ n = name /\ pc = "update"
             /\ UNCHANGED api /\ r.origin = "operator"
    <2>1. s.by = r.by /\ s.cfg = copy.gen
      BY <1>1, <1>8 DEF ObsBucket
    <2>2. PICK b \in Buckets : b = cur /\ r.by = b /\ Stage(copy) = 1
      <3>1. cur \in Buckets /\ Stage(copy) = 1
        BY <1>8, CurFacts DEF PlaceSound
      <3> QED
        BY <1>8, <3>1 DEF OwnerSound, Exclusive, name
    <2>3. \A v \in Known(b)' \cup {cr'[b]} : v \in Known(cur) \cup {cr[cur]}
      BY <1>2, <1>8, <2>2 DEF api
    <2>4. \A v \in Known(b)' \cup {cr'[b]} : Claimed(v) => copy.gen <= v.gen
      BY <2>2, <2>3, CopyOldest
    <2> QED
      BY <1>0, <2>1, <2>2, <2>4
  <1>9. CASE s = r
    BY <1>3, <1>4, <1>9
  <1>10. CASE OutsiderChange(n)
    BY <1>5, <1>6, <1>10 DEF OutsiderChange
  <1>11. CASE Reconcile /\ n = name /\ WorkerChange(n) /\ UNCHANGED api
    <2>1. s = [r EXCEPT !.cfg = copy.gen] => s.origin = r.origin
      BY <1>1 DEF ObsBucket
    <2> QED
      BY <1>4, <1>5, <1>6, <1>7, <1>8, <1>11, <2>1 DEF WorkerChange
  <1> QED
    BY <1>9, <1>10, <1>11, RemoteChanges

(* From update to patchStatus nothing undoes the settings but drift.        *)
LEMMA AppliedStep ==
    ASSUME AllTypes, Exclusive, CopyTracked, PlaceSound, DriftLeft, Applied, Next
    PROVE  Applied'
  <1> SUFFICES ASSUME NoDrift', pc' = "reobserve" \/ (pc' = "status" /\ err' = "nil")
               PROVE  Exists(name)' /\ (remote[name].cfg = copy.gen)'
    BY DEF Applied
  <1>1. NoDrift /\ \A n \in Names : ~OutsiderDrifts(n)
    BY DriftStep
  <1>2. ASSUME UNCHANGED worker, remote' = remote
        PROVE  Exists(name)' /\ (remote[name].cfg = copy.gen)'
    BY <1>1, <1>2 DEF Applied, Exists, name, worker
  <1>3. ASSUME NEW b \in Buckets, Deliver(b) \/ Begin(b)
        PROVE  Exists(name)' /\ (remote[name].cfg = copy.gen)'
    BY <1>2, <1>3 DEF Deliver, Begin
  <1>4. CASE Users
    BY <1>2, <1>4 DEF Users, UserCreate, UserEdit, UserDelete, OtherFinalizer, UserWrite,
                      ProviderEvent
  <1>5. CASE Outsiders
    <2>1. PICK m \in Names : OutsiderWrites(m)
      BY <1>1, <1>5 DEF Outsiders
    <2>2. /\ UNCHANGED <<pc, cur, copy, err>>
          /\ remote' = [remote EXCEPT ![m].objects = @ + 1]
      BY <2>1 DEF OutsiderWrites, worker
    <2>3. pc # "idle" /\ Exists(name) /\ remote[name].cfg = copy.gen
      BY <1>1, <2>2 DEF Applied
    <2>4. name \in Names /\ remote[name] \in ObsBucket
      BY <2>3, CurFacts
    <2>5. /\ remote'[name].origin = remote[name].origin
          /\ remote'[name].cfg = remote[name].cfg
      BY <2>2, <2>4 DEF AllTypes, ObsTypes, ObsBucket
    <2>6. name' = name /\ copy' = copy
      BY <2>2 DEF name
    <2> QED
      BY <2>3, <2>5, <2>6 DEF Exists
  <1>6. CASE Restart
    BY <1>6 DEF Restart, Idle
  <1>7. CASE Reconcile
    <2>1. /\ pc # "idle" /\ cur \in Buckets /\ name \in Names /\ remote[name] \in ObsBucket
      BY <1>7, WorkerHolds, CurFacts DEF PlaceSound
    <2>2. ASSUME NEW e, ObsFault(e) \/ e \in Errors \ {"nil"}, Fail(e) PROVE FALSE
      BY <2>2, FaultFacts DEF Fail
    <2>3. CASE addFinalizer \/ removeFinalizer \/ patchStatus
      BY <2>3 DEF addFinalizer, removeFinalizer, patchFinalizer, patchStatus, Return, Idle
    <2>4. CASE resolveBucketClient
      <3>1. Goto("observe") \/ \E e \in Errors \ {"nil"} : Fail(e)
        BY <2>4 DEF resolveBucketClient, Errors
      <3> QED
        BY <2>2, <3>1 DEF Goto
    <2>5. CASE observe
      <3>1. CASE /\ pc' = NextCall(copy, Exists(name))
                 /\ err' = IF pc' = "status" THEN "AlreadyExists" ELSE "nil"
        BY <3>1 DEF NextCall
      <3>2. CASE \E e \in Errors : ObsFault(e) /\ Fail(e)
        BY <2>2, <3>2
      <3> QED
        BY <2>5, <3>1, <3>2 DEF observe
    <2>6. CASE observeAgain
      <3>1. Goto("status") \/ \E e \in Errors : ObsFault(e) /\ Fail(e)
        BY <2>6 DEF observeAgain
      <3>2. Goto("status")
        BY <2>2, <3>1
      <3>3. Exists(name) /\ remote[name].cfg = copy.gen
        BY <1>1, <2>6 DEF observeAgain, Applied
      <3>4. name' = name /\ copy' = copy /\ remote' = remote
        BY <2>6, <3>2 DEF Goto, name, observeAgain
      <3> QED
        BY <3>3, <3>4 DEF Exists
    <2>7. CASE create
      <3>1. ~Exists(name) /\ ~Conflicts
        BY <2>7 DEF create, PlaceSound, Exclusive
      <3>2. Goto("update") \/ \E e \in Errors : (ObsFault(e) \/ e = "Transient") /\ Fail(e)
        BY <2>7, <3>1 DEF create, Errors
      <3> QED
        BY <2>2, <3>2 DEF Goto
    <2>8. CASE update
      <3>1. \/ Goto("reobserve") /\ Exists(name) /\ SetRemote(Settings(remote[name], copy.gen))
            \/ \E e \in Errors : (ObsFault(e) \/ e \in {"NotFound", "Transient"}) /\ Fail(e)
        BY <2>8 DEF update, Errors
      <3>2. Goto("reobserve") /\ Exists(name) /\ SetRemote(Settings(remote[name], copy.gen))
        BY <2>2, <3>1
      <3>3. remote'[name] = [remote[name] EXCEPT !.cfg = copy.gen]
        BY <2>1, <3>2 DEF SetRemote, Settings, AllTypes, ObsTypes
      <3>4. remote'[name].cfg = copy.gen /\ remote'[name].origin = remote[name].origin
        BY <2>1, <3>3 DEF ObsBucket
      <3>5. name' = name /\ copy' = copy
        BY <3>2 DEF Goto, name
      <3> QED
        BY <3>2, <3>4, <3>5 DEF Exists
    <2>9. CASE delete
      <3>1. \/ Goto("unfinalize")
            \/ /\ pc' = AfterNotEmpty(copy)
               /\ err' = IF pc' = "status" THEN "NotEmptyHeld" ELSE "nil"
            \/ \E e \in Errors : (ObsFault(e) \/ e = "Transient") /\ Fail(e)
        BY <2>9 DEF delete, Errors
      <3> QED
        BY <2>2, <3>1 DEF Goto, AfterNotEmpty
    <2>10. CASE deleteAllBucketObjects
      <3>1. \/ Goto("deleteAgain") \/ Goto("purge")
            \/ \E e \in Errors : (ObsFault(e) \/ e = "NotFound") /\ Fail(e)
        BY <2>10 DEF deleteAllBucketObjects, Errors
      <3> QED
        BY <2>2, <3>1 DEF Goto
    <2>11. CASE deleteAgain
      <3>1. \/ Goto("unfinalize")
            \/ \E e \in Errors :
                  (ObsFault(e) \/ e \in {"NotFound", "NotEmpty", "Transient"}) /\ Fail(e)
        BY <2>11 DEF deleteAgain, Errors
      <3> QED
        BY <2>2, <3>1 DEF Goto
    <2> QED
      BY <1>7, <2>3, <2>4, <2>5, <2>6, <2>7, <2>8, <2>9, <2>10, <2>11
         DEF Reconcile, dropFinalizer, PlaceSound
  <1> QED
    BY <1>3, <1>4, <1>5, <1>6, <1>7 DEF Next

(* What ReadyMeansApplied says of Bucket b, once it is Ready.               *)
InPlace(b) ==
    LET r == remote[ObsName[b]] IN
    /\ r.origin = "operator" /\ r.by = b /\ r.uid = cr[b].uid
    /\ r.cfg >= cr[b].status.gen

(* The inductive invariant of reporting.                                   *)
Reporting ==
    /\ Ownership /\ DriftLeft /\ Applied /\ ReadyMeansApplied
    /\ \A n \in Names : GensBehind(n)

(* A status that says Ready was written after update, for settings that are  *)
(* in place.                                                               *)
LEMMA ReportedInPlace ==
    ASSUME Exclusive, Reporting, NoDrift, pc = "status", err = "nil"
    PROVE  LET r == remote[ObsName[cur]] IN
           /\ cur \in Buckets /\ r.origin = "operator" /\ r.by = cur
           /\ r.uid = cr[cur].uid /\ r.cfg = copy.gen
  <1>1. AllTypes /\ Stage(copy) = 1 /\ Exists(name) /\ remote[name].cfg = copy.gen
    BY TypeParts DEF Reporting, Ownership, NoAdoption, AllTypes, PlaceSound, Applied
  <1>2. cur \in Buckets /\ name \in Names /\ copy \in Resource /\ remote[name] \in ObsBucket
    BY <1>1, CurFacts DEF AllTypes, WorkTypes
  <1>3. HasFinalizer(copy)
    BY <1>1, <1>2, StageFacts
  <1>4. remote[name].origin # "preexisting"
    BY <1>2, <1>3 DEF Reporting, Ownership, NoAdoption, PreexistingUnclaimed, Unclaimed, NoClaim,
                      name
  <1>5. remote[name].origin = "operator"
    BY <1>1, <1>2, <1>4 DEF Reporting, Ownership, OwnerSound, Exists, ObsBucket
  <1> QED
    BY <1>1, <1>2, <1>5 DEF Reporting, Ownership, OwnerSound, Exclusive, name

(* What is in place for a Ready Bucket stays in place while it is active.   *)
LEMMA InPlaceLasts ==
    ASSUME Exclusive, Reporting, Next, NEW b \in Buckets, InPlace(b),
           cr[b].phase = "active", cr'[b].status.gen = cr[b].status.gen,
           \A n \in Names : ~OutsiderDrifts(n)
    PROVE  InPlace(b)'
  <1> DEFINE n == ObsName[b]
             r == remote[n]
             s == remote'[n]
  <1>1. AllTypes /\ PlaceSound /\ (\A x \in Buckets : LifeSound(x)) /\ n \in Names
    BY TypeParts, ConstantAssumptions DEF Reporting, Ownership, NoAdoption, AllTypes
  <1>2. /\ r \in ObsBucket /\ r.origin = "operator" /\ r.by = b /\ r.uid = cr[b].uid
        /\ r.cfg >= cr[b].status.gen /\ r.cfg \in Nat
        /\ cr[b] \in Resource /\ cr[b].status.gen \in Nat
    BY <1>1 DEF InPlace, AllTypes, ObsTypes, ObsBucket, ApiTypes, Resource, Status
  <1>3. Claimed(cr[b]) /\ Exists(n)
    BY <1>1, <1>2 DEF Reporting, Ownership, OwnerSound, Exists
  <1>4. cr'[b].uid = cr[b].uid
    BY <1>1, <1>3, ClaimLasts
  <1>5. ASSUME s.origin = r.origin, s.by = r.by, s.uid = r.uid, s.cfg >= cr[b].status.gen
        PROVE  InPlace(b)'
    BY <1>2, <1>4, <1>5 DEF InPlace
  <1>6. CASE \E k : s = [r EXCEPT !.objects = k]
    <2>1. s.origin = r.origin /\ s.by = r.by /\ s.uid = r.uid /\ s.cfg = r.cfg
      BY <1>2, <1>6 DEF ObsBucket
    <2> QED
      BY <1>2, <1>5, <2>1
  <1>7. CASE s = r
    BY <1>2, <1>5, <1>7
  <1>8. CASE OutsiderChange(n) /\ Outsiders
    <2>1. ~Spend("drift")
      <3>1. SameOthers /\ budget \in [Kinds -> Nat] /\ budget["drift"] \in Nat
        BY <1>1, DriftKept DEF AllTypes, BudgetTypes, Kinds
      <3> QED
        BY <3>1, DriftSpent DEF SameOthers
    <2> QED
      BY <1>6, <1>8, <2>1 DEF OutsiderChange
  <1>9. CASE Reconcile /\ n = name /\ WorkerChange(n)
    <2>1. pc # "idle" /\ cur \in Buckets /\ cur = b
      <3>1. pc # "idle"
        BY <1>9 DEF WorkerChange
      <3> QED
        BY <1>1, <1>9, <3>1, CurFacts DEF Exclusive, name
    <2>2. pc \notin {"create", "delete", "purge", "deleteAgain"}
      <3>1. ~(Stage(copy) = 2)
        <4>1. Stage(cr[b]) # 2
          BY <1>2, StageFacts
        <4> QED
          BY <1>1, <1>3, <2>1, <4>1, HeldDeletion
      <3> QED
        BY <1>1, <1>3, <1>9, <3>1 DEF PlaceSound
    <2>3. pc = "update" /\ s = [r EXCEPT !.cfg = copy.gen]
      BY <1>9, <2>2 DEF WorkerChange
    <2>4. s.origin = r.origin /\ s.by = r.by /\ s.uid = r.uid /\ s.cfg = copy.gen
      BY <1>2, <2>3 DEF ObsBucket
    <2>5. r.cfg <= copy.gen /\ copy.gen \in Nat
      <3>1. copy \in Known(b) /\ Claimed(copy) /\ copy \in Resource
        BY <1>1, <2>1, <2>3 DEF Known, PlaceSound, Claimed, AllTypes, WorkTypes
      <3> QED
        BY <1>1, <1>2, <3>1, StageFacts DEF Reporting, GensBehind
    <2> QED
      BY <1>2, <1>5, <2>4, <2>5
  <1> QED
    BY <1>1, <1>7, <1>8, <1>9, RemoteChanges

(* Only the absence of an error is reported as Ready.                       *)
LEMMA ReadyFacts == \A e \in Errors : Reason(e) = "BucketReady" => e = "nil"
  BY DEF Errors, Reason

(* Every step keeps Ready true.                                            *)
LEMMA ReadyStep ==
    ASSUME Exclusive, Reporting, Next, NoDrift', NEW b \in Buckets,
           cr'[b].phase = "active", cr'[b].status.reason = "BucketReady"
    PROVE  InPlace(b)'
  <1>1. AllTypes /\ PlaceSound /\ (\A x \in Buckets : LifeSound(x)) /\ DriftLeft
    BY TypeParts DEF Reporting, Ownership, NoAdoption, AllTypes
  <1>2. NoDrift /\ \A n \in Names : ~OutsiderDrifts(n)
    BY <1>1, DriftStep
  <1>3. ASSUME cr[b].phase = "active", cr'[b].status = cr[b].status PROVE InPlace(b)'
    <2>1. InPlace(b)
      BY <1>2, <1>3 DEF Reporting, ReadyMeansApplied, InPlace
    <2> QED
      BY <1>2, <1>3, <2>1, InPlaceLasts
  <1>4. CASE cr'[b] = cr[b]
    BY <1>3, <1>4
  <1>5. ASSUME NEW x \in Buckets, NEW o, Stores(x, o), cr'[b] # cr[b] PROVE InPlace(b)'
    <2>1. x = b /\ cr'[b] = o /\ remote' = remote /\ cr[b] \in Resource
      BY <1>1, <1>5 DEF Stores, Write, AllTypes, ApiTypes
    <2>2. CASE Kept(cr[b], o)
      <3>1. o.status # NoStatus
        BY <2>1 DEF NoStatus
      <3> QED
        BY <1>3, <2>1, <2>2, <3>1 DEF Kept
    <2>3. ~Releases(cr[b], o)
      <3>1. Releases(cr[b], o) => o.phase # "active"
        BY StageFacts DEF Releases
      <3> QED
        BY <2>1, <3>1
    <2>4. CASE o = [cr[b] EXCEPT !.status = Report] /\ cur = b /\ pc = "status"
      <3>1. o.status = Report /\ o.uid = cr[b].uid
        BY <2>1, <2>4 DEF Resource
      <3>2. err = "nil"
        BY <1>1, <2>1, <3>1, ReadyFacts DEF Report, AllTypes, WorkTypes
      <3>3. LET r == remote[ObsName[b]] IN
            r.origin = "operator" /\ r.by = b /\ r.uid = cr[b].uid /\ r.cfg = copy.gen
        BY <1>2, <2>4, <3>2, ReportedInPlace
      <3>4. copy.gen \in Nat
        BY <1>1, StageFacts DEF AllTypes, WorkTypes
      <3> QED
        BY <2>1, <3>1, <3>3, <3>4 DEF InPlace, Report
    <2> QED
      BY <1>5, <2>1, <2>2, <2>3, <2>4 DEF Stores
  <1> QED
    BY <1>1, <1>4, <1>5, StoredStep DEF Deliver, Begin, Restart, api

(* The invariant holds at the start ...                                    *)
LEMMA ReportingInit == Init => Reporting
  <1> SUFFICES ASSUME Init PROVE Reporting
    OBVIOUS
  <1>1. Ownership /\ DriftLeft /\ Applied
    BY OwnershipInit, ConstantAssumptions DEF Init, DriftLeft, Applied, Kinds
  <1>2. ReadyMeansApplied
    BY DEF Init, ReadyMeansApplied, Gone
  <1>3. \A n \in Names : GensBehind(n)
    BY ObsFacts DEF Init, GensBehind
  <1> QED
    BY <1>1, <1>2, <1>3 DEF Reporting

(* ... and is kept by every step.                                          *)
LEMMA ReportingStep ==
    ASSUME Exclusive, Reporting, [Next]_vars
    PROVE  Reporting'
  <1>1. Ownership' /\ AllTypes /\ AllTypes'
    <2>1. Ownership'
      BY OwnershipStep DEF Reporting
    <2>2. TypeOK /\ TypeOK'
      BY <2>1 DEF Reporting, Ownership, NoAdoption
    <2>3. TypeOK' <=> (ApiTypes /\ WorkTypes /\ RestTypes /\ ObsTypes /\ BudgetTypes)'
      BY TypeParts, PTL
    <2> QED
      BY <2>1, <2>2, <2>3, TypeParts DEF AllTypes
  <1>2. CASE Next
    <2>1. DriftLeft' /\ Applied'
      BY <1>1, <1>2, DriftStep, AppliedStep DEF Reporting, Ownership, NoAdoption
    <2>2. ReadyMeansApplied'
      BY <1>2, ReadyStep DEF ReadyMeansApplied, InPlace
    <2>3. \A n \in Names : GensBehind(n)'
      BY <1>1, <1>2, GensStep DEF Reporting, Ownership
    <2> QED
      BY <1>1, <2>1, <2>2, <2>3 DEF Reporting
  <1>3. CASE UNCHANGED vars
    <2>1. DriftLeft' /\ Applied' /\ ReadyMeansApplied'
      BY <1>3 DEF vars, Reporting, DriftLeft, Applied, ReadyMeansApplied, NoDrift, Exists, name
    <2>2. \A n \in Names : GensBehind(n)'
      BY <1>3 DEF vars, Reporting, GensBehind, Known
    <2> QED
      BY <1>1, <2>1, <2>2 DEF Reporting
  <1> QED
    BY <1>2, <1>3

(* As long as nobody deletes OBS buckets behind its back, a Bucket that says  *)
(* Ready has its own OBS bucket with at least the settings of the            *)
(* generation it reports, although patchStatus comes calls after update and *)
(* later updates may come from copies that are out of date.                *)
THEOREM ReadyIsTrue ==
    ASSUME Exclusive
    PROVE  Spec => []ReadyMeansApplied
  <1>1. Reporting => ReadyMeansApplied
    BY DEF Reporting
  <1>2. Reporting /\ [Next]_vars => Reporting'
    BY ReportingStep
  <1> QED
    BY ReportingInit, <1>1, <1>2, PTL DEF Spec
=============================================================================
