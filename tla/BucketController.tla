--------------------------- MODULE BucketController ---------------------------
(***************************************************************************)
(* The Bucket controller (internal/controller/bucket_controller.go): one   *)
(* worker that takes Bucket resources from a work queue and drives the OBS *)
(* buckets of the same name.  Reconcile is split at every call that leaves *)
(* the process (Kubernetes API or OBS), so users, other OBS clients, watch *)
(* delivery and a restart of the manager may fall between any two calls.   *)
(*                                                                         *)
(* Abstractions.  The spec of a Bucket is its generation plus forceDestroy *)
(* (what deletion branches on); `cfg' of an OBS bucket is the newest       *)
(* generation whose settings are all in place; an error is its class; a    *)
(* condition is its reason and observed generation (its message follows    *)
(* the reason); the ProviderConfig is usable or not.                       *)
(***************************************************************************)
EXTENDS BucketRules, Sequences, FiniteSets

CONSTANTS
    Buckets,          \* Bucket resources (namespace and name)
    Names,            \* OBS bucket names
    ObsName,          \* the OBS name of each Bucket: its metadata.name
    NoBucket,         \* "no Bucket": not a member of Buckets
    OutsidersCreate,  \* whether others may create OBS buckets during a run
    Conflicts,        \* whether CreateBucket on a free name may end in a 409
    Rejections,       \* whether OBS may refuse a request for good (4xx)
    PageSize,         \* objects listed per ListVersions page (1000 in OBS)
    MaxObjects,       \* bound: objects per OBS bucket
    MaxLag,           \* bound: undelivered watch events per Bucket
    Budget            \* bound: how often each kind of environment step happens

Kinds == {"user", "provider", "write", "drift", "fault", "restart"}

ASSUME ConstantAssumptions ==
    /\ ObsName \in [Buckets -> Names]
    /\ NoBucket \notin Buckets
    /\ {OutsidersCreate, Conflicts, Rejections} \subseteq BOOLEAN
    /\ PageSize \in Nat \ {0} /\ MaxObjects \in Nat /\ MaxLag \in Nat
    /\ Budget \in [Kinds -> Nat]

VARIABLES
    cr,        \* Bucket resources stored by the API server
    watch,     \* versions written to the API server, not yet seen by the informer
    cached,    \* the informer's copy, what r.Get reads
    queue,     \* the controller's work queue
    provider,  \* whether the ProviderConfig resolves to an OBS client
    remote,    \* OBS buckets
    pc,        \* the call the worker makes next
    cur,       \* the Bucket being reconciled
    copy,      \* the worker's in-memory Bucket
    err,       \* the class of reconcileErr
    budget     \* environment steps left

worker == <<pc, cur, copy, err>>
api    == <<cr, watch>>
vars   == <<cr, watch, cached, queue, provider, remote, pc, cur, copy, err,
            budget>>

-----------------------------------------------------------------------------
(* OBS buckets.  Who made one is a history field, which the controller      *)
(* cannot see: the operator, or others; "preexisting" when the API server   *)
(* then held no Bucket of that name with our finalizer, else "outsider".    *)

ObsBucket == [origin : {"absent", "preexisting", "outsider", "operator"},
              by : Buckets \cup {NoBucket}, uid : Nat, objects : Nat, cfg : Nat]

ObsAs(origin, by, uid) ==
    [origin |-> origin, by |-> by, uid |-> uid, objects |-> 0, cfg |-> 0]
NoObsBucket == ObsAs("absent", NoBucket, 0)

Exists(n) == remote[n].origin # "absent"

-----------------------------------------------------------------------------
(* The API server, the watch and the work queue.                           *)

Spend(k) == budget[k] > 0 /\ budget' = [budget EXCEPT ![k] = @ - 1]

(* A write that changes the object becomes one watch event.                *)
Write(b, o) ==
    /\ cr' = [cr EXCEPT ![b] = o]
    /\ \/ o = cr[b] /\ watch' = watch
       \/ /\ o # cr[b] /\ Len(watch[b]) < MaxLag
          /\ watch' = [watch EXCEPT ![b] = Append(@, o)]

(* bucketsForProviderConfig: the Buckets of a ProviderConfig, as the        *)
(* informer knows them.                                                    *)
bucketsForProviderConfig == {b \in Buckets : cached[b].phase # "absent"}

Deliver(b) ==
    /\ watch[b] # <<>>
    /\ cached' = [cached EXCEPT ![b] = Head(watch[b])]
    /\ watch' = [watch EXCEPT ![b] = Tail(@)]
    /\ queue' = IF bucketEventPredicate(cached[b], Head(watch[b]))
                THEN queue \cup {b} ELSE queue
    /\ UNCHANGED <<cr, provider, remote, worker, budget>>

UserWrite(b, o) ==
    /\ Spend("user")
    /\ Write(b, o)
    /\ UNCHANGED <<cached, queue, provider, remote, worker>>

UserCreate(b) ==
    /\ cr[b].phase = "absent"
    /\ \E force \in BOOLEAN :
          UserWrite(b, [phase |-> "active", uid |-> cr[b].uid + 1, gen |-> 1,
                        finalizers |-> {}, force |-> force, status |-> NoStatus])

UserEdit(b) ==
    /\ cr[b].phase # "absent"
    /\ \E force \in BOOLEAN :
          UserWrite(b, [cr[b] EXCEPT !.gen = @ + 1, !.force = force])

UserDelete(b) ==
    /\ cr[b].phase = "active"
    /\ UserWrite(b, Settled([cr[b] EXCEPT !.phase = "deleting", !.gen = @ + 1]))

(* Another controller adds or removes a finalizer of its own.              *)
OtherFinalizer(b) ==
    \/ /\ cr[b].phase = "active" /\ Other \notin cr[b].finalizers
       /\ UserWrite(b, [cr[b] EXCEPT !.finalizers = @ \cup {Other}])
    \/ /\ Other \in cr[b].finalizers
       /\ UserWrite(b, Settled([cr[b] EXCEPT !.finalizers = @ \ {Other}]))

(* The ProviderConfig or its credentials change, or only its status does:   *)
(* every Bucket that refers to it is enqueued.                             *)
ProviderEvent ==
    /\ Spend("provider")
    /\ provider' \in BOOLEAN
    /\ queue' = queue \cup bucketsForProviderConfig
    /\ UNCHANGED <<api, cached, remote, worker>>

-----------------------------------------------------------------------------
(* Other clients of OBS.                                                   *)

(* Our finalizer is set on a Bucket of that name.                          *)
FinalizerSet(n) == \E b \in Buckets : ObsName[b] = n /\ HasFinalizer(cr[b])

OutsiderWrites(n) ==
    /\ Exists(n) /\ remote[n].objects < MaxObjects
    /\ Spend("write")
    /\ remote' = [remote EXCEPT ![n].objects = @ + 1]
    /\ UNCHANGED <<api, cached, queue, provider, worker>>

OutsiderDrifts(n) ==
    /\ \/ Exists(n) /\ remote' = [remote EXCEPT ![n] = NoObsBucket]
       \/ /\ OutsidersCreate /\ ~Exists(n)
          /\ remote' = [remote EXCEPT ![n] =
                          ObsAs(IF FinalizerSet(n) THEN "outsider" ELSE "preexisting", NoBucket, 0)]
    /\ Spend("drift")
    /\ UNCHANGED <<api, cached, queue, provider, worker>>

-----------------------------------------------------------------------------
(* Ways a step of Reconcile ends.                                          *)

Idle == pc' = "idle" /\ cur' = NoBucket /\ copy' = Gone(0) /\ err' = "nil"

(* Mutant of Return: the worker holds on to its Bucket.                     *)
ReturnHolding(requeue) ==
    /\ pc' = "idle" /\ UNCHANGED <<cur, copy>> /\ err' = "nil"
    /\ queue' = IF requeue THEN queue \cup {cur} ELSE queue

(* Reconcile returns; a returned error puts the Bucket back on the queue.  *)
Return(requeue) == Idle /\ queue' = IF requeue THEN queue \cup {cur} ELSE queue

Goto(label) == pc' = label /\ UNCHANGED <<cur, copy, err, queue>>

(* The error goes to patchStatus.                                          *)
Fail(e) == pc' = "status" /\ err' = e /\ UNCHANGED <<cur, copy, queue>>

(* A call fails: the Kubernetes API or the network, retryable ...           *)
Fault == Spend("fault")

(* ... or OBS, with an answer that is retryable or a final 4xx.            *)
ObsFault(e) == Spend("fault") /\ e \in {"Transient"} \cup IF Rejections THEN {"Rejected"} ELSE {}

name == ObsName[cur]
SetRemote(o) == remote' = [remote EXCEPT ![name] = o]

-----------------------------------------------------------------------------
(* Reconcile.                                                              *)

Begin(b) ==
    /\ pc = "idle" /\ b \in queue
    /\ queue' = queue \ {b}
    /\ \/ /\ Tracked(cached[b])
          /\ pc' = "resolve" /\ cur' = b /\ copy' = cached[b]
          /\ UNCHANGED err
       \/ ~Tracked(cached[b]) /\ UNCHANGED worker
    /\ UNCHANGED <<api, cached, provider, remote, budget>>

resolveBucketClient ==
    /\ pc = "resolve"
    /\ \/ provider /\ Goto("observe") /\ UNCHANGED budget
       \/ ~provider /\ Fail("Provider") /\ UNCHANGED budget
       \/ Fault /\ Fail("Transient")
    /\ UNCHANGED <<api, cached, provider, remote>>

observe ==
    /\ pc = "observe"
    /\ \/ /\ pc' = NextCall(copy, Exists(name))
          /\ err' = IF pc' = "status" THEN "AlreadyExists" ELSE "nil"
          /\ UNCHANGED <<cur, copy, queue, budget>>
       \/ \E e \in Errors : ObsFault(e) /\ Fail(e)
    /\ UNCHANGED <<api, cached, provider, remote>>

(* The second observation, after update: its result does not change the    *)
(* verdict.                                                                *)
observeAgain ==
    /\ pc = "reobserve"
    /\ \/ Goto("status") /\ UNCHANGED budget
       \/ \E e \in Errors : ObsFault(e) /\ Fail(e)
    /\ UNCHANGED <<api, cached, provider, remote>>

(* Any conflict (409) counts as "already exists": also one that OBS gives    *)
(* for other reasons, and one that meets the client library's own repeat of  *)
(* a request which had taken effect.  A failed call may have taken effect    *)
(* before its answer was lost.                                             *)
create ==
    /\ pc = "create"
    /\ LET made == ObsAs("operator", cur, copy.uid) IN
       \/ ~Exists(name) /\ SetRemote(made) /\ Goto("update") /\ UNCHANGED budget
       \/ /\ \/ Exists(name) /\ UNCHANGED <<remote, budget>>
             \/ Conflicts /\ Fault /\ UNCHANGED remote
             \/ Conflicts /\ Fault /\ ~Exists(name) /\ SetRemote(made)
          /\ pc' = "dropFinalizer" /\ err' = "AlreadyExists"
          /\ UNCHANGED <<cur, copy, queue>>
       \/ \E e \in Errors : ObsFault(e) /\ Fail(e) /\ UNCHANGED remote
       \/ ~Exists(name) /\ Fault /\ SetRemote(made) /\ Fail("Transient")
    /\ UNCHANGED <<api, cached, provider>>

(* Storage class, ACL, versioning, tags, logging and encryption, each read   *)
(* and, where it differs, set: afterwards the bucket is at generation gen.  *)
Settings(o, gen) == [o EXCEPT !.cfg = gen]

(* The settings steps in turn; one that fails leaves those before it done,  *)
(* which cfg does not show, and those after it undone.                     *)
update ==
    /\ pc = "update"
    /\ LET applied == Settings(remote[name], copy.gen) IN
       \/ Exists(name) /\ SetRemote(applied) /\ Goto("reobserve") /\ UNCHANGED budget
       \/ ~Exists(name) /\ Fail("NotFound") /\ UNCHANGED <<remote, budget>>
       \/ \E e \in Errors : ObsFault(e) /\ Fail(e) /\ UNCHANGED remote
       \/ Exists(name) /\ Fault /\ SetRemote(applied) /\ Fail("Transient")
    /\ UNCHANGED <<api, cached, provider>>

(* delete: the first DeleteBucket call.                                    *)
delete ==
    /\ pc = "delete"
    /\ \/ ~Exists(name) /\ Goto("unfinalize") /\ UNCHANGED <<remote, budget>>
       \/ /\ Exists(name) /\ remote[name].objects = 0
          /\ SetRemote(NoObsBucket)
          /\ \/ Goto("unfinalize") /\ UNCHANGED budget
             \/ Fault /\ Fail("Transient")
       \/ /\ remote[name].objects > 0 /\ UNCHANGED <<remote, budget>>
          /\ pc' = AfterNotEmpty(copy)
          /\ err' = IF pc' = "status" THEN "NotEmptyHeld" ELSE "nil"
          /\ UNCHANGED <<cur, copy, queue>>
       \/ \E e \in Errors : ObsFault(e) /\ Fail(e) /\ UNCHANGED remote
    /\ UNCHANGED <<api, cached, provider>>

(* How many object versions and delete markers a ListVersions answer may    *)
(* hold: at most a page, also fewer, none only of an empty bucket.         *)
Listed(objects) ==
    {k \in 0..objects : k <= PageSize /\ (k = 0 <=> objects = 0)}

(* Whether the loop ends with a page: an empty one, or one that is neither  *)
(* full nor truncated.                                                     *)
LastPage(page, objects) == page = 0 \/ (page < PageSize /\ page = objects)

(* One round of deleteAllBucketObjects: list a page, delete what it lists.  *)
deleteAllBucketObjects ==
    /\ pc = "purge"
    /\ LET objects == remote[name].objects
           Left(k) == [remote[name] EXCEPT !.objects = objects - k]
       IN \/ ~Exists(name) /\ Fail("NotFound") /\ UNCHANGED <<remote, budget>>
          \/ \E page \in Listed(objects) :
                /\ Exists(name) /\ SetRemote(Left(page)) /\ UNCHANGED budget
                /\ Goto(IF LastPage(page, objects) THEN "deleteAgain" ELSE "purge")
          \/ \E e \in Errors, k \in {0} \cup Listed(objects) :
                ObsFault(e) /\ Exists(name) /\ SetRemote(Left(k)) /\ Fail(e)
    /\ UNCHANGED <<api, cached, provider>>

(* The DeleteBucket call after the objects are gone: here not-found is an   *)
(* error, and so is a bucket that was written to meanwhile.                *)
deleteAgain ==
    /\ pc = "deleteAgain"
    /\ \/ ~Exists(name) /\ Fail("NotFound") /\ UNCHANGED <<remote, budget>>
       \/ /\ Exists(name) /\ remote[name].objects = 0
          /\ SetRemote(NoObsBucket)
          /\ \/ Goto("unfinalize") /\ UNCHANGED budget
             \/ Fault /\ Fail("Transient")
       \/ remote[name].objects > 0 /\ Fail("NotEmpty") /\ UNCHANGED <<remote, budget>>
       \/ \E e \in Errors : ObsFault(e) /\ Fail(e) /\ UNCHANGED remote
    /\ UNCHANGED <<api, cached, provider>>

-----------------------------------------------------------------------------
(* Patches.  client.MergeFrom sends only the fields that differ from the    *)
(* worker's copy, with no resourceVersion or UID precondition; finalizers   *)
(* are one list, so the patch replaces whatever list the server holds.     *)

(* The object the server holds after a patch to finalizer list f.          *)
Patched(f) == [cr[cur] EXCEPT !.finalizers = f]

(* The server refuses a patch of a missing object, and a new finalizer on   *)
(* one that is being deleted.                                              *)
Refused(f) ==
    \/ cr[cur].phase = "absent"
    \/ cr[cur].phase = "deleting" /\ ~(f \subseteq cr[cur].finalizers)

(* patchFinalizer, where Reconcile returns straight after it.              *)
patchFinalizer(label, f) ==
    /\ pc = label
    /\ \/ ~Refused(f) /\ Write(cur, Settled(Patched(f))) /\ Return(FALSE) /\ UNCHANGED budget
       \/ Refused(f) /\ Return(TRUE) /\ UNCHANGED <<api, budget>>
       \/ Fault /\ Return(TRUE) /\ UNCHANGED api
       \/ ~Refused(f) /\ Fault /\ Write(cur, Settled(Patched(f))) /\ Return(TRUE)
    /\ UNCHANGED <<cached, provider, remote>>

addFinalizer    == patchFinalizer("finalize", copy.finalizers \cup {Ours})
removeFinalizer == patchFinalizer("unfinalize", copy.finalizers \ {Ours})

(* patchFinalizer after a create conflict: Reconcile goes on to patchStatus *)
(* with the object the server returned, or with both errors joined.        *)
dropFinalizer ==
    LET f == copy.finalizers \ {Ours} IN
    /\ pc = "dropFinalizer" /\ pc' = "status"
    /\ \/ /\ ~Refused(f) /\ Write(cur, Settled(Patched(f)))
          /\ copy' = Patched(f) /\ UNCHANGED <<err, budget>>
       \/ /\ Refused(f)
          /\ err' = IF cr[cur].phase = "absent" THEN "AlreadyExistsGone" ELSE "AlreadyExistsKept"
          /\ UNCHANGED <<api, copy, budget>>
       \/ Fault /\ err' = "AlreadyExistsKept" /\ UNCHANGED <<api, copy>>
       \/ /\ ~Refused(f) /\ Fault /\ Write(cur, Settled(Patched(f)))
          /\ err' = "AlreadyExistsKept" /\ UNCHANGED copy
    /\ UNCHANGED <<cur, queue, cached, provider, remote>>

(* patchStatus and updateBucketStatus: no call when the new status equals   *)
(* the one in the worker's copy.                                           *)
patchStatus ==
    LET next == [reason |-> Reason(err), gen |-> copy.gen]
        o    == [cr[cur] EXCEPT !.status = next]
    IN
    /\ pc = "status"
    /\ \/ copy.status = next /\ Return(Retried(err)) /\ UNCHANGED <<api, budget>>
       \/ /\ copy.status # next
          /\ \/ /\ cr[cur].phase # "absent" /\ Write(cur, o)
                /\ \/ Return(Retried(err)) /\ UNCHANGED budget
                   \/ Fault /\ Return(TRUE)
             \/ cr[cur].phase = "absent" /\ Return(TRUE) /\ UNCHANGED <<api, budget>>
             \/ Fault /\ Return(TRUE) /\ UNCHANGED api
    /\ UNCHANGED <<cached, provider, remote>>

(* The manager restarts: memory is lost, the informer lists the API server  *)
(* and every Bucket it finds is enqueued.                                  *)
Restart ==
    /\ Spend("restart")
    /\ Idle
    /\ cached' = cr
    /\ watch' = [b \in Buckets |-> <<>>]
    /\ queue' = {b \in Buckets : cr[b].phase # "absent"}
    /\ UNCHANGED <<cr, provider, remote>>

-----------------------------------------------------------------------------
Init ==
    /\ cr = [b \in Buckets |-> Gone(0)]
    /\ watch = [b \in Buckets |-> <<>>]
    /\ cached = cr
    /\ queue = {}
    /\ provider \in BOOLEAN
    /\ remote \in [Names -> {NoObsBucket, ObsAs("preexisting", NoBucket, 0)}]
    /\ pc = "idle" /\ cur = NoBucket /\ copy = Gone(0) /\ err = "nil"
    /\ budget = Budget

Reconcile ==
    \/ resolveBucketClient \/ observe \/ observeAgain \/ create \/ update
    \/ delete \/ deleteAllBucketObjects \/ deleteAgain
    \/ addFinalizer \/ removeFinalizer \/ dropFinalizer \/ patchStatus

Users ==
    \/ \E b \in Buckets : UserCreate(b) \/ UserEdit(b) \/ UserDelete(b) \/ OtherFinalizer(b)
    \/ ProviderEvent

Outsiders == \E n \in Names : OutsiderWrites(n) \/ OutsiderDrifts(n)

Next ==
    \/ \E b \in Buckets : Deliver(b) \/ Begin(b)
    \/ Reconcile \/ Users \/ Outsiders \/ Restart

Spec == Init /\ [][Next]_vars

(* The informer keeps delivering, the queue is served first come first      *)
(* served, and every call of the worker returns.  Users, other OBS clients, *)
(* faults and restarts owe nothing.                                        *)
Fairness ==
    /\ \A b \in Buckets : WF_vars(Deliver(b)) /\ SF_vars(Begin(b))
    /\ WF_vars(Reconcile)

FairSpec == Spec /\ Fairness

-----------------------------------------------------------------------------
(* Properties.                                                             *)

Labels == {"idle", "resolve", "observe", "delete", "purge", "deleteAgain",
           "unfinalize", "finalize", "create", "dropFinalizer", "update",
           "reobserve", "status"}

(* Every variable has its type, and the worker holds a Bucket exactly while *)
(* Reconcile is running.                                                   *)
TypeOK ==
    /\ cr \in [Buckets -> Resource] /\ cached \in [Buckets -> Resource]
    /\ watch \in [Buckets -> Seq(Resource)]
    /\ queue \subseteq Buckets /\ provider \in BOOLEAN
    /\ remote \in [Names -> ObsBucket]
    /\ pc \in Labels /\ cur \in Buckets \cup {NoBucket} /\ copy \in Resource
    /\ err \in Errors
    /\ budget \in [Kinds -> Nat]
    /\ pc = "idle" <=> cur = NoBucket

(* No version of Bucket b that is stored, on its way to the informer, cached *)
(* or in the worker's hands carries our finalizer, and the worker has not   *)
(* decided to add it.                                                      *)
NoClaim(b) ==
    /\ ~HasFinalizer(cr[b]) /\ ~HasFinalizer(cached[b])
    /\ \A i \in 1..Len(watch[b]) : ~HasFinalizer(watch[b][i])
    /\ cur = b => ~HasFinalizer(copy) /\ pc \in {"resolve", "observe", "status"}

Unclaimed(n) == \A b \in Buckets : ObsName[b] = n => NoClaim(b)

(* An OBS bucket that exists while nobody claims its name, whoever made it,  *)
(* is never changed or deleted by the controller, and no Bucket comes to     *)
(* claim it, whatever is stale, fails or restarts: Reconcile reports        *)
(* BucketAlreadyExists and leaves it alone.  So the way into another's      *)
(* bucket leads through a claim decided on before that bucket was there.    *)
UnclaimedLeftAlone ==
    [][\A n \in Names : Exists(n) /\ Unclaimed(n) =>
            /\ remote'[n] = remote[n] \/ Outsiders
            /\ Unclaimed(n)']_vars

(* The stronger promise of the comment in Reconcile: an OBS bucket that      *)
(* exists before our finalizer is set is unmanaged, hence never changed or  *)
(* deleted by the controller.                                              *)
PreexistingUntouched ==
    [][\A n \in Names : remote[n].origin = "preexisting" =>
            remote'[n] = remote[n] \/ Outsiders]_vars

(* An OBS bucket that the controller created is tracked by the very Bucket  *)
(* it was created for: the finalizer goes on before create and off only     *)
(* after delete, so neither a deletion, a lost answer nor a restart leaves  *)
(* an OBS bucket behind.  (As long as create meets no conflict, that is     *)
(* without OutsidersCreate and Conflicts.)                                 *)
OwnedHasFinalizer ==
    \A n \in Names : remote[n].origin = "operator" =>
        LET o == cr[remote[n].by] IN HasFinalizer(o) /\ o.uid = remote[n].uid

(* Among Buckets with distinct OBS names, the controller takes away an OBS   *)
(* bucket it made, or objects in it, only while the Bucket it made it for   *)
(* is being deleted, and objects only on behalf of a forceDestroy it read:  *)
(* a stale copy of an earlier, deleted Bucket never hits its successor.    *)
DeleteOnlyOnRequest ==
    [][\A n \in Names :
            LET old == remote[n] new == remote'[n] IN
            /\ old.origin = "operator" /\ ~Outsiders
            /\ new.origin = "absent" \/ new.objects < old.objects
            => /\ cr[old.by].phase = "deleting" /\ cr[old.by].uid = old.uid
               /\ old.objects > 0 => copy.force]_vars

(* Nobody has deleted or created an OBS bucket behind the controller's back. *)
NoDrift == budget["drift"] = Budget["drift"]

(* Without such interference, a Bucket that says Ready has its OBS bucket,  *)
(* made for it, with at least the settings of the generation it reports,    *)
(* although the status write comes calls after the update it speaks of.    *)
ReadyMeansApplied ==
    NoDrift => \A b \in Buckets :
        cr[b].phase = "active" /\ cr[b].status.reason = "BucketReady" =>
            LET r == remote[ObsName[b]] IN
            /\ r.origin = "operator" /\ r.by = b /\ r.uid = cr[b].uid
            /\ r.cfg >= cr[b].status.gen

(* A Bucket asks for an OBS bucket that nobody else made, and that was not   *)
(* disowned by a create that took effect and ended in a conflict.          *)
Wanted(b) ==
    LET r == remote[ObsName[b]] IN
    /\ cr[b].phase = "active" /\ provider
    /\ r.origin = "absent" \/ (r.origin = "operator" /\ HasFinalizer(cr[b]))

(* It has that OBS bucket, with the settings it asks for last.  (When others *)
(* drift the bucket, no event would tell the controller.)                  *)
Provided(b) ==
    Wanted(b) /\ NoDrift => Exists(ObsName[b]) /\ remote[ObsName[b]].cfg = cr[b].gen

(* A Bucket that is to be destroyed by force, with a usable provider, is not *)
(* held by our finalizer.                                                  *)
Released(b) ==
    ~(cr[b].phase = "deleting" /\ HasFinalizer(cr[b]) /\ cr[b].force /\ provider)

(* Once users and the ProviderConfig leave it alone, and if nobody drifts    *)
(* its OBS bucket (no event would tell the controller), a Bucket with a      *)
(* usable provider gets its OBS bucket with the settings it asks for last:  *)
(* every event that matters passes the predicate, and every failure that no *)
(* user can correct is retried.                                            *)
SettingsConverge == \A b \in Buckets : []<>Provided(b)

(* The deletion of a Bucket that is to be destroyed by force and has a       *)
(* usable provider does not stay stuck on our finalizer, whichever call of  *)
(* delete, deleteAllBucketObjects and patchFinalizer failed on the way.    *)
DeletionCompletes == \A b \in Buckets : []<>Released(b)

(* The controller owes nothing when it has nothing to do: with the queue and *)
(* the watch empty and the worker idle, no reconcile is missing.  A Bucket   *)
(* that wants its OBS bucket has it with its latest settings, and one that   *)
(* is to be destroyed by force is not held by our finalizer, however events *)
(* were merged in the queue, dropped by the predicate or overtaken by the   *)
(* worker's own writes.  (As long as OBS refuses no request for good.)      *)
NothingForgotten ==
    queue = {} /\ pc = "idle" /\ (\A b \in Buckets : watch[b] = <<>>) =>
        \A b \in Buckets : Provided(b) /\ Released(b)

(* The controller comes to rest: no event it causes itself, and no error a   *)
(* user has to correct, keeps it busy.                                     *)
EventuallyQuiet == <>[](queue = {} /\ pc = "idle")

(* Two Buckets never both report Ready for one OBS bucket.                  *)
ExclusiveOwner ==
    \A b1, b2 \in Buckets :
        b1 # b2 /\ ObsName[b1] = ObsName[b2] =>
            ~(cr[b1].status.reason = "BucketReady" /\ cr[b2].status.reason = "BucketReady")

(* A provider failure is reported: once the controller is at rest and the    *)
(* informer has caught up, no Bucket whose ProviderConfig is unusable says  *)
(* Ready.                                                                  *)
FailureReported ==
    queue = {} /\ pc = "idle" /\ ~provider /\ (\A b \in Buckets : watch[b] = <<>>) =>
        \A b \in Buckets : cr[b].phase = "active" => cr[b].status.reason # "BucketReady"

(* What BucketLifecycle speaks of, in terms of the controller's world.      *)
Lifecycle == INSTANCE BucketLifecycle WITH
    request <- [b \in Buckets |-> cr[b].phase],
    claim   <- [b \in Buckets |-> HasFinalizer(cr[b])],
    owned   <- [b \in Buckets |-> remote[ObsName[b]].origin = "operator"],
    foreign <- [b \in Buckets |-> remote[ObsName[b]].origin = "preexisting"],
    others  <- budget["drift"]

(* The controller implements the life of a Bucket as BucketLifecycle has it: *)
(* whatever is stale, fails, is repeated or restarts, an OBS bucket is made *)
(* only under a claim, deleted only for a deletion, and the claim released  *)
(* only after it.  (For distinct names, without conflicts.)                *)
ImplementsLifecycle == Lifecycle!Spec
=============================================================================
