# obs-operator: TLA+ specifications, model checks and proofs

The operator manages OBS buckets (S3-like object storage) from Kubernetes
resources. A `Bucket` resource asks for one OBS bucket; a `ProviderConfig` names
a region, an endpoint and a Secret with credentials. This directory models the
operator's own logic and checks and proves what makes it correct: it leaves alone
what it has not claimed, keeps track of what it created, reports what is true, and
gets done what it was asked for. Where the code falls short of that (a bucket that
appears just before the claim, a ProviderConfig that moves, and some more), a run or a
condition on the property says so; see Findings and Conditions.

Names of actions and operators follow the Go code; `PROJECT.json` ("map") gives
the source lines of each. Lines below are of
`internal/controller/bucket_controller.go` unless another file is named.

## Inventory of the system

| Component | State | Operations | What makes it correct |
|---|---|---|---|
| Bucket reconciler (81-346, 664-911) | the Bucket in the API server (finalizer, status), the OBS bucket; in memory only for one `Reconcile` | Reconcile: resolve client, observe, create, update, delete, force destroy, patch finalizer, patch status | touches only what it created or had claimed before it was there; everything it created is tracked by a finalizer; deletes only on request; Ready is true; converges; comes to rest |
| Settings steps (295-316, 348-662) | settings of the OBS bucket | six get/compare/set steps in a fixed order | all settings reached when none fails; a failure leaves a prefix done |
| Error classification, conditions (772-865, 1094-1140) | none | error -> retried or not; error -> reason | what a user must correct is not retried, all else is |
| Event wiring (913-970, 1142-1161) | informer cache, work queue | predicate, field index, watches | no event that matters is dropped, none the controller causes itself keeps it busy |
| Provider resolver (`provider_resolver.go` 125-218) | none | ProviderConfig -> Secret -> key -> client | the client belongs to the inputs that were read |
| Client cache (`cache.go`) | map from ProviderConfig to key and client, a mutex | get, set, InvalidateProvider, close | no leak, no double close, nothing closed in the cache |
| ProviderConfig reconciler (`providerconfig_controller.go`) | ProviderConfig status | validate, invalidate, patch status | its condition is right when it rests, it does rest, and a change of Secret or spec reaches the Buckets |
| Credential and endpoint parsing, ACL and storage class normalisation | none | pure functions | agree with their reference definition |
| Manager (`cmd/main.go`) | leader lease | start, restart | one worker per controller at a time |

Interactions. The Bucket reconciler calls the resolver, which shares the client
cache with the ProviderConfig reconciler (two goroutines). The Bucket controller
watches Buckets (through `bucketEventPredicate`) and ProviderConfigs (through
`bucketsForProviderConfig`); a Secret's change reaches it only through the
ProviderConfig's status. All Kubernetes reads but those of Secrets come from the
informer's copy, which lags behind the API server.

What is hard. One reconcile is up to a dozen remote calls, any of which can fail
after taking effect; others change the OBS bucket and the Bucket between any two;
the copy acted upon is stale; errors of some classes are deliberately not
retried; patches carry no precondition; the manager may restart anywhere.
`PROJECT.json` ("hazards") lists each with its line and the properties that
watch it.

## Modules

```
BucketRules                    decisions as pure operators (next call, retried?, reason, predicate)
  BucketController             the controller, API server, informer, queue, OBS, users, faults
    MCBucketController         instances for TLC
    BucketControllerProofs     types, the unclaimed left alone, nothing forgotten
      BucketOwnershipProofs    nothing lost, nothing deleted unasked, Ready is true, refinement
    BucketRelocation           ... with a ProviderConfig that moves to another site
      MCBucketRelocation
  BucketErrors                 wrapped and joined errors, and that BucketRules' classes stand for them
BucketLifecycle                abstract specification, implemented by BucketController
  BucketLifecycleProofs
BucketAcl                      ACL and storage class comparison as pure operators
  BucketAclProofs
  BucketSettings               create and update call by call
    MCBucketSettings
    BucketSettingsProofs       (also extends BucketAclProofs)
ProviderConfigController       the ProviderConfig controller, and the way of a change to the Buckets
  MCProviderConfigController
  ProviderConfigControllerProofs
ProviderInputs                 endpoint, credentials, hash
Decisions                      BucketAcl, ProviderInputs and BucketErrors on the data they meet
  DecisionProofs               (also extends BucketAclProofs)
ProviderCache                  the client cache and the workers that use it
  MCProviderCache
  ProviderCacheProofs
```

### BucketController

`Reconcile` is cut at each call that leaves the process; `pc` names the call the
worker makes next:

```
idle -Begin-> resolve -> observe -+-> finalize -> idle           no finalizer, no OBS bucket
                                  +-> status                     no finalizer, OBS bucket there
                                  +-> create -> update           finalizer, no OBS bucket
                                  |     +-> dropFinalizer -> status
                                  +-> update -> reobserve -> status
                                  +-> delete [-> purge* -> deleteAgain] -> unfinalize -> idle
any call that fails -> status (patchStatus), then idle; or back to the queue
```

* `cr`, `watch`, `cached`: the API server's Buckets, the versions the informer
  has not seen yet, and the informer's copy, which is what `r.Get` reads (85).
  A write that changes nothing makes no event.
* `queue`: the work queue as a set, since it deduplicates. An error that
  `Reconcile` returns puts the Bucket back.
* `remote`: the OBS buckets: number of objects, `cfg` (the newest generation
  whose settings are all in place), and history fields that no action of the
  controller reads: who made the bucket, and for which Bucket. One that others make
  is "preexisting" if no Bucket of the name has the finalizer stored at that moment
  (the words of the comment at 148), else "outsider".
* `copy`, `err`: the worker's in-memory Bucket and the class of the error on its
  way to `patchStatus`.
* `budget`: how many steps of each disturbing kind are left (see Bounds).

Every call has its failure disjuncts: `Fault`/`ObsFault` without effect, and for
writes also one in which the effect happened and the answer was lost. Errors are
classes: `Transient` (network, 5xx, 408, 409 other than on create, 429), `Rejected` (other 4xx),
`AlreadyExists`, `AlreadyExistsKept` (joined with a failed finalizer removal,
192), `AlreadyExistsGone` (the same when the Bucket is gone by then: the Kubernetes
NotFound in the joined error wins, and the reason is ProviderConfigNotFound),
`NotEmpty` and `NotEmptyHeld` (the early return at 131, not retried),
`NotFound` (second `DeleteBucket` and settings on a vanished bucket: an error
there, though not at 325), `Provider`.

External behaviour, modelled from how the code relies on it: the API server drops
an object being deleted with its last finalizer, refuses a new finalizer on an
object being deleted, increments the generation on a spec change and on deletion;
`MergeFrom` patches carry no resourceVersion, and a list is replaced as a whole,
so finalizers of others may be lost (`Patched`); after a patch the in-memory
object is what the server returned (`dropFinalizer`). A restart lists the API
server afresh and enqueues everything. One worker per controller
(MaxConcurrentReconciles is left at 1).

Abstractions. Spec = generation + `forceDestroy`. Observed generation and
condition are written together and are one record; a message follows its reason;
region, domain name and bucket version are left out of the status comparison
(they follow the ProviderConfig and the bucket). A round of
`deleteAllBucketObjects` (list, delete) is one step: what is written between the
two calls is not on the page, as if written after. A page has any size up to
`PageSize` (1000 in the code, 722) and is truncated when objects remain; the loop
ends with an empty page, or with one that is neither full nor truncated (`LastPage`). The ProviderConfig is usable
or not, and a change of it and its event are one step (its way is in
ProviderConfigController).

`create` has, with `Conflicts`, a disjunct in which the bucket was made and a 409
comes back: `newOBSClient` (`provider_resolver.go` 323-332) leaves the client
library's default number of repeats on, so a request whose answer was lost is
repeated inside the library. (The tests switch this off with
`WithMaxRetryCount(0)`.)

`BucketLifecycle` says what all this amounts to, in four functions of the Bucket:
`request` (absent, active, deleting), `claim` (our finalizer), `owned` and
`foreign` (an OBS bucket the controller made, one that was there first); and in
`others`, how often somebody else may still delete an OBS bucket. The mapping
`Lifecycle` in BucketController reads the four off `cr` and `remote` and `others`
off the budget of drift, so that a deletion by the controller, which needs a
request, is never taken for one by others, which spends;
`ImplementsLifecycle` holds for distinct names and without unexplained conflicts,
which is when the code's finalizer discipline works. Staleness is visible in one
place only: `Make` is allowed for a claimed Bucket whatever the request, since a
deletion may not have reached the informer.

`BucketRelocation` instantiates BucketController once per site, with OBS names
`<<site, bucket>>`, and chooses the instance by the site that the worker's
resolution found. Region and endpoint carry no immutability rule
(`providerconfig_types.go` 25-37), while providerConfigRef does.

### BucketSettings, BucketAcl

`update` (295-316) and its six steps, each cut into its get and its set call;
`want` is the spec the pass read, `remote` the settings at OBS. What OBS reports
is spelled in its own way: two names for a storage class (`ClassNames`), grants
in any order with long or short URIs (`GrantLists`); `Same` collects the verdicts
the comparison may come to. 404 counts as "nothing configured" for tags and
encryption only (539, 551, 584), and encryption of a parallel file system reads
as none and cannot be set. `start`, `disturbed` and `goneAt` are history. Tag sets,
logging targets and KMS keys are compared as a whole in the code and are values
here. A Bucket without versioning asks for Suspended, so the first pass over a new
bucket always sets it. The observation after update (207) ends every pass that met
no error; its result is not looked at.

`BucketAcl` works on lists of grants as the code does. `Decisions` builds each
list twice, as meant and as OBS spells it, and compares the code's verdict on the
second with the plain meaning of the first.

### BucketErrors

In Go errors are trees. An error is modelled by what the code's walks over its tree
come to: what `errors.Is` and `errors.As` find (`found`), whether it joins others
(`joined`), and the verdict of `isUserCorrectableBucketError` (`correctable`). Each is
worked out from the errors it wraps (`Around`) or joins (`Join`, left to right), one
level at a time, which is how the recursion in the code goes. The actions build the
errors of each site in the code and give the class BucketRules assigns to them, for
OBS answers by what the status means; the invariants compare. The sites of a
resolution are kept apart (ProviderConfig, Secret, credentials, endpoint, all else),
since each has a reason of its own; BucketRules knows one reason for them (`Coarse`).
OBS calls take no context, so only Kubernetes calls and the checks of `ctx.Err()`
end with it; those checks return the error bare (670,
`providerconfig_controller.go` 133). One case the recursion (777-792) gets wrong cannot come
up: a wrapper around a wrapper around a mixed join would be judged by
`errors.Is`, which finds the correctable part; the code wraps no join twice.

### ProviderConfigController

Two workers. The ProviderConfig controller: `Begin` (read the informer's copy),
`ResolveProviderConfigObject` (Secret from the API server), `validateProviderClient`
(ListBuckets), `updateProviderConfigStatus`. The Bucket controller, cut down to
what credentials decide: read, resolve, one call. `secretEvents` are undelivered
events of the metadata watch; `watch`, `cached`, `queue`, `bQueue` as in
BucketController. A ProviderConfig event goes to both queues.

The observed revision is a tuple of what the code hashes (UID, generation, Secret
name, resourceVersion; region and endpoint follow from the generation), or empty
when the resolution failed. The status comparison is against the worker's copy, and
`Merged` sends only what differs from it. Every patch has a new
LastValidationTime with a resolution of a second, so a patch that changes nothing
else may or may not be an event. A flake is a failure of the Secret read or of
ListBuckets that passes; a mishap is any other failed call, a restart or an event of
the Bucket's own. The context that `validateProviderClient` looks at ends only with
the manager, and then no status is written: that is `Restart`. `outcome` tells "Ready" from "ReadyEarly", reached while the
ProviderConfig's status told of no revision (history). `FreshMessages` gives each error answer of OBS its own text (one bit
that differs from the stored one is enough).

### ProviderInputs

An endpoint is its parts (padding, scheme, host, path, query or fragment), Secret
values are short sequences over letters and white space; SHA-256 is taken as
injective, so what is hashed stands for the hash. A NUL byte inside a value, which
no credential has, is excluded.

### Decisions

The decisions have no state of their own. `Decisions` gives each its data: a list of
grants that grows, an endpoint, a Secret, an error at some site. `about` picks one of
them for a behaviour, so that the state space is their sum and not their product.

### ProviderCache

Each worker (`Reconcilers`; those in `Validators` belong to the ProviderConfig
controller) goes through read ProviderConfig, read Secret, `get`, build, `set`,
close, use, and on an error the validator through invalidate and close. A section
under the mutex is one step; closing is another, since the code closes after
`Unlock`. A `cacheKey` is a pair of versions: what the ProviderConfig adds (UID,
region, endpoint) and what the Secret adds (UID, hash). The name in
`credentialsSecretRef` is fixed per ProviderConfig. Parsing either yields a key
or fails. `updateProviderConfigStatus` is present by its event: the controller
has no predicate, so a status that changed brings the ProviderConfig back.
A Bucket worker may start at any time (some Bucket event), the validator serves
its queue.

## Runs

| Run | Checks | Instance | Distinct states |
|---|---|---|---|
| `lifecycle` | TypeOK, OwnedHasFinalizer, ReadyMeansApplied, DeleteOnlyOnRequest, ImplementsLifecycle | 1 Bucket, 3 user steps (create, delete, re-create, edit), deletion at OBS, 2 objects in pages of up to 2, a failed or rejected call, restart | 1.8 M |
| `convergence` (FairSpec) | NothingForgotten, UnclaimedLeftAlone, SettingsConverge, EventuallyQuiet, DeletionCompletes | 1 Bucket, 2 user steps, provider event, 2 object writes, others create or delete its OBS bucket, conflicts, fault | 0.68 M |
| `settings` (FairSpec) | TypeOK, PassConforms, PrefixDone, SetsOnlyDifferences, MissingNoticed, SettingsReached | 5 specs; 1 edit or event, drift, deletion, fault, restart | 0.49 M |
| `cache` | TypeOK, NoLeak, ClosedOnce, CachedOpen, UsesOwnInputs | 1 ProviderConfig, 2 versions, 3 clients, 2 workers; symmetric clients and versions | 0.37 M |
| `chain` | TypeOK, ConditionIsCurrent, ChangesReachBuckets | 1 ProviderConfig written twice, 1 Secret written twice, 1 Bucket, a flake, a mishap | 4.3 M |
| `resting` (FairSpec) | ConditionIsCurrent, ChangesReachBuckets, Rests | 1 ProviderConfig written twice, 2 Secrets one of which is written, 1 Bucket, a flake, a mishap | 1.1 M |
| `decisions` | FlattenExact, AdmittedResolves, SpellingsShareKey, HashTellsApart, RetriesAgree, ReasonsAgree, ProviderReasonsAgree | lists of up to 4 of 8 grants in 2 spellings; 14 statuses and 7 codes at every site; endpoints of all shapes over 2 hosts; values of up to 2 characters | 0.14 M |
| `shared`, `adoption`, `reporting`, `orphan`, `hotloop` | one property each, violated | small | see Findings |

What they show. `lifecycle`: the controller's finalizer discipline works, for one
Bucket with a name of its own, against stale copies, lost answers and restarts, and
so implements `BucketLifecycle`. `convergence`: a bucket that is there before a claim
is decided on stays unclaimed and untouched (one that appears between that decision
and the finalizer does not, see `adoption`), and the controller gets done what it can
without ever spinning; `NothingForgotten` is the safety half of that: it never rests
with something left to do. `settings`: no order of
interference makes a pass report settings it did not establish. `cache`: two
reconcilers on one cache neither leak nor close twice nor mix up clients. `chain`
and `resting`: two controllers that only know each other through one status field
end, and end with the truth, up to the failures named below, in `resting` also when
the ProviderConfig's reference moves to another Secret. `decisions`: the
abstract classes the other modules use are what the code computes.

Bounds. `Budget` caps each kind of disturbance (user steps, provider events,
object writes, deletions and creations at OBS, faults, restarts); it is part of
the guards of those steps only, so the controller itself is never cut short. Three
user steps are enough for create - delete - create again, the case in which a
stale copy speaks of an earlier Bucket of the same name. `MaxLag = 2`
undelivered versions let the informer miss both a deletion and the re-creation;
a write waits when the limit is reached. `PageSize = 2` with two objects
(`lifecycle`) makes pages full, short, truncated and empty; the second of two writes
(`convergence`) can fall between the purge and the second DeleteBucket, which then
fails. Two workers and three clients give the cache two
concurrent builds of one key and one replacement. Generations and UIDs are
bounded by the user steps. A second Bucket matters only where the name is shared
(`shared`), since Buckets meet nowhere but in the queue; the theorems cover any
number.

For the settings, one disturbance of each kind suffices to fall between any two of
the fourteen calls of a pass; a second pass then has to repair it. Lists of
four grants exceed every canned ACL by one and allow a duplicate in place of each
grant. Two writes of the Secret and two of the ProviderConfig (create, then edit or
delete) let either change between the read, the validation and the patch of a pass.
The statuses of `decisions` are those the code names and both sides of each
boundary.

Deadlock is not checked in the controllers' runs: once the budget is spent a quiet
controller has no step left, which is the intended end. It is checked in the
cache runs, where users may always act.

Fairness (`FairSpec`). Weak fairness of watch delivery and of the worker's calls
(a remote call returns or times out); strong fairness of `Begin(b)`, since the
queue is served in order and a queued Bucket is therefore taken eventually even
if it leaves and re-enters the queue. For `Rests` less is enough: weak fairness of
delivery and of each of the two workers as a whole. Users, other OBS clients, faults and
restarts have none. Retries back off exponentially in the code, which affects
when and not whether.

Conditions in the properties, each because the code does not do better:

* `OwnedHasFinalizer`, `DeleteOnlyOnRequest` and `ImplementsLifecycle` are checked
  without foreign creations and without conflicts of other causes
  (`OutsidersCreate`, `Conflicts`). With `Conflicts` the first is false: any 409 of
  CreateBucket removes the finalizer (184-187, 1111), also one that the client
  library's repeat of a request with a lost answer meets, and the OBS bucket just
  made is left without one, to stay behind when the Bucket is deleted. `SettingsConverge`,
  checked with conflicts, leaves out a Bucket whose OBS bucket was disowned in this way.
  The instance of `lifecycle` with `Conflicts = TRUE` shows it.
* `UnclaimedLeftAlone` counts a name as claimed from the moment the worker decides
  to add the finalizer, not from the moment it is stored; with the latter it is
  `PreexistingUntouched`, which `adoption` shows to be false.
* `ReadyMeansApplied` and `SettingsConverge` speak of runs in which nobody deleted
  or created the OBS bucket behind the controller's back (`NoDrift`), which the code
  cannot see without an event (README of the repository, line 160).
* `NothingForgotten` and `SettingsConverge` exclude requests that OBS refuses for good
  (`Rejections`): the code reports these and waits for the user.
* `MissingNoticed`: a bucket that vanishes in the last settings step or after it is
  reported Ready, since the second observation's result is not used (207-212).
* `ConditionIsCurrent` allows a condition that tells of a flake: the ProviderConfig
  controller does not retry (128), and when the status said the same before, no
  patch, hence no event, follows. One flake after a real denial is enough.
* `ChangesReachBuckets` speaks of at most one flake, since a second equal one is no
  event for the Buckets either; and of a withdrawn Secret only if the status told
  of a revision when the Bucket became Ready: the revision is empty for every
  failed resolution (92), so a Secret that came and went unseen leaves the status as
  it was and a Bucket that used it meanwhile Ready.
* `Rests` assumes that equal failures have equal texts; `hotloop` drops that.
* In the cache, a resolution that began before a ProviderConfig was deleted may
  re-fill the entry after the invalidation (`provider_resolver.go` 195); it stays
  until a ProviderConfig of that name comes back, and no property excludes it.

## Proofs

TLAPS proves for all values of the constants (any number of Buckets, names,
reconcilers, clients, Secrets, ProviderConfigs; any bounds; any budget), from
the modules' assumptions on constants alone except where `Exclusive` or `Separate` is
named. Each inductive
invariant below was first checked by TLC on the instance of the run.

`BucketControllerProofs`

* `TypeCorrect`: `TypeOK`.
* `LeavesUnclaimedAlone` (`UnclaimedLeftAlone`): an OBS bucket whose name nobody
  claims is not changed or deleted by the controller, and does not get claimed while
  it exists. Claimed means that a Bucket of the name carries the finalizer in the API
  server, in an undelivered version, in the informer or in the worker's copy, or that
  the worker is on its way to add it. All these places are needed: a stale version in
  any of them would let a later reconcile create, update or delete. The action property
  follows step by step from `TypeOK` and `CopyTracked` (a copy that is being deleted
  carries our finalizer, by the early return at 93); the key step is `observe`, which
  sends an unclaimed Bucket to `status` when the OBS bucket is there. The theorem does
  not assume distinct names.
* `NoReconcileMissing` (`NothingForgotten`), assuming `Separate`: every Bucket has an
  OBS name of its own and OBS refuses nothing for good. Foreign creations, conflicts,
  failures and restarts are all allowed, and the instance of `convergence` satisfies
  it. A reconcile of a Bucket is owed (`Owed`) when it is in the queue or an undelivered
  version differs from the informer's in something the predicate looks at
  (`Pending`). The inductive invariant `RestInv` says of every Bucket: the
  undelivered versions lead from the informer's to the API server's, and each step
  among them that matters to Reconcile passes the predicate (`Told`); unless a reconcile
  is owed, the worker's copy is the stored Bucket but for its status, and what it has
  concluded from it still stands (`Fresh`); and a Bucket that is neither in the worker's hands nor
  owed a reconcile is provided for and released (`Rests`). With it go the shape of
  copies and errors at each call (`Shape`) and that the budget of drift only shrinks.
  `NothingForgotten` by itself is far from inductive: it says nothing before the
  controller is idle. The argument is that a step either owes a reconcile for what it
  changes or changes nothing the predicate looks at (`Preserved`), so a reconcile
  that ends with nothing owed acted on the truth; and then its last call decides:
  an error is retried, since all that are not need a user or a provider.

`BucketOwnershipProofs`

* Assumption `Exclusive`: every Bucket has an OBS name of its own, nobody else
  creates buckets of these names and CreateBucket meets no conflict of another
  cause. Without it the statements are false (`shared`, and the first item under
  "Conditions" above); the instance of `lifecycle` satisfies it.
* The argument is by the order of versions. A Bucket goes through stages: active
  without and with our finalizer, deleting with and without it, gone, then the next
  life with a higher UID (`Stage`, `NotAfter`). Whatever the worker or the informer
  holds is not after what the API server stores (`LifeSound`); so a copy with the
  finalizer either belongs to a Bucket that still has it, or to one whose OBS bucket
  is gone. `PlaceSound` says what the worker has found out on its way to each call:
  above all that it releases only after it saw the OBS bucket gone, and that only
  it could have made another. The inductive invariant `Ownership` is `NoAdoption`
  (`TypeOK`, `CopyTracked`, and that a bucket which was there from the start has no
  claim on it: here nobody creates one in the window of `adoption`), `PlaceSound`,
  `LifeSound` of every Bucket and `OwnerSound` of every name.
* `NoneLeftBehind` (`OwnedHasFinalizer`), `NeverDeletesUnasked`
  (`DeleteOnlyOnRequest`), `LifecycleImplemented` (`ImplementsLifecycle`: the initial
  states map to initial states, and each of the controller's steps to a step of
  `BucketLifecycle` or a stutter).
* `ReadyIsTrue` (`ReadyMeansApplied`): the invariant `Reporting` adds `Applied`
  (between update and patchStatus the settings are those of the copy) and
  `GensBehind` (no version with the finalizer that may still be acted on is older
  than the settings in place, so that no later update goes back).

`BucketLifecycleProofs`

* `AlwaysTracked`: in the abstract specification every OBS bucket the controller
  made is claimed by an existing Bucket, and nothing foreign is claimed.

`BucketAclProofs`, `BucketSettingsProofs`

* `MatchIsExact`: a list that `obsBucketACLMatches` accepts holds exactly the
  expected grants, each once, whatever its length. The code tests equal lengths
  and one inclusion; equality follows by counting: the list maps onto a finite
  set that includes the expected one and is no larger.
* `RecognisedExactly`: on every list in which OBS may report a set of grants,
  `flattenObsBucketCannedACL` yields a canned ACL exactly if the grants are its.
  From `MatchIsExact`, and from the canned ACLs being pairwise different.
* `SettingsTyped` (`TypeOK`), `PrefixIsDone` (`PrefixDone`), `PassEndsConforming`
  (`PassConforms`), `NothingSetTwice` (`SetsOnlyDifferences`), `VanishingIsNoticed`
  (`MissingNoticed`). The inductive invariant `PassSound` says of an undisturbed pass
  that the bucket is there, the settings behind the step are in place, those ahead
  are as found, and what is about to be set was found to differ; of a pass whose
  bucket vanished, that only the step that reads tags leads on after it, and only
  to the next one. `RecognisedExactly` is what makes "found to differ" mean it.

`ProviderConfigControllerProofs`

* `ConfigsTyped` (`TypeOK`). `ConstantAssumptions` asks for one Secret name at
  least: credentialsSecretRef is a required field.
* `ConditionStaysCurrent` (`ConditionIsCurrent`). The invariant `Reporting` is "a
  status that nobody is going to look at again is current", with the same for what
  the worker holds: the last undelivered version is the stored one (`InStep`); unless
  an event is under way, the worker's copy is the stored ProviderConfig
  (`CopyFresh`), and what it read or concluded is about the Secret as it is
  (`ReadFresh`). A step of anybody else owes a reconcile for all that it changes and
  takes none back (`Owed`); that one notion covers all of them. The patch against a
  stale copy is harmless since the event that made it stale is still to come.
* `ChangesReachEveryBucket` (`ChangesReachBuckets`). `Reaching` adds: no revision
  tells of a state of a Secret still to come (`RevisionsKnown`; resourceVersions only
  grow), so a status that is current was written after the Secret's last change and
  its event brought the Buckets back; a Bucket nobody is going to reconcile again
  says what the Secret that its status tells of implies (`OutcomeCurrent`, `BFresh`);
  and after one flake a failed resolution does not stay in a status, since the status
  that tells of it is itself an event, and the next resolution succeeds
  (`FlakesCounted`).

`ProviderCacheProofs`

* `TypeCorrect`; `NothingLeaks` (`NoLeak`); `CloseIsSafe` (`ClosedOnce`);
  `CachedStaysOpen` (`CachedOpen`); `ResolvesOwnInputs` (`UsesOwnInputs`). The
  inductive invariant `Inv` is `Sound` (a worker holds the inputs its place implies;
  each cached client was built for its entry's key) and `Custody` (every client is in
  one pair of hands: cached under one ProviderConfig, fresh with one worker, to be
  closed by one worker, or closed).

`DecisionProofs`

* `FlattenIsExact` (`FlattenExact`), for lists of any length. The invariant: each grant
  as reported has the signature of the grant as meant, position by position, since
  `normalizeObsBucketGrantURI` undoes both spellings. The rest is `MatchIsExact` and that
  the canned ACLs are pairwise different.
* `AdmittedIsResolved` (`AdmittedResolves`), `SpellingsHaveOneKey` (`SpellingsShareKey`),
  for any set of hosts; `HashIsUnique` (`HashTellsApart`), for texts of any length over any
  letters without NUL: the last separator in what is hashed is where the last value
  begins, and so on for the one before (`SplitLast`).
* `RetriesAsClassified`, `ReasonsAsClassified`, `ProviderReasonsAsClassified`
  (`RetriesAgree`, `ReasonsAgree`, `ProviderReasonsAgree`), for answers of any status in
  Nat and any further codes. The inductive invariant `ErrorsSound` adds that the error of
  a conflict is what `create` built, since the joined error is made of it a step later.
  An error without a join among its parts is decided by what is found in it
  (`Plainly`), and wrapping preserves that; a join is decided part by part. For the
  reasons of an unusable ProviderConfig, what can be found in the error of each site
  is listed (`Complaints`), and the ordered cases of both conditions are gone through.

Only model-checked: the liveness properties (`SettingsConverge`, `EventuallyQuiet`,
`DeletionCompletes`, `SettingsReached`, `Rests`), since fairness is outside the proof
system's reach. `NothingForgotten` is what can be proved of the first and the third: a
controller that rests has done what they ask for; that it comes to rest is
`EventuallyQuiet`. The variant `BucketRelocation` exists for its finding and has no
theorems.

## Findings

Five runs show the code doing other than a line of the repository says
(`PROJECT.json`, "findings", quotes both):

* `shared`: two Buckets of one name in two namespaces both add their finalizer
  before either creates; both then manage one OBS bucket, and deleting either
  deletes it.
* `adoption`: an OBS bucket that another client creates after `observe` found none
  and before the finalizer patch landed is taken for the controller's own: the next
  reconcile overwrites its settings and reports Ready, and deleting the Bucket deletes
  it. The comment at 148 says that such a bucket is unmanaged.
* `reporting`: a status that equals the informer's stale copy is not written
  (893), so a failure can go unreported until the next event.
* `hotloop`: the condition carries the whole text of the error (226), which has
  OBS's request id; with refused credentials every status patch is a change and an
  event for the controller itself, for ever.
* `orphan`: after an edit of the ProviderConfig's region or endpoint the deletion of
  a Bucket looks at the new site only, and the OBS bucket made at the old one stays
  behind. (In the same way the finalizer is taken for ownership of a bucket of that
  name that the new site happens to have.)

## Not modelled

Log output, the domain name in the status, enterpriseProjectID (passed on by
create and never compared), length limits of the CRDs, generated code, manifests,
metrics, probes and TLS options. Leader election is a library's. A call whose answer
is lost has taken effect at once or never does: one that takes effect later, sent by
a manager that has lost its lease (`cmd/main.go` 165) or given up by a timeout, is not
modelled; a CreateBucket that lands after the Bucket's deletion completed would leave
an OBS bucket that nothing tracks. What closing a client does to calls
in flight (`cache.go` 74) is the OBS library's behaviour: the model shows that it
happens, and says nothing of what follows.

## State and plan

All components with logic of their own are modelled; every invariant and action
property that a passing run checks is also proved, and so is the refinement. What could be
added: a proof of the liveness properties once the proof system handles fairness (the
invariants they need, `RestInv` above all, are there), and a model of the client
library's `Close`, which decides whether the interleaving at `cache.go` 74 matters.
