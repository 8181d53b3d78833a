----------------------- MODULE ProviderConfigController -----------------------
(***************************************************************************)
(* The ProviderConfig controller (internal/controller/                     *)
(* providerconfig_controller.go) and the way of a change to the Buckets: a *)
(* Secret's event brings its ProviderConfigs to this controller, the status *)
(* it writes is an event for the Buckets that refer to them, and a Bucket   *)
(* whose failure a user has to correct is reconciled again only then.      *)
(*                                                                         *)
(* Abstractions.  The data of a Secret is missing, incomplete, denied by    *)
(* OBS or good, at a resourceVersion that only grows.  A Bucket always      *)
(* exists, and a reconcile of it is its resolution and one OBS call; what   *)
(* else it does is in BucketController, the client cache in ProviderCache.  *)
(***************************************************************************)
EXTENDS Naturals, Sequences

CONSTANTS
    Configs,        \* ProviderConfigs (namespace and name)
    Secrets,        \* Secrets of the same namespace
    Buckets,        \* Buckets
    ConfigOf,       \* providerConfigRef of each Bucket: immutable
    Nobody,         \* neither a ProviderConfig nor a Bucket
    FreshMessages,  \* whether each error answer of OBS has a text of its own
    MaxLag,         \* bound: undelivered watch events per ProviderConfig
    Budget          \* bound: how often each kind of environment step happens

(* Users change a ProviderConfig or a Secret; reading a Secret or ListBuckets *)
(* fails for a while (a flake); other calls fail, the manager restarts or a  *)
(* Bucket has an event of its own (a mishap).                              *)
Kinds == {"config", "secret", "flake", "mishap"}

ASSUME ConstantAssumptions ==
    /\ Secrets # {}
    /\ ConfigOf \in [Buckets -> Configs]
    /\ Nobody \notin Configs \cup Buckets
    /\ FreshMessages \in BOOLEAN
    /\ MaxLag \in Nat
    /\ Budget \in [Kinds -> Nat]

VARIABLES
    secret,        \* the Secrets in the API server
    secretEvents,  \* Secrets with an undelivered event of the metadata watch
    config,        \* the ProviderConfigs in the API server
    watch,         \* versions of a ProviderConfig not yet seen by the informer
    cached,        \* the informer's copy, which both controllers read
    queue,         \* the ProviderConfig controller's work queue
    at,            \* the call its worker makes next
    cur,           \* the ProviderConfig it reconciles
    copy,          \* its in-memory ProviderConfig
    read,          \* the Secret it read
    verdict,       \* the outcome on its way to the status
    bQueue,        \* the Bucket controller's work queue
    bAt,           \* the call its worker makes next
    bCur,          \* the Bucket it reconciles
    bRef,          \* the Secret its ProviderConfig refers to
    bRead,         \* the credentials it read
    outcome,       \* each Bucket's last reconcile
    budget         \* environment steps left

worker  == <<at, cur, copy, read, verdict>>
bWorker == <<bAt, bCur, bRef, bRead>>
api     == <<config, watch>>
vars    == <<secret, secretEvents, config, watch, cached, queue, worker,
             bQueue, bWorker, outcome, budget>>

-----------------------------------------------------------------------------
(* Objects.                                                                *)

Data == {"missing", "incomplete", "denied", "good"}
Secret == [data : Data, rv : Nat]
NoSecret == [data |-> "missing", rv |-> 0]

Reasons == {"none", "ClientValidated", "CredentialsSecretNotFound",
            "CredentialsSecretInvalid", "ClientValidationFailed", "ClientBuildFailed"}

(* ObservedProviderRevision: a hash of what the client was built from, or    *)
(* empty.                                                                  *)
NoRevision == <<>>
Revisions == {NoRevision} \cup (Nat \X Nat \X Secrets \X Nat)

Condition == [reason : Reasons, gen : Nat, msg : {0, 1}]
Verdict == [reason : Reasons, msg : {0, 1}, rev : Revisions]
Status == [gen : Nat, rev : Revisions, cond : Condition]
NoStatus == [gen |-> 0, rev |-> NoRevision, cond |-> [reason |-> "none", gen |-> 0, msg |-> 0]]

(* A ProviderConfig; generation 0 stands for one that does not exist.       *)
ProviderConfig == [uid : Nat, gen : Nat, ref : Secrets, status : Status]
Present(o) == o.gen > 0

(* Mutant of observedProviderRevision: the Secret's name is left out.         *)
revisionWithoutName(o, s) == <<o.uid, o.gen, s.rv>>

observedProviderRevision(o, s) == <<o.uid, o.gen, o.ref, s.rv>>

-----------------------------------------------------------------------------
(* The API server, the two watches and the work queues.                    *)

Spend(k) == budget[k] > 0 /\ budget' = [budget EXCEPT ![k] = @ - 1]

Write(c, o) ==
    /\ Len(watch[c]) < MaxLag
    /\ config' = [config EXCEPT ![c] = o]
    /\ watch' = [watch EXCEPT ![c] = Append(@, o)]

(* Mutant of bucketsForProviderConfig: the index is kept under another key.  *)
bucketsForNobody(c) == {}

bucketsForProviderConfig(c) == {b \in Buckets : ConfigOf[b] = c}

(* Mutant of providerConfigsForSecret: edits of the reference are not indexed. *)
configsAsCreated(s) == {c \in Configs : cached[c].gen = 1 /\ cached[c].ref = s}

providerConfigsForSecret(s) == {c \in Configs : Present(cached[c]) /\ cached[c].ref = s}

(* Mutant of Enqueues: a GenerationChangedPredicate on the ProviderConfigs.  *)
EnqueuesGenerations(old, new) == old.uid # new.uid \/ old.gen # new.gen

(* Which events of a ProviderConfig reach its own controller: there is no    *)
(* predicate, all of them do.                                              *)
Enqueues(old, new) == TRUE

(* An event of a ProviderConfig: for its own controller, and through        *)
(* bucketsForProviderConfig for the Buckets.                               *)
Deliver(c) ==
    /\ watch[c] # <<>>
    /\ cached' = [cached EXCEPT ![c] = Head(watch[c])]
    /\ watch' = [watch EXCEPT ![c] = Tail(@)]
    /\ queue' = IF Enqueues(cached[c], Head(watch[c])) THEN queue \cup {c} ELSE queue
    /\ bQueue' = bQueue \cup bucketsForProviderConfig(c)
    /\ UNCHANGED <<secret, secretEvents, config, worker, bWorker, outcome, budget>>

(* An event of a Secret: for the ProviderConfigs that refer to it, as far    *)
(* as the informer knows.                                                  *)
DeliverSecret(s) ==
    /\ s \in secretEvents
    /\ secretEvents' = secretEvents \ {s}
    /\ queue' = queue \cup providerConfigsForSecret(s)
    /\ UNCHANGED <<secret, api, cached, worker, bQueue, bWorker, outcome, budget>>

-----------------------------------------------------------------------------
(* Users.                                                                  *)

UserWrite(c, o) ==
    /\ Spend("config") /\ Write(c, o)
    /\ UNCHANGED <<secret, secretEvents, cached, queue, worker, bQueue, bWorker, outcome>>

CreateProviderConfig(c) ==
    /\ ~Present(config[c])
    /\ \E s \in Secrets :
          UserWrite(c, [uid |-> config[c].uid + 1, gen |-> 1, ref |-> s, status |-> NoStatus])

EditProviderConfig(c) ==
    /\ Present(config[c])
    /\ \E s \in Secrets : UserWrite(c, [config[c] EXCEPT !.gen = @ + 1, !.ref = s])

DeleteProviderConfig(c) ==
    /\ Present(config[c])
    /\ UserWrite(c, [config[c] EXCEPT !.gen = 0, !.status = NoStatus])

(* A Secret is created, changed, touched or deleted.                       *)
ChangeSecret(s) ==
    /\ Spend("secret")
    /\ \E d \in Data : secret' = [secret EXCEPT ![s] = [data |-> d, rv |-> @.rv + 1]]
    /\ secretEvents' = secretEvents \cup {s}
    /\ UNCHANGED <<api, cached, queue, worker, bQueue, bWorker, outcome>>

(* An event of the Bucket itself.                                          *)
BucketEvent(b) ==
    /\ Spend("mishap")
    /\ bQueue' = bQueue \cup {b}
    /\ UNCHANGED <<secret, secretEvents, api, cached, queue, worker, bWorker, outcome>>

-----------------------------------------------------------------------------
(* Reconcile of the ProviderConfig controller.                             *)

Idle ==
    /\ at' = "idle" /\ cur' = Nobody /\ read' = NoSecret
    /\ copy' = [uid |-> 0, gen |-> 0, ref |-> CHOOSE s \in Secrets : TRUE, status |-> NoStatus]
    /\ verdict' = [reason |-> "none", msg |-> 0, rev |-> NoRevision]

Return(requeue) == Idle /\ queue' = IF requeue THEN queue \cup {cur} ELSE queue

(* The verdict goes to updateProviderConfigStatus.  Unless the resolution    *)
(* failed, the revision is what it was made from.                          *)
Report(reason, msg, rev) ==
    /\ at' = "status" /\ verdict' = [reason |-> reason, msg |-> msg, rev |-> rev]

(* A ProviderConfig that is gone only has its clients invalidated.         *)
Begin(c) ==
    /\ at = "idle" /\ c \in queue /\ queue' = queue \ {c}
    /\ \/ /\ Present(cached[c])
          /\ at' = "resolve" /\ cur' = c /\ copy' = cached[c] /\ UNCHANGED <<read, verdict>>
       \/ ~Present(cached[c]) /\ UNCHANGED worker
    /\ UNCHANGED <<secret, secretEvents, api, cached, bQueue, bWorker, outcome, budget>>

(* The Secret is read from the API server, not from a cache.                *)
ResolveProviderConfigObject ==
    /\ at = "resolve"
    /\ LET s == secret[copy.ref] IN
       \/ /\ s.data \in {"denied", "good"} /\ UNCHANGED budget
          /\ at' = "validate" /\ read' = s /\ UNCHANGED verdict
       \/ /\ s.data = "missing" /\ UNCHANGED <<read, budget>>
          /\ Report("CredentialsSecretNotFound", 0, NoRevision)
       \/ /\ s.data = "incomplete" /\ UNCHANGED <<read, budget>>
          /\ Report("CredentialsSecretInvalid", 0, NoRevision)
       \/ /\ Spend("flake") /\ UNCHANGED read
          /\ Report("ClientBuildFailed", 0, NoRevision)
    /\ UNCHANGED <<secret, secretEvents, api, cached, queue, cur, copy, bQueue, bWorker, outcome>>

(* The text of an error answer of OBS: with its request id it is never the   *)
(* text of an earlier one.                                                 *)
Text == IF FreshMessages THEN 1 - copy.status.cond.msg ELSE 0

(* ListBuckets with the client; then providerConfigReadyCondition.  (The     *)
(* context ends only with the manager, and the patch with it: Restart.)    *)
validateProviderClient ==
    /\ at = "validate"
    /\ LET rev == observedProviderRevision(copy, read) IN
       \/ read.data = "good" /\ Report("ClientValidated", 0, rev) /\ UNCHANGED budget
       \/ read.data = "denied" /\ Report("ClientValidationFailed", Text, rev) /\ UNCHANGED budget
       \/ Spend("flake") /\ Report("ClientValidationFailed", Text, rev)
    /\ UNCHANGED <<secret, secretEvents, api, cached, queue, cur, copy, read, bQueue, bWorker,
                   outcome>>

NextStatus ==
    [gen |-> copy.gen, rev |-> verdict.rev,
     cond |-> [reason |-> verdict.reason, gen |-> copy.gen, msg |-> verdict.msg]]

(* Mutant of statusChanged: the time of the validation counts as a change.   *)
statusAlwaysChanged(old, new) == TRUE

statusChanged(old, new) == old # new

(* A merge patch: the fields that differ from the worker's copy.           *)
Merged(server, old, new) ==
    [f \in {"gen", "rev", "cond"} |-> IF old[f] = new[f] THEN server[f] ELSE new[f]]

(* updateProviderConfigStatus.  Every patch carries a new                   *)
(* LastValidationTime, in seconds; one that changes nothing else is an       *)
(* event unless the second is the same.  Reconcile does not return the       *)
(* error that the status tells of: only a failed patch is retried.         *)
updateProviderConfigStatus ==
    LET o       == config[cur]
        patched == [o EXCEPT !.status = Merged(@, copy.status, NextStatus)]
    IN
    /\ at = "status"
    /\ \/ ~statusChanged(copy.status, NextStatus) /\ Return(FALSE) /\ UNCHANGED <<api, budget>>
       \/ /\ statusChanged(copy.status, NextStatus)
          /\ \/ /\ Present(o)
                /\ Write(cur, patched) \/ (patched = o /\ UNCHANGED api)
                /\ \/ Return(FALSE) /\ UNCHANGED budget
                   \/ Spend("mishap") /\ Return(TRUE)
             \/ ~Present(o) /\ Return(TRUE) /\ UNCHANGED <<api, budget>>
             \/ Spend("mishap") /\ Return(TRUE) /\ UNCHANGED api
    /\ UNCHANGED <<secret, secretEvents, cached, bQueue, bWorker, outcome>>

-----------------------------------------------------------------------------
(* Reconcile of the Bucket controller, as far as credentials go.           *)

BIdle ==
    /\ bAt' = "idle" /\ bCur' = Nobody /\ bRead' = "missing"
    /\ bRef' = CHOOSE s \in Secrets : TRUE

(* A failure the user has to correct is reported and not retried.          *)
BReturn(verdictOf) == BIdle /\ outcome' = [outcome EXCEPT ![bCur] = verdictOf] /\ UNCHANGED bQueue

BBegin(b) ==
    /\ bAt = "idle" /\ b \in bQueue /\ bQueue' = bQueue \ {b}
    /\ LET o == cached[ConfigOf[b]] IN
       \/ /\ Present(o) /\ bAt' = "resolve" /\ bCur' = b /\ bRef' = o.ref
          /\ UNCHANGED <<bRead, outcome>>
       \/ /\ ~Present(o) /\ outcome' = [outcome EXCEPT ![b] = "Failed"]
          /\ UNCHANGED bWorker
    /\ UNCHANGED <<secret, secretEvents, api, cached, queue, worker, budget>>

ResolveBucket ==
    /\ bAt = "resolve"
    /\ \/ /\ secret[bRef].data \in {"denied", "good"}
          /\ bAt' = "call" /\ bRead' = secret[bRef].data
          /\ UNCHANGED <<bCur, bRef, bQueue, outcome>>
       \/ secret[bRef].data \in {"missing", "incomplete"} /\ BReturn("Failed")
    /\ UNCHANGED <<secret, secretEvents, api, cached, queue, worker, budget>>

(* Early, as a history: the ProviderConfig's status told of no revision.     *)
CallVerdict ==
    IF bRead # "good" THEN "Failed"
    ELSE IF config[ConfigOf[bCur]].status.rev = NoRevision THEN "ReadyEarly" ELSE "Ready"

CallObs ==
    /\ bAt = "call"
    /\ \/ BReturn(CallVerdict) /\ UNCHANGED budget
       \/ /\ Spend("mishap") /\ BIdle /\ bQueue' = bQueue \cup {bCur}
          /\ outcome' = [outcome EXCEPT ![bCur] = "Failed"]
    /\ UNCHANGED <<secret, secretEvents, api, cached, queue, worker>>

(* The manager restarts: both informers list, every object is enqueued.     *)
Restart ==
    /\ Spend("mishap")
    /\ Idle /\ BIdle
    /\ cached' = config
    /\ watch' = [c \in Configs |-> <<>>] /\ secretEvents' = {}
    /\ queue' = {c \in Configs : Present(config[c])}
    /\ bQueue' = Buckets
    /\ UNCHANGED <<secret, config, outcome>>

-----------------------------------------------------------------------------
Init ==
    /\ secret = [s \in Secrets |-> NoSecret] /\ secretEvents = {}
    /\ config = [c \in Configs |-> [uid |-> 0, gen |-> 0, ref |-> CHOOSE s \in Secrets : TRUE,
                                    status |-> NoStatus]]
    /\ watch = [c \in Configs |-> <<>>] /\ cached = config
    /\ queue = {} /\ bQueue = Buckets
    /\ at = "idle" /\ cur = Nobody /\ read = NoSecret
    /\ copy = [uid |-> 0, gen |-> 0, ref |-> CHOOSE s \in Secrets : TRUE, status |-> NoStatus]
    /\ verdict = [reason |-> "none", msg |-> 0, rev |-> NoRevision]
    /\ bAt = "idle" /\ bCur = Nobody /\ bRead = "missing" /\ bRef = CHOOSE s \in Secrets : TRUE
    /\ outcome = [b \in Buckets |-> "none"]
    /\ budget = Budget

Reconcile == ResolveProviderConfigObject \/ validateProviderClient \/ updateProviderConfigStatus

BReconcile == ResolveBucket \/ CallObs

Next ==
    \/ \E c \in Configs : \/ Deliver(c) \/ Begin(c)
                          \/ CreateProviderConfig(c) \/ EditProviderConfig(c)
                          \/ DeleteProviderConfig(c)
    \/ \E s \in Secrets : DeliverSecret(s) \/ ChangeSecret(s)
    \/ \E b \in Buckets : BBegin(b) \/ BucketEvent(b)
    \/ Reconcile \/ BReconcile \/ Restart

Spec == Init /\ [][Next]_vars

(* Events are delivered, and each controller's one worker goes on as long as *)
(* its queue or its call gives it something to do.  Users, faults and        *)
(* restarts owe nothing.                                                   *)
Fairness ==
    /\ WF_vars((\E c \in Configs : Deliver(c)) \/ \E s \in Secrets : DeliverSecret(s))
    /\ WF_vars((\E c \in Configs : Begin(c)) \/ Reconcile)
    /\ WF_vars((\E b \in Buckets : BBegin(b)) \/ BReconcile)

FairSpec == Spec /\ Fairness

-----------------------------------------------------------------------------
(* Properties.                                                             *)

(* Every variable has its type, and each worker holds an object exactly     *)
(* while its Reconcile is running.                                         *)
TypeOK ==
    /\ secret \in [Secrets -> Secret] /\ secretEvents \subseteq Secrets
    /\ config \in [Configs -> ProviderConfig] /\ cached \in [Configs -> ProviderConfig]
    /\ watch \in [Configs -> Seq(ProviderConfig)]
    /\ queue \subseteq Configs /\ bQueue \subseteq Buckets
    /\ at \in {"idle", "resolve", "validate", "status"} /\ cur \in Configs \cup {Nobody}
    /\ copy \in ProviderConfig /\ read \in Secret /\ verdict \in Verdict
    /\ bAt \in {"idle", "resolve", "call"} /\ bCur \in Buckets \cup {Nobody}
    /\ bRef \in Secrets /\ bRead \in Data
    /\ outcome \in [Buckets -> {"none", "Ready", "ReadyEarly", "Failed"}]
    /\ budget \in [Kinds -> Nat]
    /\ (at = "idle" <=> cur = Nobody) /\ (bAt = "idle" <=> bCur = Nobody)

(* A Bucket can work: its ProviderConfig exists and its credentials do.     *)
Usable(b) ==
    LET o == config[ConfigOf[b]] IN Present(o) /\ secret[o.ref].data = "good"

(* The credentials cannot even be read, so there is no revision.           *)
Unresolvable(b) ==
    LET o == config[ConfigOf[b]] IN Present(o) /\ secret[o.ref].data \in {"missing", "incomplete"}

(* No event is under way and both controllers are idle.                    *)
AtRest ==
    /\ secretEvents = {} /\ \A c \in Configs : watch[c] = <<>>
    /\ queue = {} /\ at = "idle" /\ bQueue = {} /\ bAt = "idle"

(* A change of a Secret or a ProviderConfig has reached the Buckets once the  *)
(* controllers come to rest: a Bucket with readable credentials is Ready if  *)
(* and only if they are good, one without a ProviderConfig is not, and one   *)
(* whose Secret was withdrawn is not if the status told of a revision when   *)
(* it became Ready; though such a failure is not retried, the Bucket         *)
(* controller does not watch Secrets but the ProviderConfig's status, and    *)
(* the ProviderConfig controller may not have seen the state in which the    *)
(* Bucket was last.  (After one flake at most: a second one that repeats     *)
(* what the status says is no event, neither for the Buckets.)             *)
ChangesReachBuckets ==
    AtRest /\ budget["flake"] + 1 >= Budget["flake"] => \A b \in Buckets :
        IF Unresolvable(b) THEN outcome[b] # "Ready"
        ELSE outcome[b] \in {"Ready", "ReadyEarly"} <=> Usable(b)

(* What providerConfigReadyCondition says of credentials d.                *)
ReasonOf(d) ==
    CASE d = "missing"    -> "CredentialsSecretNotFound"
      [] d = "incomplete" -> "CredentialsSecretInvalid"
      [] d = "denied"     -> "ClientValidationFailed"
      [] d = "good"       -> "ClientValidated"

(* What the status says in place of reason and revision after a flake.      *)
Flaked(status, rev) ==
    /\ budget["flake"] < Budget["flake"]
    /\ \/ status.cond.reason = "ClientBuildFailed" /\ status.rev = NoRevision
       \/ status.cond.reason = "ClientValidationFailed" /\ status.rev = rev

(* At rest the condition, the observed generation and the observed revision *)
(* of a ProviderConfig speak of the Secret and the spec as they are, though *)
(* a status equal to the informer's stale copy is not written and a patch   *)
(* sends only what differs from that copy.  Or they tell of a call that      *)
(* failed for a while: that is not retried, and not even noticed again when  *)
(* the status said the same before.                                        *)
ConditionIsCurrent ==
    AtRest => \A c \in Configs : Present(config[c]) =>
        LET o   == config[c]
            s   == secret[o.ref]
            rev == IF s.data \in {"denied", "good"}
                   THEN <<o.uid, o.gen, o.ref, s.rv>> ELSE NoRevision
        IN /\ o.status.gen = o.gen /\ o.status.cond.gen = o.gen
           /\ \/ o.status.cond.reason = ReasonOf(s.data) /\ o.status.rev = rev
              \/ Flaked(o.status, rev)

(* Without events from outside the controllers do come to rest: the status   *)
(* patch is an event for the controller itself, and so must not be written  *)
(* twice.                                                                  *)
Rests == <>[]AtRest
=============================================================================
