---------------------------- MODULE BucketSettings ----------------------------
(***************************************************************************)
(* create and update of bucket_controller.go call by call: the settings    *)
(* with which an OBS bucket is made, and the six steps that read a setting, *)
(* compare it with the Bucket's spec and set it where it differs.  Users    *)
(* edit the spec, others change single settings or delete the bucket        *)
(* between any two calls, calls fail with or without effect, and the        *)
(* manager restarts.                                                       *)
(*                                                                         *)
(* Abstractions.  A tag set, a logging target and a KMS key are values      *)
(* that are equal or not; the ACL of a bucket is its set of grants, listed  *)
(* in any order.  The Bucket is active and claimed, and the OBS bucket is   *)
(* its own: who may create and delete it is in BucketController.           *)
(***************************************************************************)
EXTENDS BucketAcl, SequencesExt

CONSTANTS
    Specs,      \* the settings a user may ask for
    Tags,       \* tag sets other than the empty one
    Targets,    \* logging configurations (target bucket, prefix, agency)
    Keys,       \* encryption configurations (KMS key, project)
    Budget      \* bound: how often each kind of environment step happens

None == "none"
Kinds == {"edit", "drift", "vanish", "fault", "restart"}
Classes == {"STANDARD", "WARM", "COLD"}

(* spec of a Bucket: storageClass and acl may be left out.                  *)
BucketSpec == [class : Classes \cup {""}, acl : ACLs \cup {""}, versioning : BOOLEAN,
               tags : Tags \cup {None}, logging : Targets \cup {None},
               encryption : Keys \cup {None}, parallelFS : BOOLEAN]

ASSUME ConstantAssumptions ==
    /\ Specs # {} /\ Specs \subseteq BucketSpec
    /\ None \notin Tags \cup Targets \cup Keys
    /\ Budget \in [Kinds -> Nat]

VARIABLES
    spec,       \* the Bucket's spec in the API server
    pending,    \* whether the Bucket is on the work queue
    remote,     \* the OBS bucket's settings
    place,      \* the call the worker makes next
    step,       \* the step of update it is in
    want,       \* the spec it read
    result,     \* what the last pass ended with
    start,      \* history: the settings when update began
    disturbed,  \* history: others interfered since the pass began
    goneAt,     \* history: the step during which the bucket vanished
    budget      \* environment steps left

history == <<start, disturbed, goneAt>>
vars == <<spec, pending, remote, place, step, want, result, history, budget>>

-----------------------------------------------------------------------------
(* Settings of an OBS bucket.                                              *)

Owner == "owner"
Stranger == Signature("User", "stranger", "", "FULL_CONTROL", FALSE)
AclStates == {CannedGrants(acl, Owner) : acl \in ACLs} \cup {{ownerGrant(Owner), Stranger}}

(* The values each setting may have.                                       *)
Values == [class |-> Classes, acl |-> AclStates, versioning |-> {"", "Enabled", "Suspended"},
           tags |-> Tags \cup {None}, logging |-> Targets \cup {None},
           encryption |-> Keys \cup {None}]
Settings == [class : Values.class, acl : Values.acl, versioning : Values.versioning,
             tags : Values.tags, logging : Values.logging, encryption : Values.encryption,
             parallelFS : BOOLEAN]
Missing == [class |-> None]
Exists == remote # Missing

(* The steps of update, in order.                                          *)
Steps == <<"class", "acl", "versioning", "tags", "logging", "encryption">>

(* The value a spec asks for in each step.                                 *)
Asked(o, s) ==
    CASE s = "class"      -> normalizeStorageClass(bucketStorageClass(o.class))
      [] s = "acl"        -> CannedGrants(bucketACL(o.acl), Owner)
      [] s = "versioning" -> IF o.versioning THEN "Enabled" ELSE "Suspended"
      [] s = "tags"       -> o.tags
      [] s = "logging"    -> o.logging
      [] s = "encryption" -> o.encryption

(* What CreateBucket makes: storage class, ACL and kind are in its input.   *)
Created(o) ==
    [class |-> bucketStorageClass(o.class), acl |-> CannedGrants(bucketACL(o.acl), Owner),
     versioning |-> "", tags |-> None, logging |-> None, encryption |-> None,
     parallelFS |-> o.parallelFS]

(* The names OBS may use for a storage class, the lists it may give for an   *)
(* ACL.                                                                    *)
ClassNames(c) == {c} \cup (CASE c = "WARM" -> {"STANDARD_IA"} [] c = "COLD" -> {"GLACIER"}
                             [] OTHER -> {})
GrantLists(grants) ==
    LET Spelled(g, short) ==
            [g EXCEPT !.uri = IF g.type = "User" THEN <<>>
                              ELSE IF short THEN <<@>> ELSE <<"groups", @>>]
    IN {[i \in DOMAIN l |-> Spelled(l[i], short)] : l \in SetToSeqs(grants), short \in BOOLEAN}

(* Mutants of Same: encryption is compared by presence only; grant lists    *)
(* are compared element by element.                                        *)
SameByPresence(s) ==
    CASE s = "class" -> {normalizeStorageClass(c) = Asked(want, s) : c \in ClassNames(remote.class)}
      [] s = "acl"   -> {flattenObsBucketCannedACL(Owner, l) = bucketACL(want.acl) :
                         l \in GrantLists(remote.acl)}
      [] s = "encryption" -> {(remote[s] = None) = (want.encryption = None)}
      [] OTHER       -> {remote[s] = Asked(want, s)}
SameInOrder(s) ==
    CASE s = "class" -> {normalizeStorageClass(c) = Asked(want, s) : c \in ClassNames(remote.class)}
      [] s = "acl"   -> {[i \in DOMAIN l |-> signatureOf(l[i])] =
                             SetToSeq(CannedGrants(bucketACL(want.acl), Owner)) :
                         l \in GrantLists(remote.acl)}
      [] OTHER       -> {remote[s] = Asked(want, s)}

(* The verdicts a comparison may come to, for the ways OBS may report the    *)
(* setting.                                                                *)
Same(s) ==
    CASE s = "class" -> {normalizeStorageClass(c) = Asked(want, s) : c \in ClassNames(remote.class)}
      [] s = "acl"   -> {flattenObsBucketCannedACL(Owner, l) = bucketACL(want.acl) :
                         l \in GrantLists(remote.acl)}
      [] OTHER       -> {remote[s] = Asked(want, s)}

(* Mutant of NotFoundIsEmpty: reading the logging configuration takes part.  *)
NotFoundIsEmptyLogging == {"tags", "logging", "encryption"}

(* The steps that take "not found" for "nothing configured".               *)
NotFoundIsEmpty == {"tags", "encryption"}

-----------------------------------------------------------------------------
(* Steps of the worker.                                                    *)

Spend(k) == budget[k] > 0 /\ budget' = [budget EXCEPT ![k] = @ - 1]

(* Mutant of Finish: a missing bucket is left to the user.                  *)
FinishNotFound(r) ==
    /\ place' = "idle" /\ step' = 1 /\ result' = r
    /\ pending' = (pending \/ r = "Transient")

(* The pass ends; an error that no user can correct is retried.            *)
Finish(r) ==
    /\ place' = "idle" /\ step' = 1 /\ result' = r
    /\ pending' = (pending \/ r \in {"Transient", "NotFound"})

(* Mutant of Advance: the end of the list is not noticed.                   *)
AdvanceAlways == place' = "get" /\ step' = step + 1 /\ UNCHANGED <<pending, result>>

(* The step returns nil.                                                   *)
Advance ==
    /\ \/ step = Len(Steps) /\ place' = "reobserve" /\ UNCHANGED step
       \/ step < Len(Steps) /\ place' = "get" /\ step' = step + 1
    /\ UNCHANGED <<pending, result>>

(* Reconcile reads the Bucket and observes: create comes before update only *)
(* when the bucket is not there.                                           *)
Begin ==
    /\ place = "idle" /\ pending /\ pending' = FALSE
    /\ want' = spec /\ place' = IF Exists THEN "get" ELSE "create"
    /\ start' = remote /\ disturbed' = FALSE /\ goneAt' = 0
    /\ UNCHANGED <<spec, remote, step, result, budget>>

(* CreateBucket; a failed call may have taken effect.                       *)
create ==
    /\ place = "create"
    /\ LET made == remote' = Created(want) /\ start' = Created(want) IN
       \/ made /\ place' = "get" /\ UNCHANGED <<step, pending, result, budget>>
       \/ Spend("fault") /\ Finish("Transient") /\ (made \/ UNCHANGED <<remote, start>>)
    /\ UNCHANGED <<spec, want, disturbed, goneAt>>

(* The first half of a step: read and compare.                              *)
Get(s) ==
    /\ place = "get" /\ Steps[step] = s
    /\ \/ Exists /\ TRUE \in Same(s) /\ Advance /\ UNCHANGED budget
       \/ /\ Exists /\ FALSE \in Same(s)
          /\ place' = "set" /\ UNCHANGED <<step, pending, result, budget>>
       \/ ~Exists /\ s \notin NotFoundIsEmpty /\ Finish("NotFound") /\ UNCHANGED budget
       \/ /\ ~Exists /\ s \in NotFoundIsEmpty /\ UNCHANGED budget
          /\ \/ Asked(want, s) = None /\ Advance
             \/ Asked(want, s) # None /\ place' = "set" /\ UNCHANGED <<step, pending, result>>
       \/ Spend("fault") /\ Finish("Transient")
    /\ UNCHANGED <<spec, remote, want, history>>

(* Encryption is not for parallel file systems: reading it counts as none,   *)
(* setting it is refused.                                                  *)
Unsupported(s) == s = "encryption" /\ remote.parallelFS

(* Mutant of Set: the error of a set call is only logged.                   *)
SetUnchecked(s) ==
    /\ place = "set" /\ Steps[step] = s
    /\ \/ Exists /\ remote' = [remote EXCEPT ![s] = Asked(want, s)] /\ Advance /\ UNCHANGED budget
       \/ Spend("fault") /\ Advance /\ UNCHANGED remote
       \/ ~Exists /\ Advance /\ UNCHANGED <<remote, budget>>
    /\ UNCHANGED <<spec, want, history>>

(* The second half: set the value, or delete it (tags, encryption), where    *)
(* "not found" is as good.                                                 *)
Set(s) ==
    /\ place = "set" /\ Steps[step] = s
    /\ LET applied == remote' = [remote EXCEPT ![s] = Asked(want, s)] IN
       \/ Exists /\ ~Unsupported(s) /\ applied /\ Advance /\ UNCHANGED budget
       \/ Exists /\ Unsupported(s) /\ Finish("Rejected") /\ UNCHANGED <<remote, budget>>
       \/ /\ ~Exists /\ UNCHANGED <<remote, budget>>
          /\ \/ s \in NotFoundIsEmpty /\ Asked(want, s) = None /\ Advance
             \/ ~(s \in NotFoundIsEmpty /\ Asked(want, s) = None) /\ Finish("NotFound")
       \/ Spend("fault") /\ Finish("Transient") /\ UNCHANGED remote
       \/ Exists /\ ~Unsupported(s) /\ Spend("fault") /\ Finish("Transient") /\ applied
    /\ UNCHANGED <<spec, want, history>>

reconcileBucketStorageClass == Get("class") \/ Set("class")
reconcileBucketACL          == Get("acl") \/ Set("acl")
reconcileBucketVersioning   == Get("versioning") \/ Set("versioning")
reconcileBucketTags         == Get("tags") \/ Set("tags")
reconcileBucketLogging      == Get("logging") \/ Set("logging")
reconcileBucketEncryption   == Get("encryption") \/ Set("encryption")

update ==
    \/ reconcileBucketStorageClass \/ reconcileBucketACL \/ reconcileBucketVersioning
    \/ reconcileBucketTags \/ reconcileBucketLogging \/ reconcileBucketEncryption

(* After update Reconcile observes the bucket once more; unless the call      *)
(* fails it reports Ready, whether or not the bucket was there.            *)
observeAgain ==
    /\ place = "reobserve"
    /\ \/ Finish("nil") /\ UNCHANGED budget
       \/ Spend("fault") /\ Finish("Transient")
    /\ UNCHANGED <<spec, remote, want, history>>

-----------------------------------------------------------------------------
(* Users, events, other clients of OBS, and the manager.                   *)

(* The spec is edited, or another event brings the Bucket back as it was.    *)
Edit ==
    /\ Spend("edit")
    /\ spec' \in {o \in Specs : o.parallelFS = spec.parallelFS}
    /\ pending' = TRUE
    /\ UNCHANGED <<remote, place, step, want, result, history>>

(* Others change one setting.                                              *)
Drift ==
    /\ Spend("drift") /\ Exists
    /\ \E s \in DOMAIN Values : \E v \in Values[s] \ {remote[s]} :
          ~Unsupported(s) /\ remote' = [remote EXCEPT ![s] = v]
    /\ disturbed' = TRUE
    /\ UNCHANGED <<spec, pending, place, step, want, result, start, goneAt>>

Vanish ==
    /\ Spend("vanish") /\ Exists
    /\ remote' = Missing /\ disturbed' = TRUE
    /\ goneAt' = CASE place \in {"get", "set"} -> step
                   [] place = "reobserve"      -> Len(Steps) + 1
                   [] OTHER                    -> goneAt
    /\ UNCHANGED <<spec, pending, place, step, want, result, start>>

Restart ==
    /\ Spend("restart")
    /\ place' = "idle" /\ step' = 1 /\ result' = None /\ pending' = TRUE
    /\ UNCHANGED <<spec, remote, want, history>>

-----------------------------------------------------------------------------
Init ==
    /\ spec \in Specs /\ want = spec /\ pending = TRUE
    /\ remote = Missing /\ start = Missing
    /\ place = "idle" /\ step = 1 /\ result = None
    /\ disturbed = FALSE /\ goneAt = 0
    /\ budget = Budget

Next == Begin \/ create \/ update \/ observeAgain \/ Edit \/ Drift \/ Vanish \/ Restart

Spec == Init /\ [][Next]_vars

(* A queued Bucket is taken and every call returns.                        *)
FairSpec == Spec /\ WF_vars(Begin) /\ WF_vars(create \/ update \/ observeAgain)

-----------------------------------------------------------------------------
(* Properties.                                                             *)

(* Every variable has its type.                                            *)
TypeOK ==
    /\ spec \in Specs /\ want \in Specs /\ pending \in BOOLEAN
    /\ remote \in Settings \cup {Missing} /\ start \in Settings \cup {Missing}
    /\ place \in {"idle", "create", "get", "set", "reobserve"} /\ step \in 1..Len(Steps)
    /\ result \in {None, "nil", "Transient", "NotFound", "Rejected"}
    /\ disturbed \in BOOLEAN /\ goneAt \in 0..(Len(Steps) + 1)
    /\ budget \in [Kinds -> Nat]

(* Setting s of OBS bucket r is as spec o has it.                          *)
InPlace(r, o, s) == r[s] = Asked(o, s)
Conforms(r, o) == r # Missing /\ \A i \in DOMAIN Steps : InPlace(r, o, Steps[i])

(* A pass that returned no error and that nobody interfered with leaves an   *)
(* OBS bucket with every setting of the spec it read, whatever earlier       *)
(* passes, lost answers, drift or a re-creation had left behind.           *)
PassConforms ==
    place = "idle" /\ result = "nil" /\ ~disturbed => Conforms(remote, want)

(* While update is under way undisturbed, the settings of the steps behind   *)
(* it are in place and those ahead are as it found them: a failure leaves a  *)
(* prefix done.                                                            *)
PrefixDone ==
    place \in {"get", "set"} /\ ~disturbed =>
        /\ \A i \in 1..(step - 1) : InPlace(remote, want, Steps[i])
        /\ \A i \in step..Len(Steps) : remote[Steps[i]] = start[Steps[i]]

(* A setting that is as asked is not set again: whichever of its names OBS   *)
(* uses for the class, and in whatever order and spelling it lists grants.  *)
SetsOnlyDifferences ==
    place = "set" /\ ~disturbed =>
        ~InPlace(start, want, Steps[step])

(* A pass over a bucket that vanished ends in an error, although two         *)
(* steps take "not found" for "nothing configured": only in the very last    *)
(* step, with no encryption asked for, or after it can it go unnoticed.     *)
(* (The second observation is there to notice it, but its result is not     *)
(* looked at: the pass reports Ready.)                                     *)
MissingNoticed ==
    place = "idle" /\ result = "nil" /\ goneAt # 0 =>
        \/ goneAt = Len(Steps) /\ want.encryption = None
        \/ goneAt > Len(Steps)

(* The settings a user asks for last are reached: a pass that failed, or      *)
(* that met a bucket that is gone, is repeated from the start until one      *)
(* ends well, and does not undo what the earlier one did.  Interference     *)
(* that no pass met stays, as nobody tells the controller.  (Encryption of  *)
(* a parallel file system is refused.)                                     *)
SettingsReached ==
    []<>(\/ disturbed /\ result = "nil"
         \/ spec.parallelFS /\ spec.encryption # None
         \/ Conforms(remote, spec))
=============================================================================
