--------------------- MODULE ProviderConfigControllerProofs ---------------------
(***************************************************************************)
(* What the status of a ProviderConfig and the outcomes of its Buckets say  *)
(* once the controllers come to rest, for every number of ProviderConfigs,  *)
(* Secrets and Buckets, and however many events are under way at once.      *)
(***************************************************************************)
EXTENDS ProviderConfigController, SequenceTheorems, TLAPS

-----------------------------------------------------------------------------
(* Every variable has its type.                                            *)

StoreTyped ==
    /\ secret \in [Secrets -> Secret] /\ secretEvents \subseteq Secrets
    /\ config \in [Configs -> ProviderConfig] /\ cached \in [Configs -> ProviderConfig]
    /\ watch \in [Configs -> Seq(ProviderConfig)]
    /\ queue \subseteq Configs /\ bQueue \subseteq Buckets
    /\ budget \in [Kinds -> Nat]
WorkerTyped ==
    /\ at \in {"idle", "resolve", "validate", "status"} /\ cur \in Configs \cup {Nobody}
    /\ copy \in ProviderConfig /\ read \in Secret /\ verdict \in Verdict
    /\ at = "idle" <=> cur = Nobody
BWorkerTyped ==
    /\ bAt \in {"idle", "resolve", "call"} /\ bCur \in Buckets \cup {Nobody}
    /\ bRef \in Secrets /\ bRead \in Data
    /\ outcome \in [Buckets -> {"none", "Ready", "ReadyEarly", "Failed"}]
    /\ bAt = "idle" <=> bCur = Nobody

LEMMA TypeSplit ==
    /\ TypeOK <=> StoreTyped /\ WorkerTyped /\ BWorkerTyped
    /\ TypeOK' <=> StoreTyped' /\ WorkerTyped' /\ BWorkerTyped'
  BY Zenon DEF TypeOK, StoreTyped, WorkerTyped, BWorkerTyped

(* The objects of an idle worker.                                          *)
NoConfig == [uid |-> 0, gen |-> 0, ref |-> CHOOSE s \in Secrets : TRUE, status |-> NoStatus]
NoVerdict == [reason |-> "none", msg |-> 0, rev |-> NoRevision]

LEMMA NoneTyped ==
    /\ (CHOOSE s \in Secrets : TRUE) \in Secrets
    /\ NoSecret \in Secret /\ NoRevision \in Revisions /\ NoStatus \in Status
    /\ NoConfig \in ProviderConfig /\ NoVerdict \in Verdict
  <1>1. (CHOOSE s \in Secrets : TRUE) \in Secrets
    BY ConstantAssumptions
  <1>2. NoSecret \in Secret
    BY DEF NoSecret, Secret, Data
  <1>3. NoRevision \in Revisions
    BY DEF Revisions
  <1>4. [reason |-> "none", gen |-> 0, msg |-> 0] \in Condition
    BY DEF Condition, Reasons
  <1>5. NoStatus \in Status
    BY <1>3, <1>4 DEF NoStatus, Status
  <1>6. NoConfig \in ProviderConfig
    BY <1>1, <1>5 DEF NoConfig, ProviderConfig
  <1>7. NoVerdict \in Verdict
    BY <1>3 DEF NoVerdict, Verdict, Reasons
  <1> QED
    BY <1>1, <1>2, <1>3, <1>5, <1>6, <1>7

LEMMA IdleTyped ==
    ASSUME Idle
    PROVE  WorkerTyped' /\ cur' = Nobody /\ at' = "idle"
  <1>1. /\ at' = "idle" /\ cur' = Nobody /\ read' = NoSecret
        /\ copy' = NoConfig /\ verdict' = NoVerdict
    BY DEF Idle, NoConfig, NoVerdict
  <1> QED
    BY <1>1, NoneTyped DEF WorkerTyped

LEMMA BIdleTyped ==
    ASSUME BIdle, outcome' \in [Buckets -> {"none", "Ready", "ReadyEarly", "Failed"}]
    PROVE  BWorkerTyped' /\ bCur' = Nobody /\ bAt' = "idle"
  BY NoneTyped DEF BIdle, BWorkerTyped, Data

LEMMA SpendTyped ==
    ASSUME StoreTyped, NEW k \in Kinds, Spend(k)
    PROVE  /\ budget' \in [Kinds -> Nat]
           /\ budget[k] \in Nat /\ budget[k] > 0 /\ budget'[k] = budget[k] - 1
           /\ \A j \in Kinds : j # k => budget'[j] = budget[j]
           /\ \A j \in Kinds : budget'[j] <= budget[j]
  BY DEF StoreTyped, Spend

(* Spending any budget but that of flakes leaves it alone.                  *)
LEMMA KindsApart ==
    /\ "config" \in Kinds /\ "secret" \in Kinds /\ "flake" \in Kinds /\ "mishap" \in Kinds
  BY DEF Kinds

(* The fields of the objects.                                              *)
LEMMA ConfigFields ==
    ASSUME NEW o \in ProviderConfig
    PROVE  /\ o.uid \in Nat /\ o.gen \in Nat /\ o.ref \in Secrets /\ o.status \in Status
           /\ o.status.gen \in Nat /\ o.status.rev \in Revisions
           /\ o.status.cond \in Condition
           /\ o.status.cond.reason \in Reasons /\ o.status.cond.gen \in Nat
           /\ o.status.cond.msg \in {0, 1}
  <1>1. o.uid \in Nat /\ o.gen \in Nat /\ o.ref \in Secrets /\ o.status \in Status
    BY DEF ProviderConfig
  <1>2. /\ o.status.gen \in Nat /\ o.status.rev \in Revisions
        /\ o.status.cond \in Condition
    BY <1>1 DEF Status
  <1> QED
    BY <1>1, <1>2 DEF Condition

LEMMA SecretFields ==
    ASSUME NEW s \in Secret
    PROVE  s.data \in Data /\ s.rv \in Nat
  BY DEF Secret

LEMMA RevisionTyped ==
    ASSUME NEW o \in ProviderConfig, NEW s \in Secret
    PROVE  /\ observedProviderRevision(o, s) \in Revisions
           /\ observedProviderRevision(o, s) # NoRevision
           /\ observedProviderRevision(o, s)[3] = o.ref
           /\ observedProviderRevision(o, s)[4] = s.rv
  BY ConfigFields, SecretFields DEF observedProviderRevision, Revisions, NoRevision

(* A merge patch sends each of the three fields or leaves it.                *)
LEMMA MergedFields ==
    ASSUME NEW server \in Status, NEW old \in Status, NEW new \in Status
    PROVE  LET m == Merged(server, old, new) IN
           /\ m \in Status
           /\ m.gen = IF old.gen = new.gen THEN server.gen ELSE new.gen
           /\ m.rev = IF old.rev = new.rev THEN server.rev ELSE new.rev
           /\ m.cond = IF old.cond = new.cond THEN server.cond ELSE new.cond
  <1> DEFINE m == Merged(server, old, new)
  <1>1. /\ m.gen = IF old.gen = new.gen THEN server.gen ELSE new.gen
        /\ m.rev = IF old.rev = new.rev THEN server.rev ELSE new.rev
        /\ m.cond = IF old.cond = new.cond THEN server.cond ELSE new.cond
    BY DEF Merged
  <1>2. m = [gen |-> m.gen, rev |-> m.rev, cond |-> m.cond]
    BY DEF Merged
  <1> HIDE DEF m
  <1>3. m.gen \in Nat /\ m.rev \in Revisions /\ m.cond \in Condition
    BY <1>1 DEF Status
  <1>4. m \in Status
    BY <1>2, <1>3 DEF Status
  <1> QED
    BY <1>1, <1>4 DEF m

LEMMA NextStatusTyped ==
    ASSUME WorkerTyped
    PROVE  /\ NextStatus \in Status
           /\ NextStatus.gen = copy.gen /\ NextStatus.rev = verdict.rev
           /\ NextStatus.cond.reason = verdict.reason /\ NextStatus.cond.gen = copy.gen
  <1>1. copy.gen \in Nat
    BY ConfigFields DEF WorkerTyped
  <1>2. verdict.reason \in Reasons /\ verdict.msg \in {0, 1} /\ verdict.rev \in Revisions
    BY DEF WorkerTyped, Verdict
  <1>3. [reason |-> verdict.reason, gen |-> copy.gen, msg |-> verdict.msg] \in Condition
    BY <1>1, <1>2 DEF Condition
  <1> QED
    BY <1>1, <1>2, <1>3 DEF NextStatus, Status

(* The status of o as a patch of the worker leaves it.                      *)
Patched(o) == [o EXCEPT !.status = Merged(o.status, copy.status, NextStatus)]

LEMMA PatchedTyped ==
    ASSUME WorkerTyped, NEW o \in ProviderConfig
    PROVE  /\ Patched(o) \in ProviderConfig
           /\ Patched(o).uid = o.uid /\ Patched(o).gen = o.gen /\ Patched(o).ref = o.ref
           /\ Patched(o).status = Merged(o.status, copy.status, NextStatus)
           /\ Patched(o).status \in Status
  <1>1. o.status \in Status /\ copy.status \in Status /\ NextStatus \in Status
    BY ConfigFields, NextStatusTyped DEF WorkerTyped
  <1>2. Merged(o.status, copy.status, NextStatus) \in Status
    BY <1>1, MergedFields
  <1> QED
    BY <1>2 DEF Patched, ProviderConfig

LEMMA AppendLast ==
    ASSUME NEW S, NEW w \in Seq(S), NEW o \in S
    PROVE  /\ Append(w, o) \in Seq(S) /\ Append(w, o) # <<>>
           /\ Append(w, o)[Len(Append(w, o))] = o
  OBVIOUS

(* A write is one more version on its way to the informer.                  *)
LEMMA WriteTyped ==
    ASSUME StoreTyped, NEW c \in Configs, NEW o \in ProviderConfig, Write(c, o)
    PROVE  /\ config' \in [Configs -> ProviderConfig]
           /\ watch' \in [Configs -> Seq(ProviderConfig)]
           /\ config'[c] = o /\ watch'[c] = Append(watch[c], o) /\ watch'[c] # <<>>
           /\ watch'[c][Len(watch'[c])] = o
           /\ \A d \in Configs : d # c => config'[d] = config[d] /\ watch'[d] = watch[d]
  <1>1. config \in [Configs -> ProviderConfig] /\ watch \in [Configs -> Seq(ProviderConfig)]
    BY DEF StoreTyped
  <1>2. /\ config' = [config EXCEPT ![c] = o]
        /\ watch' = [watch EXCEPT ![c] = Append(watch[c], o)]
    BY DEF Write
  <1>3. /\ Append(watch[c], o) \in Seq(ProviderConfig) /\ Append(watch[c], o) # <<>>
        /\ Append(watch[c], o)[Len(Append(watch[c], o))] = o
    BY <1>1, AppendLast
  <1> QED
    BY <1>1, <1>2, <1>3

(* The three things users write.                                           *)
LEMMA UserWriteTyped ==
    ASSUME StoreTyped, NEW c \in Configs,
           CreateProviderConfig(c) \/ EditProviderConfig(c) \/ DeleteProviderConfig(c)
    PROVE  \E o \in ProviderConfig :
              /\ UserWrite(c, o)
              /\ o.status = config[c].status \/ o.status = NoStatus
  <1>1. config[c] \in ProviderConfig
    BY DEF StoreTyped
  <1>2. CASE CreateProviderConfig(c)
    <2>1. PICK s \in Secrets :
             UserWrite(c, [uid |-> config[c].uid + 1, gen |-> 1, ref |-> s, status |-> NoStatus])
      BY <1>2 DEF CreateProviderConfig
    <2>2. config[c].uid + 1 \in Nat
      BY <1>1, ConfigFields
    <2>3. [uid |-> config[c].uid + 1, gen |-> 1, ref |-> s, status |-> NoStatus] \in ProviderConfig
      BY <2>2, NoneTyped DEF ProviderConfig
    <2> QED
      BY <2>1, <2>3
  <1>3. CASE EditProviderConfig(c)
    <2>1. PICK s \in Secrets : UserWrite(c, [config[c] EXCEPT !.gen = @ + 1, !.ref = s])
      BY <1>3 DEF EditProviderConfig
    <2> DEFINE o == [config[c] EXCEPT !.gen = @ + 1, !.ref = s]
    <2>2. o \in ProviderConfig /\ o.status = config[c].status
      <3>1. config[c].gen + 1 \in Nat
        BY <1>1, ConfigFields
      <3> QED
        BY <1>1, <3>1 DEF ProviderConfig
    <2> HIDE DEF o
    <2> QED
      BY <2>1, <2>2 DEF o
  <1>4. CASE DeleteProviderConfig(c)
    <2> DEFINE o == [config[c] EXCEPT !.gen = 0, !.status = NoStatus]
    <2>1. UserWrite(c, o)
      BY <1>4 DEF DeleteProviderConfig
    <2>2. o \in ProviderConfig /\ o.status = NoStatus
      BY <1>1, NoneTyped DEF ProviderConfig
    <2> HIDE DEF o
    <2> QED
      BY <2>1, <2>2
  <1> QED
    BY <1>2, <1>3, <1>4

(* The last of the versions on their way stays the last.                    *)
LEMMA HeadAndTail ==
    ASSUME NEW S, NEW w \in Seq(S), w # <<>>
    PROVE  /\ Head(w) \in S /\ Tail(w) \in Seq(S)
           /\ Tail(w) = <<>> => Head(w) = w[Len(w)]
           /\ Tail(w) # <<>> => Tail(w)[Len(Tail(w))] = w[Len(w)]
  <1> DEFINE t == Tail(w)
             n == Len(w)
  <1>1. n \in Nat /\ n # 0
    OBVIOUS
  <1>2. Head(w) = w[1] /\ Head(w) \in S
    BY <1>1
  <1>3. t \in Seq(S) /\ Len(t) = n - 1 /\ \A i \in 1..Len(t) : t[i] = w[i + 1]
    BY HeadTailProperties
  <1> HIDE DEF t, n
  <1>4. t = <<>> <=> Len(t) = 0
    BY <1>3, EmptySeq
  <1>5. t = <<>> => n = 1
    BY <1>1, <1>3, <1>4
  <1>6. ASSUME t # <<>> PROVE t[Len(t)] = w[n]
    <2>1. Len(t) \in 1..Len(t) /\ Len(t) + 1 = n
      BY <1>1, <1>3, <1>4, <1>6
    <2> QED
      BY <1>3, <2>1
  <1> QED
    BY <1>2, <1>3, <1>5, <1>6 DEF t, n

LEMMA DeliverTyped ==
    ASSUME StoreTyped, NEW c \in Configs, Deliver(c)
    PROVE  /\ StoreTyped'
           /\ UNCHANGED <<secret, secretEvents, config, worker, bWorker, outcome, budget>>
           /\ watch[c] # <<>> /\ c \in queue' /\ queue \subseteq queue' /\ bQueue \subseteq bQueue'
           /\ \A b \in Buckets : ConfigOf[b] = c => b \in bQueue'
           /\ watch'[c] = Tail(watch[c]) /\ cached'[c] = Head(watch[c])
           /\ \A d \in Configs : d # c => watch'[d] = watch[d] /\ cached'[d] = cached[d]
  <1>1. /\ cached \in [Configs -> ProviderConfig] /\ watch \in [Configs -> Seq(ProviderConfig)]
        /\ queue \subseteq Configs /\ bQueue \subseteq Buckets
    BY DEF StoreTyped
  <1>2. /\ watch[c] # <<>>
        /\ cached' = [cached EXCEPT ![c] = Head(watch[c])]
        /\ watch' = [watch EXCEPT ![c] = Tail(watch[c])]
        /\ queue' = queue \cup {c}
        /\ bQueue' = bQueue \cup {b \in Buckets : ConfigOf[b] = c}
        /\ UNCHANGED <<secret, secretEvents, config, worker, bWorker, outcome, budget>>
    BY DEF Deliver, Enqueues, bucketsForProviderConfig
  <1>3. Head(watch[c]) \in ProviderConfig /\ Tail(watch[c]) \in Seq(ProviderConfig)
    BY <1>1, <1>2, HeadAndTail
  <1>4. cached' \in [Configs -> ProviderConfig] /\ watch' \in [Configs -> Seq(ProviderConfig)]
    BY <1>1, <1>2, <1>3
  <1>5. StoreTyped'
    BY <1>1, <1>2, <1>4 DEF StoreTyped
  <1> QED
    BY <1>1, <1>2, <1>5

LEMMA ChangeSecretTyped ==
    ASSUME StoreTyped, NEW s \in Secrets, ChangeSecret(s)
    PROVE  /\ StoreTyped'
           /\ UNCHANGED <<api, cached, queue, worker, bQueue, bWorker, outcome>>
           /\ secretEvents' = secretEvents \cup {s}
           /\ budget'["flake"] = budget["flake"]
           /\ secret'[s].rv = secret[s].rv + 1
           /\ \A t \in Secrets : t # s => secret'[t] = secret[t]
  <1>1. secret \in [Secrets -> Secret] /\ secret[s].rv \in Nat
    BY SecretFields DEF StoreTyped
  <1>2. PICK d \in Data : secret' = [secret EXCEPT ![s] = [data |-> d, rv |-> secret[s].rv + 1]]
    BY DEF ChangeSecret
  <1>3. [data |-> d, rv |-> secret[s].rv + 1] \in Secret
    BY <1>1 DEF Secret
  <1>4. /\ secret' \in [Secrets -> Secret] /\ secret'[s].rv = secret[s].rv + 1
        /\ \A t \in Secrets : t # s => secret'[t] = secret[t]
    BY <1>1, <1>2, <1>3
  <1>5. budget' \in [Kinds -> Nat] /\ budget'["flake"] = budget["flake"]
    BY SpendTyped, KindsApart DEF ChangeSecret
  <1>6. /\ UNCHANGED <<api, cached, queue, worker, bQueue, bWorker, outcome>>
        /\ secretEvents' = secretEvents \cup {s}
    BY DEF ChangeSecret
  <1>7. StoreTyped'
    BY <1>4, <1>5, <1>6 DEF StoreTyped, api
  <1> QED
    BY <1>4, <1>5, <1>6, <1>7

(* Frames: what a step leaves alone keeps its type.                         *)
LEMMA WorkerKept ==
    ASSUME WorkerTyped, UNCHANGED worker
    PROVE  WorkerTyped'
  BY DEF WorkerTyped, worker

LEMMA BWorkerKept ==
    ASSUME BWorkerTyped, UNCHANGED <<bWorker, outcome>>
    PROVE  BWorkerTyped'
  BY DEF BWorkerTyped, bWorker

LEMMA BeginTyped ==
    ASSUME StoreTyped, WorkerTyped, NEW c \in Configs, Begin(c)
    PROVE  /\ StoreTyped' /\ WorkerTyped'
           /\ UNCHANGED <<secret, secretEvents, api, cached, bQueue, bWorker, outcome, budget>>
           /\ at = "idle" /\ cur = Nobody /\ queue' = queue \ {c}
           /\ \/ /\ Present(cached[c]) /\ at' = "resolve" /\ cur' = c /\ copy' = cached[c]
              \/ ~Present(cached[c]) /\ UNCHANGED worker
  <1>1. /\ UNCHANGED <<secret, secretEvents, api, cached, bQueue, bWorker, outcome, budget>>
        /\ at = "idle" /\ cur = Nobody /\ queue' = queue \ {c}
    BY DEF Begin, WorkerTyped
  <1>2. StoreTyped'
    BY <1>1 DEF StoreTyped, api
  <1>3. CASE /\ Present(cached[c])
             /\ at' = "resolve" /\ cur' = c /\ copy' = cached[c] /\ UNCHANGED <<read, verdict>>
    <2>1. c # Nobody /\ cached[c] \in ProviderConfig
      BY ConstantAssumptions DEF StoreTyped
    <2>2. WorkerTyped'
      BY <1>3, <2>1 DEF WorkerTyped
    <2> QED
      BY <1>1, <1>2, <1>3, <2>2
  <1>4. CASE ~Present(cached[c]) /\ UNCHANGED worker
    BY <1>1, <1>2, <1>4, WorkerKept
  <1> QED
    BY <1>3, <1>4 DEF Begin

(* The worker in Reconcile holds a ProviderConfig.                          *)
LEMMA AtWork ==
    ASSUME WorkerTyped, at # "idle"
    PROVE  cur \in Configs /\ cur # Nobody
  BY DEF WorkerTyped

LEMMA ReportTyped ==
    ASSUME WorkerTyped, at # "idle", NEW reason \in Reasons, NEW msg \in {0, 1},
           NEW rev \in Revisions, Report(reason, msg, rev),
           UNCHANGED <<cur, copy, read>>
    PROVE  /\ WorkerTyped' /\ at' = "status" /\ verdict'.reason = reason /\ verdict'.rev = rev
  <1>1. verdict' = [reason |-> reason, msg |-> msg, rev |-> rev] /\ at' = "status"
    BY DEF Report
  <1>2. verdict' \in Verdict /\ verdict'.reason = reason /\ verdict'.rev = rev
    BY <1>1 DEF Verdict
  <1> QED
    BY <1>1, <1>2 DEF WorkerTyped

(* The resolution reads the Secret, or has its verdict.                     *)
LEMMA ResolveEffect ==
    ASSUME StoreTyped, WorkerTyped, ResolveProviderConfigObject
    PROVE  /\ StoreTyped' /\ WorkerTyped' /\ at = "resolve"
           /\ UNCHANGED <<secret, secretEvents, api, cached, queue, cur, copy, bQueue, bWorker,
                          outcome>>
           /\ LET s == secret[copy.ref] IN
              \/ /\ s.data \in {"denied", "good"} /\ at' = "validate" /\ read' = s
                 /\ UNCHANGED budget
              \/ /\ s.data \in {"missing", "incomplete"} /\ at' = "status" /\ UNCHANGED budget
                 /\ verdict'.reason = ReasonOf(s.data) /\ verdict'.rev = NoRevision
              \/ /\ Spend("flake") /\ at' = "status"
                 /\ verdict'.reason = "ClientBuildFailed" /\ verdict'.rev = NoRevision
  <1> DEFINE s == secret[copy.ref]
  <1>1. /\ at = "resolve"
        /\ UNCHANGED <<secret, secretEvents, api, cached, queue, cur, copy, bQueue, bWorker,
                       outcome>>
    BY DEF ResolveProviderConfigObject
  <1>2. copy.ref \in Secrets /\ s \in Secret
    BY ConfigFields DEF WorkerTyped, StoreTyped
  <1>3. ASSUME budget' \in [Kinds -> Nat] PROVE StoreTyped'
    BY <1>1, <1>3 DEF StoreTyped, api
  <1>4. CASE /\ s.data \in {"denied", "good"} /\ UNCHANGED budget
             /\ at' = "validate" /\ read' = s /\ UNCHANGED verdict
    <2>1. WorkerTyped'
      BY <1>1, <1>2, <1>4 DEF WorkerTyped
    <2>2. StoreTyped'
      BY <1>3, <1>4 DEF StoreTyped
    <2> QED
      BY <1>1, <1>4, <2>1, <2>2
  <1>5. CASE /\ s.data = "missing" /\ UNCHANGED <<read, budget>>
             /\ Report("CredentialsSecretNotFound", 0, NoRevision)
    <2>1. /\ WorkerTyped' /\ at' = "status" /\ verdict'.reason = "CredentialsSecretNotFound"
          /\ verdict'.rev = NoRevision
      BY <1>1, <1>5, ReportTyped, NoneTyped DEF Reasons
    <2>2. StoreTyped'
      BY <1>3, <1>5 DEF StoreTyped
    <2> QED
      BY <1>1, <1>5, <2>1, <2>2 DEF ReasonOf
  <1>6. CASE /\ s.data = "incomplete" /\ UNCHANGED <<read, budget>>
             /\ Report("CredentialsSecretInvalid", 0, NoRevision)
    <2>1. /\ WorkerTyped' /\ at' = "status" /\ verdict'.reason = "CredentialsSecretInvalid"
          /\ verdict'.rev = NoRevision
      BY <1>1, <1>6, ReportTyped, NoneTyped DEF Reasons
    <2>2. StoreTyped'
      BY <1>3, <1>6 DEF StoreTyped
    <2> QED
      BY <1>1, <1>6, <2>1, <2>2 DEF ReasonOf
  <1>7. CASE /\ Spend("flake") /\ UNCHANGED read
             /\ Report("ClientBuildFailed", 0, NoRevision)
    <2>1. /\ WorkerTyped' /\ at' = "status" /\ verdict'.reason = "ClientBuildFailed"
          /\ verdict'.rev = NoRevision
      BY <1>1, <1>7, ReportTyped, NoneTyped DEF Reasons
    <2>2. StoreTyped'
      BY <1>3, <1>7, SpendTyped, KindsApart
    <2> QED
      BY <1>1, <1>7, <2>1, <2>2
  <1> QED
    BY <1>4, <1>5, <1>6, <1>7 DEF ResolveProviderConfigObject

(* The validation has its verdict from what was read.                       *)
LEMMA ValidateEffect ==
    ASSUME StoreTyped, WorkerTyped, validateProviderClient
    PROVE  /\ StoreTyped' /\ WorkerTyped' /\ at = "validate" /\ at' = "status"
           /\ UNCHANGED <<secret, secretEvents, api, cached, queue, cur, copy, read, bQueue,
                          bWorker, outcome>>
           /\ verdict'.rev = observedProviderRevision(copy, read)
           /\ \/ read.data = "good" /\ verdict'.reason = "ClientValidated" /\ UNCHANGED budget
              \/ /\ read.data = "denied" /\ verdict'.reason = "ClientValidationFailed"
                 /\ UNCHANGED budget
              \/ Spend("flake") /\ verdict'.reason = "ClientValidationFailed"
  <1> DEFINE rev == observedProviderRevision(copy, read)
  <1>1. /\ at = "validate"
        /\ UNCHANGED <<secret, secretEvents, api, cached, queue, cur, copy, read, bQueue, bWorker,
                       outcome>>
    BY DEF validateProviderClient
  <1>2. rev \in Revisions
    BY RevisionTyped DEF WorkerTyped
  <1>3. Text \in {0, 1}
    <2>1. copy.status.cond.msg \in {0, 1}
      BY ConfigFields DEF WorkerTyped
    <2> QED
      BY <2>1 DEF Text
  <1>4. ASSUME budget' \in [Kinds -> Nat] PROVE StoreTyped'
    BY <1>1, <1>4 DEF StoreTyped, api
  <1> HIDE DEF rev
  <1>5. CASE read.data = "good" /\ Report("ClientValidated", 0, rev) /\ UNCHANGED budget
    <2>1. /\ WorkerTyped' /\ at' = "status" /\ verdict'.reason = "ClientValidated"
          /\ verdict'.rev = rev
      BY <1>1, <1>2, <1>5, ReportTyped DEF Reasons
    <2>2. StoreTyped'
      BY <1>4, <1>5 DEF StoreTyped
    <2> QED
      BY <1>1, <1>5, <2>1, <2>2 DEF rev
  <1>6. CASE /\ read.data = "denied" /\ Report("ClientValidationFailed", Text, rev)
             /\ UNCHANGED budget
    <2>1. /\ WorkerTyped' /\ at' = "status" /\ verdict'.reason = "ClientValidationFailed"
          /\ verdict'.rev = rev
      BY <1>1, <1>2, <1>3, <1>6, ReportTyped DEF Reasons
    <2>2. StoreTyped'
      BY <1>4, <1>6 DEF StoreTyped
    <2> QED
      BY <1>1, <1>6, <2>1, <2>2 DEF rev
  <1>7. CASE Spend("flake") /\ Report("ClientValidationFailed", Text, rev)
    <2>1. /\ WorkerTyped' /\ at' = "status" /\ verdict'.reason = "ClientValidationFailed"
          /\ verdict'.rev = rev
      BY <1>1, <1>2, <1>3, <1>7, ReportTyped DEF Reasons
    <2>2. StoreTyped'
      BY <1>4, <1>7, SpendTyped, KindsApart
    <2> QED
      BY <1>1, <1>7, <2>1, <2>2 DEF rev
  <1> QED
    BY <1>5, <1>6, <1>7 DEF validateProviderClient, rev

(* The status is as it should be, or written, or has the server's version    *)
(* already, or is tried again.                                             *)
LEMMA StatusEffect ==
    ASSUME StoreTyped, WorkerTyped, updateProviderConfigStatus
    PROVE  /\ StoreTyped' /\ WorkerTyped' /\ at = "status" /\ at' = "idle" /\ cur' = Nobody
           /\ cur \in Configs /\ queue \subseteq queue'
           /\ UNCHANGED <<secret, secretEvents, cached, bQueue, bWorker, outcome>>
           /\ budget'["flake"] = budget["flake"]
           /\ \/ copy.status = NextStatus /\ queue' = queue /\ UNCHANGED api
              \/ Write(cur, Patched(config[cur]))
              \/ /\ copy.status # NextStatus /\ Patched(config[cur]) = config[cur]
                 /\ UNCHANGED api
              \/ cur \in queue' /\ UNCHANGED api
  <1> DEFINE o == config[cur]
             p == Patched(o)
  <1>1. /\ at = "status" /\ cur \in Configs
        /\ UNCHANGED <<secret, secretEvents, cached, bQueue, bWorker, outcome>>
    BY AtWork DEF updateProviderConfigStatus
  <1>2. /\ Idle
        /\ queue' = queue \/ queue' = queue \cup {cur}
        /\ UNCHANGED budget \/ Spend("mishap")
    BY DEF updateProviderConfigStatus, Return
  <1>3. \/ copy.status = NextStatus /\ queue' = queue /\ UNCHANGED api
        \/ Write(cur, p)
        \/ copy.status # NextStatus /\ p = o /\ UNCHANGED api
        \/ cur \in queue' /\ UNCHANGED api
    BY <1>2 DEF updateProviderConfigStatus, Return, statusChanged, Patched
  <1>4. WorkerTyped' /\ at' = "idle" /\ cur' = Nobody
    BY <1>2, IdleTyped
  <1>5. budget' \in [Kinds -> Nat] /\ budget'["flake"] = budget["flake"]
    <2>1. "mishap" # "flake"
      OBVIOUS
    <2> QED
      BY <1>2, <2>1, SpendTyped, KindsApart DEF StoreTyped
  <1>6. config' \in [Configs -> ProviderConfig] /\ watch' \in [Configs -> Seq(ProviderConfig)]
    <2>1. o \in ProviderConfig
      BY <1>1 DEF StoreTyped
    <2>2. p \in ProviderConfig
      BY <2>1, PatchedTyped
    <2>3. CASE Write(cur, p)
      BY <1>1, <2>2, <2>3, WriteTyped
    <2>4. CASE UNCHANGED api
      BY <2>4 DEF StoreTyped, api
    <2> QED
      BY <1>3, <2>3, <2>4
  <1>7. queue' \subseteq Configs /\ queue \subseteq queue'
    BY <1>1, <1>2 DEF StoreTyped
  <1>8. StoreTyped'
    BY <1>1, <1>5, <1>6, <1>7 DEF StoreTyped
  <1> QED
    BY <1>1, <1>3, <1>4, <1>5, <1>7, <1>8

LEMMA BAtWork ==
    ASSUME BWorkerTyped, bAt # "idle"
    PROVE  bCur \in Buckets /\ bCur # Nobody /\ ConfigOf[bCur] \in Configs
  BY ConstantAssumptions DEF BWorkerTyped

LEMMA BBeginEffect ==
    ASSUME StoreTyped, BWorkerTyped, NEW b \in Buckets, BBegin(b)
    PROVE  /\ StoreTyped' /\ BWorkerTyped'
           /\ UNCHANGED <<secret, secretEvents, api, cached, queue, worker, budget>>
           /\ bAt = "idle" /\ bCur = Nobody /\ bQueue' = bQueue \ {b}
           /\ LET o == cached[ConfigOf[b]] IN
              \/ /\ Present(o) /\ bAt' = "resolve" /\ bCur' = b /\ bRef' = o.ref
                 /\ outcome' = outcome
              \/ /\ ~Present(o) /\ outcome'[b] = "Failed" /\ bCur' = Nobody /\ bAt' = "idle"
                 /\ \A d \in Buckets : d # b => outcome'[d] = outcome[d]
  <1> DEFINE o == cached[ConfigOf[b]]
  <1>1. /\ UNCHANGED <<secret, secretEvents, api, cached, queue, worker, budget>>
        /\ bAt = "idle" /\ bCur = Nobody /\ bQueue' = bQueue \ {b}
    BY DEF BBegin, BWorkerTyped
  <1>2. StoreTyped'
    BY <1>1 DEF StoreTyped, api
  <1>3. o \in ProviderConfig /\ o.ref \in Secrets /\ b # Nobody
    BY ConfigFields, ConstantAssumptions DEF StoreTyped
  <1> HIDE DEF o
  <1>4. CASE /\ Present(o) /\ bAt' = "resolve" /\ bCur' = b /\ bRef' = o.ref
             /\ UNCHANGED <<bRead, outcome>>
    <2>1. BWorkerTyped'
      BY <1>3, <1>4 DEF BWorkerTyped
    <2> QED
      BY <1>1, <1>2, <1>4, <2>1 DEF o
  <1>5. CASE ~Present(o) /\ outcome' = [outcome EXCEPT ![b] = "Failed"] /\ UNCHANGED bWorker
    <2>1. BWorkerTyped'
      BY <1>5 DEF BWorkerTyped, bWorker
    <2>2. outcome'[b] = "Failed" /\ \A d \in Buckets : d # b => outcome'[d] = outcome[d]
      BY <1>5 DEF BWorkerTyped
    <2>3. bAt' = "idle" /\ bCur' = Nobody
      BY <1>1, <1>5 DEF bWorker
    <2> QED
      BY <1>1, <1>2, <1>5, <2>1, <2>2, <2>3 DEF o
  <1> QED
    BY <1>4, <1>5 DEF BBegin, o

LEMMA ResolveBucketEffect ==
    ASSUME StoreTyped, BWorkerTyped, ResolveBucket
    PROVE  /\ StoreTyped' /\ BWorkerTyped' /\ bAt = "resolve"
           /\ UNCHANGED <<secret, secretEvents, api, cached, queue, worker, budget, bQueue>>
           /\ LET d == secret[bRef].data IN
              \/ /\ d \in {"denied", "good"} /\ bAt' = "call" /\ bRead' = d
                 /\ UNCHANGED <<bCur, bRef, outcome>>
              \/ /\ d \in {"missing", "incomplete"} /\ bAt' = "idle" /\ bCur' = Nobody
                 /\ outcome'[bCur] = "Failed"
                 /\ \A b \in Buckets : b # bCur => outcome'[b] = outcome[b]
  <1> DEFINE d == secret[bRef].data
  <1>1. /\ bAt = "resolve" /\ bCur \in Buckets
        /\ UNCHANGED <<secret, secretEvents, api, cached, queue, worker, budget, bQueue>>
    BY BAtWork DEF ResolveBucket, BReturn
  <1>2. StoreTyped'
    BY <1>1 DEF StoreTyped, api
  <1>3. d \in Data
    BY SecretFields DEF StoreTyped, BWorkerTyped
  <1> HIDE DEF d
  <1>4. CASE /\ d \in {"denied", "good"} /\ bAt' = "call" /\ bRead' = d
             /\ UNCHANGED <<bCur, bRef, bQueue, outcome>>
    <2>1. BWorkerTyped'
      BY <1>1, <1>3, <1>4 DEF BWorkerTyped
    <2> QED
      BY <1>1, <1>2, <1>4, <2>1 DEF d
  <1>5. CASE d \in {"missing", "incomplete"} /\ BReturn("Failed")
    <2>1. BIdle /\ outcome' = [outcome EXCEPT ![bCur] = "Failed"]
      BY <1>5 DEF BReturn
    <2>2. /\ outcome' \in [Buckets -> {"none", "Ready", "ReadyEarly", "Failed"}]
          /\ outcome'[bCur] = "Failed" /\ \A b \in Buckets : b # bCur => outcome'[b] = outcome[b]
      BY <1>1, <2>1 DEF BWorkerTyped
    <2> QED
      BY <1>1, <1>2, <1>5, <2>1, <2>2, BIdleTyped DEF d
  <1> QED
    BY <1>4, <1>5 DEF ResolveBucket, d

LEMMA CallObsEffect ==
    ASSUME StoreTyped, BWorkerTyped, CallObs
    PROVE  /\ StoreTyped' /\ BWorkerTyped' /\ bAt = "call" /\ bAt' = "idle" /\ bCur' = Nobody
           /\ UNCHANGED <<secret, secretEvents, api, cached, queue, worker>>
           /\ budget'["flake"] = budget["flake"] /\ bQueue \subseteq bQueue'
           /\ \A b \in Buckets : b # bCur => outcome'[b] = outcome[b]
           /\ bCur \in bQueue' \/ outcome'[bCur] = CallVerdict
  <1>1. /\ bAt = "call" /\ bCur \in Buckets
        /\ UNCHANGED <<secret, secretEvents, api, cached, queue, worker>>
    BY BAtWork DEF CallObs
  <1>2. /\ BIdle
        /\ UNCHANGED budget \/ Spend("mishap")
        /\ \/ bQueue' = bQueue /\ outcome' = [outcome EXCEPT ![bCur] = CallVerdict]
           \/ bQueue' = bQueue \cup {bCur} /\ outcome' = [outcome EXCEPT ![bCur] = "Failed"]
    BY DEF CallObs, BReturn
  <1>3. CallVerdict \in {"none", "Ready", "ReadyEarly", "Failed"}
    BY DEF CallVerdict
  <1>4. /\ outcome' \in [Buckets -> {"none", "Ready", "ReadyEarly", "Failed"}]
        /\ \A b \in Buckets : b # bCur => outcome'[b] = outcome[b]
        /\ bCur \in bQueue' \/ outcome'[bCur] = CallVerdict
    BY <1>1, <1>2, <1>3 DEF BWorkerTyped
  <1>5. budget' \in [Kinds -> Nat] /\ budget'["flake"] = budget["flake"]
    <2>1. "mishap" # "flake"
      OBVIOUS
    <2> QED
      BY <1>2, <2>1, SpendTyped, KindsApart DEF StoreTyped
  <1>6. bQueue' \subseteq Buckets /\ bQueue \subseteq bQueue'
    BY <1>1, <1>2 DEF StoreTyped
  <1>7. StoreTyped'
    BY <1>1, <1>5, <1>6 DEF StoreTyped, api
  <1> QED
    BY <1>1, <1>2, <1>4, <1>5, <1>6, <1>7, BIdleTyped

(* What the remaining steps of the environment change.                      *)
LEMMA UserWriteEffect ==
    ASSUME StoreTyped, NEW c \in Configs, NEW o \in ProviderConfig, UserWrite(c, o)
    PROVE  /\ StoreTyped' /\ Write(c, o) /\ budget'["flake"] = budget["flake"]
           /\ UNCHANGED <<secret, secretEvents, cached, queue, worker, bQueue, bWorker, outcome>>
  <1>1. /\ Write(c, o) /\ Spend("config")
        /\ UNCHANGED <<secret, secretEvents, cached, queue, worker, bQueue, bWorker, outcome>>
    BY DEF UserWrite
  <1>2. budget' \in [Kinds -> Nat] /\ budget'["flake"] = budget["flake"]
    BY <1>1, SpendTyped, KindsApart
  <1>3. config' \in [Configs -> ProviderConfig] /\ watch' \in [Configs -> Seq(ProviderConfig)]
    BY <1>1, WriteTyped
  <1>4. StoreTyped'
    BY <1>1, <1>2, <1>3 DEF StoreTyped
  <1> QED
    BY <1>1, <1>2, <1>4

LEMMA DeliverSecretEffect ==
    ASSUME StoreTyped, NEW s \in Secrets, DeliverSecret(s)
    PROVE  /\ StoreTyped'
           /\ UNCHANGED <<secret, api, cached, worker, bQueue, bWorker, outcome, budget>>
           /\ secretEvents' = secretEvents \ {s} /\ queue \subseteq queue'
           /\ \A c \in Configs : Present(cached[c]) /\ cached[c].ref = s => c \in queue'
  <1>1. /\ UNCHANGED <<secret, api, cached, worker, bQueue, bWorker, outcome, budget>>
        /\ secretEvents' = secretEvents \ {s}
        /\ queue' = queue \cup {c \in Configs : Present(cached[c]) /\ cached[c].ref = s}
    BY DEF DeliverSecret, providerConfigsForSecret
  <1>2. StoreTyped'
    BY <1>1 DEF StoreTyped, api
  <1> QED
    BY <1>1, <1>2

LEMMA BucketEventEffect ==
    ASSUME StoreTyped, NEW b \in Buckets, BucketEvent(b)
    PROVE  /\ StoreTyped'
           /\ UNCHANGED <<secret, secretEvents, api, cached, queue, worker, bWorker, outcome>>
           /\ bQueue \subseteq bQueue' /\ budget'["flake"] = budget["flake"]
  <1>1. /\ UNCHANGED <<secret, secretEvents, api, cached, queue, worker, bWorker, outcome>>
        /\ bQueue' = bQueue \cup {b} /\ Spend("mishap")
    BY DEF BucketEvent
  <1>2. budget' \in [Kinds -> Nat] /\ budget'["flake"] = budget["flake"]
    BY <1>1, SpendTyped, KindsApart
  <1>3. StoreTyped'
    BY <1>1, <1>2 DEF StoreTyped, api
  <1> QED
    BY <1>1, <1>2, <1>3

LEMMA RestartEffect ==
    ASSUME StoreTyped, BWorkerTyped, Restart
    PROVE  /\ StoreTyped' /\ WorkerTyped' /\ BWorkerTyped'
           /\ UNCHANGED <<secret, config, outcome>> /\ budget'["flake"] = budget["flake"]
           /\ at' = "idle" /\ cur' = Nobody /\ bAt' = "idle" /\ bCur' = Nobody
           /\ cached' = config /\ (\A c \in Configs : watch'[c] = <<>>) /\ bQueue' = Buckets
           /\ \A c \in Configs : Present(config[c]) => c \in queue'
  <1>1. /\ UNCHANGED <<secret, config, outcome>> /\ Idle /\ BIdle /\ cached' = config
        /\ watch' = [c \in Configs |-> <<>>] /\ secretEvents' = {} /\ bQueue' = Buckets
        /\ queue' = {c \in Configs : Present(config[c])} /\ Spend("mishap")
    BY DEF Restart
  <1>2. budget' \in [Kinds -> Nat] /\ budget'["flake"] = budget["flake"]
    BY <1>1, SpendTyped, KindsApart
  <1>3. watch' \in [Configs -> Seq(ProviderConfig)]
    BY <1>1
  <1>4. StoreTyped'
    BY <1>1, <1>2, <1>3 DEF StoreTyped
  <1>5. outcome' \in [Buckets -> {"none", "Ready", "ReadyEarly", "Failed"}]
    BY <1>1 DEF BWorkerTyped
  <1>6. WorkerTyped' /\ at' = "idle" /\ cur' = Nobody
    BY <1>1, IdleTyped
  <1>7. BWorkerTyped' /\ bAt' = "idle" /\ bCur' = Nobody
    BY <1>1, <1>5, BIdleTyped
  <1> QED
    BY <1>1, <1>2, <1>4, <1>6, <1>7

(* Every step keeps the types.                                             *)
LEMMA TypeStep ==
    ASSUME TypeOK, [Next]_vars
    PROVE  TypeOK'
  <1>1. StoreTyped /\ WorkerTyped /\ BWorkerTyped
    BY TypeSplit
  <1>2. ASSUME NEW c \in Configs, Deliver(c) PROVE TypeOK'
    BY <1>1, <1>2, DeliverTyped, WorkerKept, BWorkerKept, TypeSplit
  <1>3. ASSUME NEW c \in Configs, Begin(c) PROVE TypeOK'
    BY <1>1, <1>3, BeginTyped, BWorkerKept, TypeSplit
  <1>4. ASSUME NEW c \in Configs,
               CreateProviderConfig(c) \/ EditProviderConfig(c) \/ DeleteProviderConfig(c)
        PROVE  TypeOK'
    <2>1. PICK o \in ProviderConfig : UserWrite(c, o)
      BY <1>1, <1>4, UserWriteTyped
    <2> QED
      BY <1>1, <2>1, UserWriteEffect, WorkerKept, BWorkerKept, TypeSplit
  <1>5. ASSUME NEW s \in Secrets, DeliverSecret(s) PROVE TypeOK'
    BY <1>1, <1>5, DeliverSecretEffect, WorkerKept, BWorkerKept, TypeSplit
  <1>6. ASSUME NEW s \in Secrets, ChangeSecret(s) PROVE TypeOK'
    BY <1>1, <1>6, ChangeSecretTyped, WorkerKept, BWorkerKept, TypeSplit
  <1>7. ASSUME NEW b \in Buckets, BBegin(b) PROVE TypeOK'
    <2>1. StoreTyped' /\ BWorkerTyped' /\ UNCHANGED worker
      BY <1>1, <1>7, BBeginEffect
    <2> QED
      BY <1>1, <2>1, WorkerKept, TypeSplit
  <1>8. ASSUME NEW b \in Buckets, BucketEvent(b) PROVE TypeOK'
    BY <1>1, <1>8, BucketEventEffect, WorkerKept, BWorkerKept, TypeSplit
  <1>9. CASE ResolveProviderConfigObject
    BY <1>1, <1>9, ResolveEffect, BWorkerKept, TypeSplit
  <1>10. CASE validateProviderClient
    BY <1>1, <1>10, ValidateEffect, BWorkerKept, TypeSplit
  <1>11. CASE updateProviderConfigStatus
    <2>1. StoreTyped' /\ WorkerTyped' /\ UNCHANGED <<bWorker, outcome>>
      BY <1>1, <1>11, StatusEffect
    <2> QED
      BY <1>1, <2>1, BWorkerKept, TypeSplit
  <1>12. CASE ResolveBucket
    BY <1>1, <1>12, ResolveBucketEffect, WorkerKept, TypeSplit
  <1>13. CASE CallObs
    BY <1>1, <1>13, CallObsEffect, WorkerKept, TypeSplit
  <1>14. CASE Restart
    BY <1>1, <1>14, RestartEffect, TypeSplit
  <1>15. CASE UNCHANGED vars
    <2>1. StoreTyped'
      BY <1>1, <1>15 DEF StoreTyped, vars
    <2> QED
      BY <1>1, <1>15, <2>1, WorkerKept, BWorkerKept, TypeSplit DEF vars
  <1> QED
    BY <1>2, <1>3, <1>4, <1>5, <1>6, <1>7, <1>8, <1>9, <1>10, <1>11, <1>12, <1>13, <1>14, <1>15
       DEF Next, Reconcile, BReconcile

LEMMA TypeInit ==
    ASSUME Init
    PROVE  TypeOK
  <1>1. /\ secret = [s \in Secrets |-> NoSecret] /\ config = [c \in Configs |-> NoConfig]
        /\ cached = config /\ watch = [c \in Configs |-> <<>>]
        /\ copy = NoConfig /\ verdict = NoVerdict
    BY DEF Init, NoConfig, NoVerdict
  <1>2. StoreTyped
    <2>1. secret \in [Secrets -> Secret] /\ config \in [Configs -> ProviderConfig]
      BY <1>1, NoneTyped
    <2>2. watch \in [Configs -> Seq(ProviderConfig)]
      BY <1>1
    <2> QED
      BY <1>1, <2>1, <2>2, ConstantAssumptions DEF Init, StoreTyped
  <1>3. WorkerTyped
    BY <1>1, NoneTyped DEF Init, WorkerTyped
  <1>4. BWorkerTyped
    BY NoneTyped DEF Init, BWorkerTyped, Data
  <1> QED
    BY <1>2, <1>3, <1>4, TypeSplit

(* Every variable keeps its type; above all a merge patch of a status, some  *)
(* fields from the worker's copy and some from the server, is a status.     *)
THEOREM ConfigsTyped == Spec => []TypeOK
  <1>1. Init => TypeOK
    BY TypeInit
  <1>2. TypeOK /\ [Next]_vars => TypeOK'
    BY TypeStep
  <1> QED
    BY <1>1, <1>2, PTL DEF Spec

-----------------------------------------------------------------------------
(* The condition of a ProviderConfig.                                      *)

(* The informer's copy is the ProviderConfig, or on its way to it.          *)
InStep ==
    \A c \in Configs :
        IF watch[c] = <<>> THEN cached[c] = config[c] ELSE watch[c][Len(watch[c])] = config[c]

(* A reconcile of ProviderConfig c is owed: by an event of its own, or by    *)
(* one of the Secret it refers to.                                         *)
Moved(c) == watch[c] # <<>> \/ c \in queue
Stirred(c) == Moved(c) \/ config[c].ref \in secretEvents

(* What resolving o with Secret s may come to; a flake hides the rest.        *)
RevisionOf(o, s) ==
    IF s.data \in {"denied", "good"} THEN observedProviderRevision(o, s) ELSE NoRevision
FlakeSpent == budget["flake"] < Budget["flake"]
Tells(reason, rev, o, s) ==
    \/ reason = ReasonOf(s.data) /\ rev = RevisionOf(o, s)
    \/ FlakeSpent /\ reason = "ClientBuildFailed" /\ rev = NoRevision
    \/ FlakeSpent /\ reason = "ClientValidationFailed" /\ rev = RevisionOf(o, s)

(* A worker that no later event will call again works with the              *)
(* ProviderConfig and the Secret as they are.                              *)
CopyFresh ==
    at # "idle" /\ ~Moved(cur) => copy = config[cur] /\ Present(copy)
ReadFresh ==
    at # "idle" /\ ~Stirred(cur) =>
        /\ at = "validate" => read = secret[copy.ref]
        /\ at = "status" => Tells(verdict.reason, verdict.rev, copy, secret[copy.ref])
ReadValid == at = "validate" => read.data \in {"denied", "good"}

(* A status that nobody is going to look at again is current.               *)
Settled(c) == Present(config[c]) /\ ~Stirred(c) /\ cur # c
Reported(c) ==
    LET o == config[c] IN
    /\ o.status.gen = o.gen /\ o.status.cond.gen = o.gen
    /\ Tells(o.status.cond.reason, o.status.rev, o, secret[o.ref])
StatusCurrent == \A c \in Configs : Settled(c) => Reported(c)

FlakesBounded == budget["flake"] <= Budget["flake"]

Reporting ==
    InStep /\ CopyFresh /\ ReadFresh /\ ReadValid /\ StatusCurrent /\ FlakesBounded

LEMMA FlakesNumbers ==
    ASSUME StoreTyped
    PROVE  budget["flake"] \in Nat /\ Budget["flake"] \in Nat
  BY ConstantAssumptions, KindsApart DEF StoreTyped

LEMMA ReportedKept ==
    ASSUME NEW c \in Configs, Reported(c), FlakeSpent => FlakeSpent',
           config'[c] = config[c], secret'[config[c].ref] = secret[config[c].ref]
    PROVE  Reported(c)'
  BY DEF Reported, Tells

(* A step of somebody else than the worker owes a reconcile for all that it  *)
(* changes, and takes none back.                                           *)
Owed ==
    /\ UNCHANGED worker /\ budget'["flake"] = budget["flake"]
    /\ \A d \in Configs : Moved(d)' \/ (~Moved(d) /\ config'[d] = config[d])
    /\ \A d \in Configs : Present(config[d]) =>
          \/ Stirred(d)'
          \/ /\ ~Stirred(d) /\ config'[d] = config[d]
             /\ secret'[config[d].ref] = secret[config[d].ref]

(* What such a step leaves settled was so before.                          *)
LEMMA OthersSettled ==
    ASSUME Owed, NEW d \in Configs, Settled(d)'
    PROVE  /\ Settled(d) /\ config'[d] = config[d]
           /\ secret'[config[d].ref] = secret[config[d].ref]
  <1>1. Present(config'[d]) /\ ~Stirred(d)' /\ cur # d /\ ~Moved(d)'
    BY DEF Owed, worker, Settled, Stirred, Present
  <1>2. config'[d] = config[d] /\ Present(config[d])
    BY <1>1 DEF Owed
  <1>3. ~Stirred(d) /\ secret'[config[d].ref] = secret[config[d].ref]
    BY <1>1, <1>2 DEF Owed
  <1> QED
    BY <1>1, <1>2, <1>3 DEF Settled

LEMMA OthersReporting ==
    ASSUME StoreTyped, WorkerTyped, Reporting, InStep', Owed
    PROVE  Reporting'
  <1>1. CopyFresh /\ ReadFresh /\ ReadValid /\ StatusCurrent /\ FlakesBounded
    BY DEF Reporting
  <1>2. /\ at' = at /\ cur' = cur /\ copy' = copy /\ read' = read /\ verdict' = verdict
    BY DEF Owed, worker
  <1>3. (FlakeSpent => FlakeSpent') /\ FlakesBounded'
    BY <1>1 DEF Owed, FlakeSpent, FlakesBounded
  <1>4. \A d \in Configs : ~Stirred(d)' => ~Moved(d)'
    BY DEF Stirred
  <1>5. CopyFresh'
    <2> SUFFICES ASSUME at # "idle", ~Moved(cur)' PROVE copy = config'[cur] /\ Present(copy)
      BY <1>2 DEF CopyFresh, Present
    <2>1. PICK c \in Configs : c = cur
      BY AtWork
    <2>2. ~Moved(c)'
      BY <1>2, <2>1 DEF Moved
    <2> QED
      BY <1>1, <2>1, <2>2 DEF Owed, CopyFresh
  <1>6. ReadFresh'
    <2> SUFFICES ASSUME at # "idle", ~Stirred(cur)'
                 PROVE  /\ at = "validate" => read = secret'[copy.ref]
                        /\ at = "status" =>
                              Tells(verdict.reason, verdict.rev, copy, secret[copy.ref])'
      BY <1>2 DEF ReadFresh
    <2>1. PICK c \in Configs : c = cur
      BY AtWork
    <2>2. ~Stirred(c)' /\ ~Moved(c)'
      BY <1>2, <1>4, <2>1 DEF Stirred, Moved
    <2>3. copy = config[c] /\ Present(config[c])
      BY <1>1, <2>1, <2>2 DEF Owed, CopyFresh
    <2>4. ~Stirred(c) /\ secret'[copy.ref] = secret[copy.ref]
      BY <2>2, <2>3 DEF Owed
    <2>5. /\ at = "validate" => read = secret[copy.ref]
          /\ at = "status" => Tells(verdict.reason, verdict.rev, copy, secret[copy.ref])
      BY <1>1, <2>1, <2>4 DEF ReadFresh
    <2> QED
      BY <1>2, <1>3, <2>4, <2>5 DEF Tells
  <1>7. ReadValid'
    BY <1>1, <1>2 DEF ReadValid
  <1>8. StatusCurrent'
    BY <1>1, <1>3, OthersSettled, ReportedKept DEF StatusCurrent
  <1> QED
    BY <1>3, <1>5, <1>6, <1>7, <1>8 DEF Reporting

LEMMA InStepKept ==
    ASSUME InStep, UNCHANGED <<api, cached>>
    PROVE  InStep'
  BY DEF InStep, api

LEMMA InStepWritten ==
    ASSUME StoreTyped, InStep, NEW c \in Configs, NEW o \in ProviderConfig, Write(c, o),
           UNCHANGED cached
    PROVE  InStep'
  <1>1. /\ config'[c] = o /\ watch'[c] # <<>> /\ watch'[c][Len(watch'[c])] = o
        /\ \A d \in Configs : d # c => config'[d] = config[d] /\ watch'[d] = watch[d]
    BY WriteTyped
  <1> SUFFICES ASSUME NEW d \in Configs
               PROVE  IF watch'[d] = <<>> THEN cached'[d] = config'[d]
                      ELSE watch'[d][Len(watch'[d])] = config'[d]
    BY DEF InStep
  <1> QED
    BY <1>1 DEF InStep

LEMMA InStepDelivered ==
    ASSUME StoreTyped, InStep, NEW c \in Configs, Deliver(c)
    PROVE  InStep'
  <1>1. /\ watch[c] # <<>> /\ watch'[c] = Tail(watch[c]) /\ cached'[c] = Head(watch[c])
        /\ config' = config
        /\ \A d \in Configs : d # c => watch'[d] = watch[d] /\ cached'[d] = cached[d]
    BY DeliverTyped
  <1>2. watch[c] \in Seq(ProviderConfig) /\ watch[c][Len(watch[c])] = config[c]
    BY <1>1 DEF StoreTyped, InStep
  <1>3. IF watch'[c] = <<>> THEN cached'[c] = config'[c]
        ELSE watch'[c][Len(watch'[c])] = config'[c]
    BY <1>1, <1>2, HeadAndTail
  <1> SUFFICES ASSUME NEW d \in Configs
               PROVE  IF watch'[d] = <<>> THEN cached'[d] = config'[d]
                      ELSE watch'[d][Len(watch'[d])] = config'[d]
    BY DEF InStep
  <1> QED
    BY <1>1, <1>3 DEF InStep

LEMMA DeliverOwed ==
    ASSUME StoreTyped, InStep, NEW c \in Configs, Deliver(c)
    PROVE  InStep' /\ Owed
  <1>1. InStep'
    BY InStepDelivered
  <1>2. /\ UNCHANGED <<secret, secretEvents, config, worker, budget>>
        /\ c \in queue' /\ queue \subseteq queue'
        /\ \A d \in Configs : d # c => watch'[d] = watch[d]
    BY DeliverTyped
  <1>3. \A d \in Configs : Moved(d)' \/ (~Moved(d) /\ config'[d] = config[d])
    BY <1>2 DEF Moved
  <1>4. \A d \in Configs : Stirred(d)' \/ ~Stirred(d)
    BY <1>2, <1>3 DEF Stirred
  <1> QED
    BY <1>1, <1>2, <1>3, <1>4 DEF Owed

LEMMA UserOwed ==
    ASSUME StoreTyped, InStep, NEW c \in Configs, NEW o \in ProviderConfig,
           UserWrite(c, o)
    PROVE  InStep' /\ Owed
  <1>1. /\ Write(c, o) /\ budget'["flake"] = budget["flake"]
        /\ UNCHANGED <<secret, secretEvents, cached, queue, worker>>
    BY UserWriteEffect
  <1>2. InStep'
    BY <1>1, InStepWritten
  <1>3. /\ watch'[c] # <<>>
        /\ \A d \in Configs : d # c => config'[d] = config[d] /\ watch'[d] = watch[d]
    BY <1>1, WriteTyped
  <1>4. \A d \in Configs : Moved(d)' \/ (~Moved(d) /\ config'[d] = config[d])
    BY <1>1, <1>3 DEF Moved
  <1>5. \A d \in Configs : Stirred(d)' \/ (~Stirred(d) /\ config'[d] = config[d])
    BY <1>1, <1>4 DEF Stirred
  <1> QED
    BY <1>1, <1>2, <1>4, <1>5 DEF Owed

LEMMA DeliverSecretOwed ==
    ASSUME StoreTyped, InStep, NEW s \in Secrets, DeliverSecret(s)
    PROVE  InStep' /\ Owed
  <1>1. /\ UNCHANGED <<secret, api, cached, worker, budget>>
        /\ secretEvents' = secretEvents \ {s} /\ queue \subseteq queue'
        /\ \A c \in Configs : Present(cached[c]) /\ cached[c].ref = s => c \in queue'
    BY DeliverSecretEffect
  <1>2. InStep /\ InStep'
    BY <1>1, InStepKept
  <1>3. \A d \in Configs : Moved(d)' \/ (~Moved(d) /\ config'[d] = config[d])
    BY <1>1 DEF Moved, api
  <1>4. ASSUME NEW d \in Configs, Present(config[d]), ~Stirred(d)'
        PROVE  ~Stirred(d)
    <2>1. ~Moved(d)' /\ ~Moved(d) /\ config'[d].ref \notin secretEvents'
      BY <1>3, <1>4 DEF Stirred
    <2>2. cached[d] = config[d] /\ d \notin queue' /\ config'[d] = config[d]
      BY <1>1, <1>2, <2>1 DEF Moved, InStep, api
    <2>3. config[d].ref # s
      BY <1>1, <1>4, <2>2
    <2> QED
      BY <1>1, <2>1, <2>2, <2>3 DEF Stirred
  <1> QED
    BY <1>1, <1>2, <1>3, <1>4 DEF Owed, api

LEMMA ChangeSecretOwed ==
    ASSUME StoreTyped, InStep, NEW s \in Secrets, ChangeSecret(s)
    PROVE  InStep' /\ Owed
  <1>1. /\ UNCHANGED <<api, cached, queue, worker>> /\ budget'["flake"] = budget["flake"]
        /\ secretEvents' = secretEvents \cup {s}
        /\ \A t \in Secrets : t # s => secret'[t] = secret[t]
    BY ChangeSecretTyped
  <1>2. InStep'
    BY <1>1, InStepKept
  <1>3. \A d \in Configs : Moved(d)' \/ (~Moved(d) /\ config'[d] = config[d])
    BY <1>1 DEF Moved, api
  <1>4. ASSUME NEW d \in Configs, ~Stirred(d)'
        PROVE  ~Stirred(d) /\ secret'[config[d].ref] = secret[config[d].ref]
    <2>1. config[d].ref \in Secrets
      BY ConfigFields DEF StoreTyped
    <2>2. ~Moved(d) /\ config'[d] = config[d] /\ config[d].ref \notin secretEvents'
      BY <1>1, <1>3, <1>4 DEF Stirred, api
    <2> QED
      BY <1>1, <2>1, <2>2 DEF Stirred
  <1> QED
    BY <1>1, <1>2, <1>3, <1>4 DEF Owed, api

LEMMA BucketsOwed ==
    ASSUME InStep, budget'["flake"] = budget["flake"],
           UNCHANGED <<secret, secretEvents, api, cached, queue, worker>>
    PROVE  InStep' /\ Owed
  <1>1. InStep'
    BY InStepKept
  <1>2. \A d \in Configs : Moved(d)' \/ (~Moved(d) /\ config'[d] = config[d])
    BY DEF Moved, api
  <1>3. \A d \in Configs : Stirred(d)' \/ ~Stirred(d)
    BY <1>2 DEF Stirred, api
  <1> QED
    BY <1>1, <1>2, <1>3 DEF Owed, api

(* The steps of the worker.  Those before the last leave every settled       *)
(* ProviderConfig but the worker's own as it is.                           *)
LEMMA SettledKept ==
    ASSUME StatusCurrent, FlakeSpent => FlakeSpent', UNCHANGED <<secret, config>>,
           \A d \in Configs : Settled(d)' => Settled(d)
    PROVE  StatusCurrent'
  BY ReportedKept DEF StatusCurrent

LEMMA BeginSettled ==
    ASSUME StoreTyped, WorkerTyped, InStep, NEW c \in Configs, Begin(c),
           NEW d \in Configs, Settled(d)'
    PROVE  Settled(d)
  <1>1. /\ UNCHANGED <<secretEvents, api, cached>> /\ cur = Nobody /\ queue' = queue \ {c}
        /\ \/ Present(cached[c]) /\ cur' = c
           \/ ~Present(cached[c])
    BY BeginTyped
  <1>2. ~Moved(c)' => cached[c] = config[c]
    BY <1>1 DEF Moved, InStep, api
  <1>3. d # c
    BY <1>1, <1>2 DEF Settled, Stirred, api
  <1>4. cur # d
    BY <1>1, ConstantAssumptions
  <1> QED
    BY <1>1, <1>3, <1>4 DEF Settled, Stirred, Moved, api

LEMMA BeginReporting ==
    ASSUME StoreTyped, WorkerTyped, Reporting, NEW c \in Configs, Begin(c)
    PROVE  Reporting'
  <1>1. /\ UNCHANGED <<secret, secretEvents, api, cached, budget>>
        /\ at = "idle" /\ cur = Nobody /\ queue' = queue \ {c}
        /\ \/ /\ Present(cached[c]) /\ at' = "resolve" /\ cur' = c /\ copy' = cached[c]
           \/ ~Present(cached[c]) /\ UNCHANGED worker
    BY BeginTyped
  <1>2. InStep /\ InStep' /\ StatusCurrent
    BY <1>1, InStepKept DEF Reporting
  <1>3. ~Moved(c)' => cached[c] = config[c]
    BY <1>1, <1>2 DEF Moved, InStep, api
  <1>4. CopyFresh' /\ ReadFresh' /\ ReadValid'
    BY <1>1, <1>3 DEF CopyFresh, ReadFresh, ReadValid, api, worker
  <1>5. StatusCurrent' /\ FlakesBounded'
    BY <1>1, <1>2, BeginSettled, SettledKept DEF FlakeSpent, api, FlakesBounded, Reporting
  <1> QED
    BY <1>2, <1>4, <1>5 DEF Reporting

LEMMA FlakeCounts ==
    ASSUME StoreTyped, FlakesBounded, Spend("flake")
    PROVE  FlakeSpent' /\ FlakesBounded'
  <1>1. budget["flake"] \in Nat /\ Budget["flake"] \in Nat
    BY FlakesNumbers
  <1>2. budget'["flake"] = budget["flake"] - 1
    BY SpendTyped, KindsApart
  <1> QED
    BY <1>1, <1>2 DEF FlakeSpent, FlakesBounded

LEMMA ResolveReporting ==
    ASSUME StoreTyped, WorkerTyped, Reporting, ResolveProviderConfigObject
    PROVE  Reporting'
  <1> DEFINE s == secret[copy.ref]
  <1>1. /\ at = "resolve"
        /\ UNCHANGED <<secret, secretEvents, api, cached, queue, cur, copy>>
        /\ \/ /\ s.data \in {"denied", "good"} /\ at' = "validate" /\ read' = s
              /\ UNCHANGED budget
           \/ /\ s.data \in {"missing", "incomplete"} /\ at' = "status" /\ UNCHANGED budget
              /\ verdict'.reason = ReasonOf(s.data) /\ verdict'.rev = NoRevision
           \/ /\ Spend("flake") /\ at' = "status"
              /\ verdict'.reason = "ClientBuildFailed" /\ verdict'.rev = NoRevision
    BY ResolveEffect
  <1>2. InStep' /\ StatusCurrent /\ CopyFresh /\ FlakesBounded
    BY <1>1, InStepKept DEF Reporting
  <1>3. (FlakeSpent => FlakeSpent') /\ FlakesBounded'
    BY <1>1, <1>2, FlakeCounts DEF FlakeSpent, FlakesBounded
  <1>4. \A d \in Configs : Moved(d)' = Moved(d) /\ Stirred(d)' = Stirred(d)
    BY <1>1 DEF Moved, Stirred, api
  <1>5. CopyFresh'
    BY <1>1, <1>2 DEF CopyFresh, Moved, api
  <1>6. ReadValid'
    BY <1>1 DEF ReadValid
  <1>7. ReadFresh'
    <2>1. CASE s.data \in {"denied", "good"} /\ at' = "validate" /\ read' = s
      BY <1>1, <2>1 DEF ReadFresh
    <2>2. CASE /\ s.data \in {"missing", "incomplete"} /\ at' = "status"
               /\ verdict'.reason = ReasonOf(s.data) /\ verdict'.rev = NoRevision
      <3>1. RevisionOf(copy, s) = NoRevision
        BY <2>2 DEF RevisionOf
      <3>2. Tells(verdict.reason, verdict.rev, copy, secret[copy.ref])'
        BY <1>1, <2>2, <3>1 DEF Tells
      <3> QED
        BY <2>2, <3>2 DEF ReadFresh
    <2>3. CASE /\ Spend("flake") /\ at' = "status"
               /\ verdict'.reason = "ClientBuildFailed" /\ verdict'.rev = NoRevision
      <3>1. Tells(verdict.reason, verdict.rev, copy, secret[copy.ref])'
        BY <1>2, <2>3, FlakeCounts DEF Tells
      <3> QED
        BY <2>3, <3>1 DEF ReadFresh
    <2> QED
      BY <1>1, <2>1, <2>2, <2>3
  <1>8. StatusCurrent'
    <2>1. \A d \in Configs : Settled(d)' => Settled(d)
      BY <1>1, <1>4 DEF Settled, api
    <2> QED
      BY <1>1, <1>2, <1>3, <2>1, SettledKept DEF api
  <1> QED
    BY <1>2, <1>3, <1>5, <1>6, <1>7, <1>8 DEF Reporting

LEMMA ValidateReporting ==
    ASSUME StoreTyped, WorkerTyped, Reporting, validateProviderClient
    PROVE  Reporting'
  <1>1. /\ at = "validate" /\ at' = "status"
        /\ UNCHANGED <<secret, secretEvents, api, cached, queue, cur, copy, read>>
        /\ verdict'.rev = observedProviderRevision(copy, read)
        /\ \/ read.data = "good" /\ verdict'.reason = "ClientValidated" /\ UNCHANGED budget
           \/ /\ read.data = "denied" /\ verdict'.reason = "ClientValidationFailed"
              /\ UNCHANGED budget
           \/ Spend("flake") /\ verdict'.reason = "ClientValidationFailed"
    BY ValidateEffect
  <1>2. InStep' /\ StatusCurrent /\ CopyFresh /\ ReadFresh /\ ReadValid /\ FlakesBounded
    BY <1>1, InStepKept DEF Reporting
  <1>3. (FlakeSpent => FlakeSpent') /\ FlakesBounded'
    BY <1>1, <1>2, FlakeCounts DEF FlakeSpent, FlakesBounded
  <1>4. \A d \in Configs : Moved(d)' = Moved(d) /\ Stirred(d)' = Stirred(d)
    BY <1>1 DEF Moved, Stirred, api
  <1>5. CopyFresh'
    BY <1>1, <1>2 DEF CopyFresh, Moved, api
  <1>6. ReadValid'
    BY <1>1 DEF ReadValid
  <1>7. ReadFresh'
    <2> SUFFICES ASSUME ~Stirred(cur)'
                 PROVE  Tells(verdict.reason, verdict.rev, copy, secret[copy.ref])'
      BY <1>1 DEF ReadFresh
    <2>1. ~Stirred(cur)
      BY <1>1 DEF Stirred, Moved, api
    <2>2. read = secret[copy.ref] /\ read.data \in {"denied", "good"}
      BY <1>1, <1>2, <2>1 DEF ReadFresh, ReadValid
    <2>3. verdict'.rev = RevisionOf(copy, secret[copy.ref])
      BY <1>1, <2>2 DEF RevisionOf
    <2>4. CASE read.data = "good" /\ verdict'.reason = "ClientValidated"
      BY <1>1, <2>2, <2>3, <2>4 DEF Tells, ReasonOf
    <2>5. CASE read.data = "denied" /\ verdict'.reason = "ClientValidationFailed"
      BY <1>1, <2>2, <2>3, <2>5 DEF Tells, ReasonOf
    <2>6. CASE Spend("flake") /\ verdict'.reason = "ClientValidationFailed"
      BY <1>1, <1>2, <2>3, <2>6, FlakeCounts DEF Tells
    <2> QED
      BY <1>1, <2>4, <2>5, <2>6
  <1>8. StatusCurrent'
    <2>1. \A d \in Configs : Settled(d)' => Settled(d)
      BY <1>1, <1>4 DEF Settled, api
    <2> QED
      BY <1>1, <1>2, <1>3, <2>1, SettledKept DEF api
  <1> QED
    BY <1>2, <1>3, <1>5, <1>6, <1>7, <1>8 DEF Reporting

(* A patch against the server's own version has nothing to keep from it: it  *)
(* changes something whenever the status was found to differ.               *)
LEMMA PatchAgainstItself ==
    ASSUME WorkerTyped, Patched(copy) = copy
    PROVE  copy.status = NextStatus
  <1> DEFINE m == Merged(copy.status, copy.status, NextStatus)
  <1>1. copy \in ProviderConfig /\ copy.status \in Status /\ NextStatus \in Status
    BY ConfigFields, NextStatusTyped DEF WorkerTyped
  <1>2. copy.status = m
    BY <1>1, PatchedTyped
  <1>3. m.gen = NextStatus.gen /\ m.rev = NextStatus.rev /\ m.cond = NextStatus.cond
    BY <1>1, MergedFields
  <1> QED
    BY <1>1, <1>2, <1>3 DEF Status

(* Once the worker lets go of a ProviderConfig without an event to come, it  *)
(* had the ProviderConfig as it is, and found nothing to change.            *)
LEMMA StatusSettles ==
    ASSUME StoreTyped, WorkerTyped, CopyFresh, updateProviderConfigStatus,
           NEW d \in Configs, Settled(d)'
    PROVE  /\ config'[d] = config[d]
           /\ \/ d # cur /\ Settled(d)
              \/ d = cur /\ ~Stirred(d) /\ copy = config[d] /\ copy.status = NextStatus
  <1>1. PICK c \in Configs : c = cur
    BY StatusEffect
  <1>2. at = "status" /\ queue \subseteq queue' /\ UNCHANGED secretEvents
    BY StatusEffect
  <1>3. \/ copy.status = NextStatus /\ queue' = queue /\ UNCHANGED api
        \/ Write(c, Patched(config[c]))
        \/ copy.status # NextStatus /\ Patched(config[c]) = config[c] /\ UNCHANGED api
        \/ c \in queue' /\ UNCHANGED api
    BY <1>1, StatusEffect
  <1>4. Patched(config[c]) \in ProviderConfig
    BY PatchedTyped DEF StoreTyped
  <1>5. ~Stirred(d)' /\ Present(config'[d]) /\ watch'[d] = <<>> /\ d \notin queue'
    BY DEF Settled, Stirred, Moved, Present
  <1>6. CASE d # c
    <2>1. config'[d] = config[d] /\ watch'[d] = watch[d]
      <3>1. CASE Write(c, Patched(config[c]))
        BY <1>4, <1>6, <3>1, WriteTyped
      <3>2. CASE UNCHANGED api
        BY <3>2 DEF api
      <3> QED
        BY <1>3, <3>1, <3>2
    <2> QED
      BY <1>1, <1>2, <1>5, <1>6, <2>1 DEF Settled, Stirred, Moved
  <1>7. CASE d = c
    <2>1. ASSUME Write(c, Patched(config[c])) PROVE FALSE
      BY <1>4, <1>5, <1>7, <2>1, WriteTyped
    <2>2. UNCHANGED api
      BY <1>3, <2>1
    <2>3. ~Moved(c) /\ ~Stirred(c)
      BY <1>2, <1>5, <1>7, <2>2 DEF Stirred, Moved, api
    <2>4. copy = config[c]
      BY <1>1, <1>2, <2>3 DEF CopyFresh
    <2>5. copy.status = NextStatus
      BY <1>3, <1>5, <1>7, <2>1, <2>4, PatchAgainstItself
    <2> QED
      BY <1>1, <1>7, <2>2, <2>3, <2>4, <2>5 DEF api
  <1> QED
    BY <1>6, <1>7

LEMMA StatusReporting ==
    ASSUME StoreTyped, WorkerTyped, Reporting, updateProviderConfigStatus
    PROVE  Reporting'
  <1>1. /\ at = "status" /\ at' = "idle" /\ cur \in Configs
        /\ UNCHANGED <<secret, cached>> /\ budget'["flake"] = budget["flake"]
        /\ Write(cur, Patched(config[cur])) \/ UNCHANGED api
    BY StatusEffect
  <1>2. InStep /\ CopyFresh /\ ReadFresh /\ StatusCurrent /\ FlakesBounded
    BY DEF Reporting
  <1>3. InStep'
    <2>1. Patched(config[cur]) \in ProviderConfig
      BY <1>1, PatchedTyped DEF StoreTyped
    <2> QED
      BY <1>1, <1>2, <2>1, InStepWritten, InStepKept
  <1>4. CopyFresh' /\ ReadFresh' /\ ReadValid'
    BY <1>1 DEF CopyFresh, ReadFresh, ReadValid
  <1>5. FlakesBounded' /\ (FlakeSpent => FlakeSpent')
    BY <1>1, <1>2 DEF FlakesBounded, FlakeSpent
  <1>6. ASSUME NEW d \in Configs, Settled(d)'
        PROVE  Reported(d)'
    <2>1. config'[d] = config[d]
      BY <1>2, <1>6, StatusSettles
    <2>2. CASE Settled(d)
      BY <1>1, <1>2, <1>5, <2>1, <2>2, ReportedKept DEF StatusCurrent
    <2>3. CASE d = cur /\ ~Stirred(d) /\ copy = config[d] /\ copy.status = NextStatus
      <3>1. Tells(verdict.reason, verdict.rev, copy, secret[copy.ref])
        BY <1>1, <1>2, <2>3 DEF ReadFresh
      <3>2. /\ copy.status.gen = copy.gen /\ copy.status.cond.gen = copy.gen
            /\ copy.status.rev = verdict.rev /\ copy.status.cond.reason = verdict.reason
        BY <2>3, NextStatusTyped
      <3>3. Reported(d)
        BY <2>3, <3>1, <3>2 DEF Reported
      <3> QED
        BY <1>1, <1>5, <2>1, <3>3, ReportedKept
    <2> QED
      BY <1>2, <1>6, <2>2, <2>3, StatusSettles
  <1> QED
    BY <1>3, <1>4, <1>5, <1>6 DEF Reporting, StatusCurrent

LEMMA RestartReporting ==
    ASSUME StoreTyped, BWorkerTyped, Reporting, Restart
    PROVE  Reporting'
  <1>1. /\ UNCHANGED <<secret, config>> /\ budget'["flake"] = budget["flake"]
        /\ at' = "idle" /\ cached' = config /\ \A c \in Configs : watch'[c] = <<>>
        /\ \A c \in Configs : Present(config[c]) => c \in queue'
    BY RestartEffect
  <1>2. InStep'
    BY <1>1 DEF InStep
  <1>3. CopyFresh' /\ ReadFresh' /\ ReadValid'
    BY <1>1 DEF CopyFresh, ReadFresh, ReadValid
  <1>4. StatusCurrent'
    BY <1>1 DEF StatusCurrent, Settled, Stirred, Moved
  <1>5. FlakesBounded'
    BY <1>1 DEF FlakesBounded, Reporting
  <1> QED
    BY <1>2, <1>3, <1>4, <1>5 DEF Reporting

(* The steps that are not the worker's, nor a restart.                      *)
Others ==
    \/ \E c \in Configs : \/ Deliver(c)
                          \/ CreateProviderConfig(c) \/ EditProviderConfig(c)
                          \/ DeleteProviderConfig(c)
    \/ \E s \in Secrets : DeliverSecret(s) \/ ChangeSecret(s)
    \/ \E b \in Buckets : BBegin(b) \/ BucketEvent(b)
    \/ BReconcile \/ UNCHANGED vars

LEMMA StepsSplit ==
    ASSUME [Next]_vars
    PROVE  Others \/ (\E c \in Configs : Begin(c)) \/ Reconcile \/ Restart
  BY DEF Next, Others

LEMMA OthersOwed ==
    ASSUME TypeOK, InStep, Others
    PROVE  InStep' /\ Owed
  <1>1. StoreTyped /\ BWorkerTyped
    BY TypeSplit
  <1>2. ASSUME NEW c \in Configs, Deliver(c) PROVE InStep' /\ Owed
    BY <1>1, <1>2, DeliverOwed
  <1>3. ASSUME NEW c \in Configs,
               CreateProviderConfig(c) \/ EditProviderConfig(c) \/ DeleteProviderConfig(c)
        PROVE  InStep' /\ Owed
    BY <1>1, <1>3, UserWriteTyped, UserOwed
  <1>4. ASSUME NEW s \in Secrets, DeliverSecret(s) \/ ChangeSecret(s) PROVE InStep' /\ Owed
    BY <1>1, <1>4, DeliverSecretOwed, ChangeSecretOwed
  <1>5. ASSUME NEW b \in Buckets, BBegin(b) PROVE InStep' /\ Owed
    <2>1. UNCHANGED <<secret, secretEvents, api, cached, queue, worker, budget>>
      BY <1>1, <1>5, BBeginEffect
    <2> QED
      BY <2>1, BucketsOwed
  <1>6. ASSUME NEW b \in Buckets, BucketEvent(b) PROVE InStep' /\ Owed
    <2>1. /\ UNCHANGED <<secret, secretEvents, api, cached, queue, worker>>
          /\ budget'["flake"] = budget["flake"]
      BY <1>1, <1>6, BucketEventEffect
    <2> QED
      BY <2>1, BucketsOwed
  <1>7. CASE ResolveBucket
    <2>1. UNCHANGED <<secret, secretEvents, api, cached, queue, worker, budget>>
      BY <1>1, <1>7, ResolveBucketEffect
    <2> QED
      BY <2>1, BucketsOwed
  <1>8. CASE CallObs
    <2>1. /\ UNCHANGED <<secret, secretEvents, api, cached, queue, worker>>
          /\ budget'["flake"] = budget["flake"]
      BY <1>1, <1>8, CallObsEffect
    <2> QED
      BY <2>1, BucketsOwed
  <1>9. CASE UNCHANGED vars
    BY <1>9, BucketsOwed DEF vars, api
  <1> QED
    BY <1>2, <1>3, <1>4, <1>5, <1>6, <1>7, <1>8, <1>9 DEF Others, BReconcile

LEMMA ReportingStep ==
    ASSUME TypeOK, Reporting, [Next]_vars
    PROVE  Reporting'
  <1>1. StoreTyped /\ WorkerTyped /\ BWorkerTyped
    BY TypeSplit
  <1>2. CASE Others
    <2>1. InStep' /\ Owed
      BY <1>2, OthersOwed DEF Reporting
    <2> QED
      BY <1>1, <2>1, OthersReporting
  <1>3. CASE \E c \in Configs : Begin(c)
    BY <1>1, <1>3, BeginReporting
  <1>4. CASE Reconcile
    BY <1>1, <1>4, ResolveReporting, ValidateReporting, StatusReporting DEF Reconcile
  <1>5. CASE Restart
    BY <1>1, <1>5, RestartReporting
  <1> QED
    BY <1>2, <1>3, <1>4, <1>5, StepsSplit

LEMMA ReportingInit ==
    ASSUME Init
    PROVE  Reporting
  <1>1. /\ at = "idle" /\ cached = config /\ budget = Budget
        /\ \A c \in Configs : watch[c] = <<>> /\ config[c].gen = 0
    BY DEF Init
  <1>2. InStep /\ CopyFresh /\ ReadFresh /\ ReadValid
    BY <1>1 DEF InStep, CopyFresh, ReadFresh, ReadValid
  <1>3. StatusCurrent
    BY <1>1 DEF StatusCurrent, Settled, Present
  <1>4. FlakesBounded
    BY <1>1, ConstantAssumptions, KindsApart DEF FlakesBounded
  <1> QED
    BY <1>2, <1>3, <1>4 DEF Reporting

LEMMA AlwaysReporting == Spec => [](TypeOK /\ Reporting)
  <1>1. Init => TypeOK /\ Reporting
    BY TypeInit, ReportingInit
  <1>2. TypeOK /\ Reporting /\ [Next]_vars => (TypeOK /\ Reporting)'
    BY TypeStep, ReportingStep
  <1> QED
    BY <1>1, <1>2, PTL DEF Spec

(* At rest nobody owes a ProviderConfig a reconcile.                        *)
LEMMA RestSettles ==
    ASSUME TypeOK, AtRest, NEW c \in Configs, Present(config[c])
    PROVE  Settled(c)
  BY ConstantAssumptions DEF TypeOK, AtRest, Settled, Stirred, Moved

(* Once the controllers come to rest, the condition, the observed           *)
(* generation and the observed revision of every ProviderConfig speak of     *)
(* the Secret and the spec as they are, or tell of a flake: although the     *)
(* worker compares with a copy that may be stale, and patches only what      *)
(* differs from it.                                                        *)
THEOREM ConditionStaysCurrent == Spec => []ConditionIsCurrent
  <1>1. TypeOK /\ Reporting => ConditionIsCurrent
    <2> SUFFICES ASSUME TypeOK, Reporting, AtRest, NEW c \in Configs, Present(config[c])
                 PROVE  LET o   == config[c]
                            s   == secret[o.ref]
                            rev == IF s.data \in {"denied", "good"}
                                   THEN <<o.uid, o.gen, o.ref, s.rv>> ELSE NoRevision
                        IN /\ o.status.gen = o.gen /\ o.status.cond.gen = o.gen
                           /\ \/ o.status.cond.reason = ReasonOf(s.data) /\ o.status.rev = rev
                              \/ Flaked(o.status, rev)
      BY DEF ConditionIsCurrent
    <2>1. Reported(c)
      BY RestSettles DEF Reporting, StatusCurrent
    <2> QED
      BY <2>1 DEF Reported, Tells, RevisionOf, observedProviderRevision, Flaked, FlakeSpent
  <1> QED
    BY <1>1, AlwaysReporting, PTL

-----------------------------------------------------------------------------
(* The revisions that statuses tell of.                                    *)

(* A revision tells of no state of a Secret that is still to come.          *)
Known(rev) == rev = NoRevision \/ rev[4] <= secret[rev[3]].rv
RevisionsKnown ==
    /\ \A c \in Configs : Known(config[c].status.rev)
    /\ at = "validate" => read.rv <= secret[copy.ref].rv
    /\ at = "status" => Known(verdict.rev)

(* Secrets only get newer.                                                 *)
Newer == \A s \in Secrets : secret[s].rv <= secret'[s].rv

LEMMA NewerStep ==
    ASSUME TypeOK, [Next]_vars
    PROVE  Newer /\ ((\E s \in Secrets : ChangeSecret(s)) \/ UNCHANGED secret)
  <1>1. StoreTyped /\ WorkerTyped /\ BWorkerTyped
    BY TypeSplit
  <1>2. \A s \in Secrets : secret[s].rv \in Nat
    BY <1>1, SecretFields DEF StoreTyped
  <1>3. UNCHANGED secret => Newer
    BY <1>2 DEF Newer
  <1>4. ASSUME NEW s \in Secrets, ChangeSecret(s) PROVE Newer
    BY <1>1, <1>2, <1>4, ChangeSecretTyped DEF Newer
  <1>5. (\E s \in Secrets : ChangeSecret(s)) \/ UNCHANGED secret
    BY DEF Next, Reconcile, BReconcile, Deliver, Begin, CreateProviderConfig, EditProviderConfig,
           DeleteProviderConfig, UserWrite, DeliverSecret, BBegin, BucketEvent,
           ResolveProviderConfigObject, validateProviderClient, updateProviderConfigStatus,
           ResolveBucket, CallObs, Restart, vars
  <1> QED
    BY <1>3, <1>4, <1>5

LEMMA KnownKept ==
    ASSUME StoreTyped, StoreTyped', Newer, NEW rev \in Revisions, Known(rev)
    PROVE  Known(rev)'
  <1>1. CASE rev = NoRevision
    BY <1>1 DEF Known
  <1>2. CASE rev # NoRevision
    <2>1. rev[3] \in Secrets /\ rev[4] \in Nat
      BY <1>2 DEF Revisions
    <2>2. secret[rev[3]].rv \in Nat /\ secret'[rev[3]].rv \in Nat
      BY <2>1, SecretFields DEF StoreTyped
    <2>3. rev[4] <= secret[rev[3]].rv /\ secret[rev[3]].rv <= secret'[rev[3]].rv
      BY <1>2, <2>1 DEF Known, Newer
    <2>4. rev[4] <= secret'[rev[3]].rv
      BY <2>1, <2>2, <2>3
    <2> QED
      BY <2>4 DEF Known
  <1> QED
    BY <1>1, <1>2

(* A status is written from the server's and from the verdict.               *)
LEMMA PatchedRevision ==
    ASSUME WorkerTyped, NEW o \in ProviderConfig
    PROVE  /\ Patched(o).status.rev \in {o.status.rev, verdict.rev}
           /\ Patched(o).status.cond.reason \in {o.status.cond.reason, verdict.reason}
  <1>1. o.status \in Status /\ copy.status \in Status /\ NextStatus \in Status
    BY ConfigFields, NextStatusTyped DEF WorkerTyped
  <1>2. Patched(o).status = Merged(o.status, copy.status, NextStatus)
    BY PatchedTyped
  <1>3. NextStatus.rev = verdict.rev /\ NextStatus.cond.reason = verdict.reason
    BY NextStatusTyped
  <1> QED
    BY <1>1, <1>2, <1>3, MergedFields

(* What a step may make of the status of a ProviderConfig.                  *)
LEMMA StatusOrigins ==
    ASSUME TypeOK, [Next]_vars, NEW c \in Configs
    PROVE  \/ config'[c].status = config[c].status
           \/ config'[c].status = NoStatus
           \/ /\ updateProviderConfigStatus
              /\ config'[c].status.rev \in {config[c].status.rev, verdict.rev}
              /\ config'[c].status.cond.reason \in {config[c].status.cond.reason, verdict.reason}
  <1>1. StoreTyped /\ WorkerTyped /\ BWorkerTyped
    BY TypeSplit
  <1>2. ASSUME NEW d \in Configs,
               CreateProviderConfig(d) \/ EditProviderConfig(d) \/ DeleteProviderConfig(d)
        PROVE  config'[c].status = config[c].status \/ config'[c].status = NoStatus
    <2>1. PICK o \in ProviderConfig :
             UserWrite(d, o) /\ (o.status = config[d].status \/ o.status = NoStatus)
      BY <1>1, <1>2, UserWriteTyped
    <2>2. /\ config'[d] = o
          /\ \A e \in Configs : e # d => config'[e] = config[e]
      BY <1>1, <2>1, UserWriteEffect, WriteTyped
    <2> QED
      BY <2>1, <2>2
  <1>3. CASE updateProviderConfigStatus
    <2>1. /\ cur \in Configs
          /\ Write(cur, Patched(config[cur])) \/ UNCHANGED api
      BY <1>1, <1>3, StatusEffect
    <2>2. CASE UNCHANGED api
      BY <2>2 DEF api
    <2>3. CASE Write(cur, Patched(config[cur]))
      <3>1. config[cur] \in ProviderConfig /\ Patched(config[cur]) \in ProviderConfig
        BY <1>1, <2>1, PatchedTyped DEF StoreTyped
      <3>2. /\ config'[cur] = Patched(config[cur])
            /\ \A e \in Configs : e # cur => config'[e] = config[e]
        BY <1>1, <2>1, <2>3, <3>1, WriteTyped
      <3>3. CASE c = cur
        BY <1>1, <1>3, <3>1, <3>2, <3>3, PatchedRevision
      <3>4. CASE c # cur
        BY <3>2, <3>4
      <3> QED
        BY <3>3, <3>4
    <2> QED
      BY <2>1, <2>2, <2>3
  <1>4. CASE UNCHANGED config
    BY <1>4
  <1>5. \/ \E d \in Configs : \/ CreateProviderConfig(d) \/ EditProviderConfig(d)
                              \/ DeleteProviderConfig(d)
        \/ updateProviderConfigStatus
        \/ UNCHANGED config
    BY DEF Next, Reconcile, BReconcile, Deliver, Begin, DeliverSecret, ChangeSecret, BBegin,
           BucketEvent, ResolveProviderConfigObject, validateProviderClient, ResolveBucket, CallObs,
           Restart, vars, api
  <1> QED
    BY <1>2, <1>3, <1>4, <1>5

LEMMA KnownStep ==
    ASSUME TypeOK, RevisionsKnown, [Next]_vars
    PROVE  RevisionsKnown'
  <1>1. StoreTyped /\ WorkerTyped /\ StoreTyped' /\ Newer
    BY TypeSplit, TypeStep, NewerStep
  <1>2. /\ \A c \in Configs : config[c].status.rev \in Revisions
        /\ verdict.rev \in Revisions /\ copy.ref \in Secrets /\ read.rv \in Nat
        /\ secret[copy.ref].rv \in Nat /\ secret'[copy.ref].rv \in Nat
    BY <1>1, ConfigFields, SecretFields DEF StoreTyped, WorkerTyped, Verdict
  <1>3. \A c \in Configs : Known(config[c].status.rev)'
    <2> SUFFICES ASSUME NEW c \in Configs PROVE Known(config[c].status.rev)'
      OBVIOUS
    <2>1. PICK r : r = config'[c].status.rev
      OBVIOUS
    <2>2. \/ r = config[c].status.rev
          \/ r = NoRevision
          \/ at = "status" /\ r = verdict.rev
      <3>1. updateProviderConfigStatus => at = "status"
        BY DEF updateProviderConfigStatus
      <3>2. NoStatus.rev = NoRevision
        BY DEF NoStatus
      <3> QED
        BY <2>1, <3>1, <3>2, StatusOrigins
    <2>3. r \in Revisions /\ Known(r)
      BY <1>2, <2>2, NoneTyped DEF RevisionsKnown, Known
    <2>4. Known(r)'
      BY <1>1, <2>3, KnownKept
    <2> QED
      BY <2>1, <2>4 DEF Known
  <1>4. CASE UNCHANGED worker
    <2>1. at' = at /\ copy' = copy /\ read' = read /\ verdict' = verdict
      BY <1>4 DEF worker
    <2>2. at = "validate" => read.rv <= secret'[copy.ref].rv
      <3>1. at = "validate" => read.rv <= secret[copy.ref].rv
        BY DEF RevisionsKnown
      <3>2. secret[copy.ref].rv <= secret'[copy.ref].rv
        BY <1>1, <1>2 DEF Newer
      <3> QED
        BY <1>2, <3>1, <3>2
    <2>3. at = "status" => Known(verdict.rev)'
      <3>1. PICK r \in Revisions : r = verdict.rev
        BY <1>2
      <3>2. at = "status" => Known(r)'
        BY <1>1, <3>1, KnownKept DEF RevisionsKnown
      <3> QED
        BY <2>1, <3>1, <3>2 DEF Known
    <2> QED
      BY <1>3, <2>1, <2>2, <2>3 DEF RevisionsKnown
  <1>5. CASE at' \in {"idle", "resolve"}
    BY <1>3, <1>5 DEF RevisionsKnown
  <1>6. CASE ResolveProviderConfigObject
    <2>1. /\ UNCHANGED <<secret, copy>>
          /\ \/ at' = "validate" /\ read' = secret[copy.ref]
             \/ at' = "status" /\ verdict'.rev = NoRevision
      BY <1>1, <1>6, ResolveEffect
    <2>2. at' = "validate" => read'.rv <= secret'[copy'.ref].rv
      BY <1>2, <2>1
    <2>3. at' = "status" => Known(verdict.rev)'
      BY <2>1 DEF Known
    <2> QED
      BY <1>3, <2>2, <2>3 DEF RevisionsKnown
  <1>7. CASE validateProviderClient
    <2>1. /\ at = "validate" /\ at' = "status" /\ UNCHANGED secret
          /\ verdict'.rev = observedProviderRevision(copy, read)
      BY <1>1, <1>7, ValidateEffect
    <2>2. verdict'.rev[3] = copy.ref /\ verdict'.rev[4] = read.rv
      BY <1>1, <2>1, RevisionTyped DEF WorkerTyped
    <2>3. Known(verdict.rev)'
      BY <2>1, <2>2 DEF RevisionsKnown, Known
    <2> QED
      BY <1>3, <2>1, <2>3 DEF RevisionsKnown
  <1>8. CASE \E c \in Configs : Begin(c)
    <2>1. at' = "resolve" \/ UNCHANGED worker
      BY <1>1, <1>8, BeginTyped
    <2> QED
      BY <1>4, <1>5, <2>1
  <1>9. CASE updateProviderConfigStatus \/ Restart
    <2>1. at' = "idle"
      BY <1>9 DEF updateProviderConfigStatus, Return, Restart, Idle
    <2> QED
      BY <1>5, <2>1
  <1>10. CASE Others
    BY <1>4, <1>10 DEF Others, BReconcile, Deliver, CreateProviderConfig, EditProviderConfig,
           DeleteProviderConfig, UserWrite, DeliverSecret, ChangeSecret, BBegin, BucketEvent,
           ResolveBucket, CallObs, vars
  <1> QED
    BY <1>6, <1>7, <1>8, <1>9, <1>10, StepsSplit DEF Reconcile

-----------------------------------------------------------------------------
(* Flakes.                                                                 *)

(* A failed resolution is in a status only after a flake, on its way to a    *)
(* status that has it only after a second one, and after one it does not     *)
(* stay: the status that tells of it is itself an event.                    *)
OneFlake == budget["flake"] + 1 >= Budget["flake"]
FlakeOnItsWay == at = "status" /\ verdict.reason = "ClientBuildFailed"
FlakeTold(c) == config[c].status.cond.reason = "ClientBuildFailed"
FlakesCounted ==
    /\ FlakeOnItsWay => FlakeSpent
    /\ \A c \in Configs : FlakeTold(c) => FlakeSpent
    /\ \A c \in Configs : FlakeOnItsWay /\ FlakeTold(c) => ~OneFlake
    /\ OneFlake => \A c \in Configs : Settled(c) => ~FlakeTold(c)

(* Flakes are only ever spent.                                             *)
LEMMA FlakesStep ==
    ASSUME TypeOK, Reporting, [Next]_vars
    PROVE  /\ UNCHANGED budget["flake"] \/ (Spend("flake") /\ Reconcile)
           /\ FlakeSpent => FlakeSpent'
           /\ OneFlake' => OneFlake
  <1>1. StoreTyped /\ WorkerTyped /\ BWorkerTyped
    BY TypeSplit
  <1>2. budget'["flake"] = budget["flake"] \/ (Spend("flake") /\ Reconcile)
    <2>1. CASE Others
      BY <2>1, OthersOwed DEF Reporting, Owed
    <2>2. CASE \E c \in Configs : Begin(c)
      BY <2>2 DEF Begin
    <2>3. CASE ResolveProviderConfigObject
      BY <2>3 DEF ResolveProviderConfigObject, Reconcile
    <2>4. CASE validateProviderClient
      BY <2>4 DEF validateProviderClient, Reconcile
    <2>5. CASE updateProviderConfigStatus
      BY <1>1, <2>5, StatusEffect
    <2>6. CASE Restart
      BY <1>1, <2>6, RestartEffect
    <2> QED
      BY <2>1, <2>2, <2>3, <2>4, <2>5, <2>6, StepsSplit DEF Reconcile
  <1>3. budget["flake"] \in Nat /\ Budget["flake"] \in Nat
    BY <1>1, FlakesNumbers
  <1>4. budget'["flake"] = budget["flake"] \/ budget'["flake"] = budget["flake"] - 1
    BY <1>1, <1>2, SpendTyped, KindsApart
  <1> QED
    BY <1>2, <1>3, <1>4 DEF FlakeSpent, OneFlake

(* Where a verdict that tells of a failed resolution comes from.            *)
LEMMA FlakeOrigins ==
    ASSUME TypeOK, Reporting, [Next]_vars, FlakeOnItsWay'
    PROVE  \/ FlakeOnItsWay
           \/ ResolveProviderConfigObject /\ Spend("flake")
  <1>1. StoreTyped /\ WorkerTyped /\ BWorkerTyped
    BY TypeSplit
  <1>2. CASE Others
    <2>1. UNCHANGED worker
      BY <1>2, OthersOwed DEF Reporting, Owed
    <2> QED
      BY <2>1 DEF FlakeOnItsWay, worker
  <1>3. CASE \E c \in Configs : Begin(c)
    <2>1. at' = "resolve" \/ at' = "idle"
      BY <1>1, <1>3, BeginTyped DEF worker
    <2> QED
      BY <2>1 DEF FlakeOnItsWay
  <1>4. CASE ResolveProviderConfigObject
    <2>1. PICK s \in Secret : s = secret[copy.ref]
      BY <1>1, ConfigFields DEF StoreTyped, WorkerTyped
    <2>2. \/ at' = "validate"
          \/ s.data \in {"missing", "incomplete"} /\ verdict'.reason = ReasonOf(s.data)
          \/ Spend("flake")
      BY <1>1, <1>4, <2>1, ResolveEffect
    <2>3. s.data \in {"missing", "incomplete"} => ReasonOf(s.data) # "ClientBuildFailed"
      BY DEF ReasonOf
    <2> QED
      BY <1>4, <2>2, <2>3 DEF FlakeOnItsWay
  <1>5. CASE validateProviderClient
    <2>1. verdict'.reason \in {"ClientValidated", "ClientValidationFailed"}
      BY <1>1, <1>5, ValidateEffect
    <2> QED
      BY <2>1 DEF FlakeOnItsWay
  <1>6. CASE updateProviderConfigStatus
    BY <1>1, <1>6, StatusEffect DEF FlakeOnItsWay
  <1>7. CASE Restart
    BY <1>1, <1>7, RestartEffect DEF FlakeOnItsWay
  <1> QED
    BY <1>2, <1>3, <1>4, <1>5, <1>6, <1>7, StepsSplit DEF Reconcile

(* Where a settled ProviderConfig comes from.                              *)
LEMMA SettledOrigins ==
    ASSUME TypeOK, Reporting, [Next]_vars, NEW d \in Configs, Settled(d)'
    PROVE  /\ config'[d] = config[d]
           /\ \/ Settled(d)
              \/ at = "status" /\ copy = config[d] /\ copy.status = NextStatus
  <1>1. StoreTyped /\ WorkerTyped /\ BWorkerTyped /\ InStep /\ CopyFresh
    BY TypeSplit DEF Reporting
  <1>2. CASE Others
    BY <1>1, <1>2, OthersOwed, OthersSettled
  <1>3. CASE \E c \in Configs : Begin(c)
    BY <1>1, <1>3, BeginSettled, BeginTyped DEF api
  <1>4. CASE ResolveProviderConfigObject \/ validateProviderClient
    <2>1. UNCHANGED <<secretEvents, api, queue, cur>>
      BY <1>1, <1>4, ResolveEffect, ValidateEffect
    <2> QED
      BY <2>1 DEF Settled, Stirred, Moved, api
  <1>5. CASE updateProviderConfigStatus
    <2>1. at = "status"
      BY <1>1, <1>5, StatusEffect
    <2> QED
      BY <1>1, <1>5, <2>1, StatusSettles
  <1>6. CASE Restart
    BY <1>1, <1>6, RestartEffect DEF Settled, Stirred, Moved
  <1> QED
    BY <1>2, <1>3, <1>4, <1>5, <1>6, StepsSplit DEF Reconcile

LEMMA FlakesCountedStep ==
    ASSUME TypeOK, Reporting, FlakesCounted, [Next]_vars
    PROVE  FlakesCounted'
  <1>1. StoreTyped /\ WorkerTyped /\ FlakesBounded
    BY TypeSplit DEF Reporting
  <1>2. (FlakeSpent => FlakeSpent') /\ (OneFlake' => OneFlake)
    BY FlakesStep
  <1>3. ASSUME Spend("flake") PROVE FlakeSpent' /\ (FlakeSpent => ~OneFlake')
    <2>1. budget["flake"] \in Nat /\ Budget["flake"] \in Nat
      BY <1>1, FlakesNumbers
    <2>2. budget'["flake"] = budget["flake"] - 1
      BY <1>1, <1>3, SpendTyped, KindsApart
    <2> QED
      BY <1>1, <2>1, <2>2 DEF FlakeSpent, OneFlake, FlakesBounded
  <1>4. FlakeOnItsWay' => FlakeSpent'
    BY <1>2, <1>3, FlakeOrigins DEF FlakesCounted
  <1>5. ASSUME NEW c \in Configs, FlakeTold(c)'
        PROVE  FlakeTold(c) \/ (updateProviderConfigStatus /\ FlakeOnItsWay)
    <2>1. updateProviderConfigStatus => at = "status"
      BY DEF updateProviderConfigStatus
    <2>2. NoStatus.cond.reason # "ClientBuildFailed"
      BY DEF NoStatus
    <2> QED
      BY <1>5, <2>1, <2>2, StatusOrigins DEF FlakeTold, FlakeOnItsWay
  <1>6. \A c \in Configs : FlakeTold(c)' => FlakeSpent'
    BY <1>2, <1>5 DEF FlakesCounted
  <1>7. ASSUME NEW c \in Configs, FlakeOnItsWay', FlakeTold(c)' PROVE ~OneFlake'
    <2>1. ~updateProviderConfigStatus
      <3>1. updateProviderConfigStatus => at' = "idle"
        BY <1>1, StatusEffect
      <3> QED
        BY <1>7, <3>1 DEF FlakeOnItsWay
    <2>2. FlakeTold(c) /\ FlakeSpent
      BY <1>5, <1>7, <2>1 DEF FlakesCounted
    <2>3. CASE FlakeOnItsWay
      BY <1>2, <2>2, <2>3 DEF FlakesCounted
    <2>4. CASE Spend("flake")
      BY <1>3, <2>2, <2>4
    <2> QED
      BY <1>7, <2>3, <2>4, FlakeOrigins
  <1>8. ASSUME OneFlake', NEW c \in Configs, Settled(c)', FlakeTold(c)' PROVE FALSE
    <2>1. config'[c] = config[c] /\ OneFlake /\ FlakeTold(c)
      BY <1>2, <1>8, SettledOrigins DEF FlakeTold
    <2>2. ~Settled(c)
      BY <2>1 DEF FlakesCounted
    <2>3. at = "status" /\ copy = config[c] /\ copy.status = NextStatus
      BY <1>8, <2>2, SettledOrigins
    <2>4. verdict.reason = config[c].status.cond.reason
      BY <1>1, <2>3, NextStatusTyped
    <2>5. FlakeOnItsWay
      BY <2>1, <2>3, <2>4 DEF FlakeOnItsWay, FlakeTold
    <2> QED
      BY <2>1, <2>5 DEF FlakesCounted
  <1> QED
    BY <1>4, <1>6, <1>7, <1>8 DEF FlakesCounted

-----------------------------------------------------------------------------
(* The Buckets.                                                            *)

(* A reconcile of Bucket b is owed.                                        *)
BMoved(b) == watch[ConfigOf[b]] # <<>> \/ b \in bQueue

(* The status of ProviderConfig c tells of the Secret as it is.              *)
Current(c) ==
    LET o == config[c] IN
    /\ Present(o) /\ secret[o.ref].data \in {"denied", "good"}
    /\ o.status.rev = observedProviderRevision(o, secret[o.ref])

Works(b) == outcome[b] \in {"Ready", "ReadyEarly"}

(* A Bucket worker that no later event will call again works with the        *)
(* ProviderConfig as it is, and with the Secret the status tells of.        *)
BFresh ==
    bAt # "idle" /\ ~BMoved(bCur) =>
        LET c == ConfigOf[bCur] IN
        /\ Present(config[c]) /\ bRef = config[c].ref
        /\ bAt = "call" /\ Current(c) => bRead = secret[bRef].data

(* What a Bucket says that nobody is going to reconcile again.               *)
BSettled(b) == ~BMoved(b) /\ bCur # b
Right(b) ==
    LET c == ConfigOf[b] IN
    /\ ~Present(config[c]) => outcome[b] = "Failed"
    /\ Current(c) => (Works(b) <=> secret[config[c].ref].data = "good")
    /\ outcome[b] = "Ready" => config[c].status.rev # NoRevision
OutcomeCurrent == \A b \in Buckets : BSettled(b) => Right(b)

(* A status tells of the Secret as it is only if it did before: a newer      *)
(* state of the Secret is one no status has told of yet.                   *)
LEMMA CurrentBefore ==
    ASSUME TypeOK, RevisionsKnown, [Next]_vars, NEW c \in Configs, config'[c] = config[c],
           Current(c)'
    PROVE  Current(c) /\ secret'[config[c].ref] = secret[config[c].ref]
  <1>1. StoreTyped /\ StoreTyped'
    BY TypeSplit, TypeStep
  <1>2. CASE UNCHANGED secret
    BY <1>2 DEF Current
  <1>3. ASSUME NEW s \in Secrets, ChangeSecret(s)
        PROVE  secret'[config[c].ref] = secret[config[c].ref]
    <2>1. PICK o \in ProviderConfig : o = config[c]
      BY <1>1 DEF StoreTyped
    <2>2. o.ref \in Secrets /\ secret[o.ref] \in Secret /\ secret'[o.ref] \in Secret
      BY <1>1, ConfigFields DEF StoreTyped
    <2>3. o.status.rev = observedProviderRevision(o, secret'[o.ref])
      BY <2>1 DEF Current
    <2>4. o.status.rev # NoRevision /\ o.status.rev[3] = o.ref
          /\ o.status.rev[4] = secret'[o.ref].rv
      BY <2>2, <2>3, RevisionTyped
    <2>5. secret'[o.ref].rv <= secret[o.ref].rv
      BY <2>1, <2>4 DEF RevisionsKnown, Known
    <2>6. secret[o.ref].rv \in Nat
      BY <2>2, SecretFields
    <2>7. o.ref # s
      BY <1>1, <1>3, <2>5, <2>6, ChangeSecretTyped
    <2> QED
      BY <1>1, <1>3, <2>1, <2>2, <2>7, ChangeSecretTyped
  <1>4. CASE \E s \in Secrets : ChangeSecret(s)
    <2>1. secret'[config[c].ref] = secret[config[c].ref]
      BY <1>3, <1>4
    <2> QED
      BY <2>1 DEF Current
  <1> QED
    BY <1>2, <1>4, NewerStep

LEMMA RightKept ==
    ASSUME TypeOK, RevisionsKnown, [Next]_vars, NEW b \in Buckets, Right(b),
           config'[ConfigOf[b]] = config[ConfigOf[b]], outcome'[b] = outcome[b]
    PROVE  Right(b)'
  <1>1. ConfigOf[b] \in Configs
    BY ConstantAssumptions
  <1> QED
    BY <1>1, CurrentBefore DEF Right, Works

(* A step that is not one of the Bucket worker's owes a reconcile to the     *)
(* Buckets whose ProviderConfig it changes, and takes none back.            *)
BOwed ==
    /\ UNCHANGED <<bWorker, outcome>>
    /\ \A b \in Buckets : \/ BMoved(b)'
                          \/ ~BMoved(b) /\ config'[ConfigOf[b]] = config[ConfigOf[b]]

LEMMA OthersReaching ==
    ASSUME TypeOK, RevisionsKnown, [Next]_vars, BFresh, OutcomeCurrent, BOwed
    PROVE  BFresh' /\ OutcomeCurrent'
  <1>1. /\ bAt' = bAt /\ bCur' = bCur /\ bRef' = bRef /\ bRead' = bRead /\ outcome' = outcome
    BY DEF BOwed, bWorker
  <1>2. BFresh'
    <2>1. BWorkerTyped
      BY TypeSplit
    <2> SUFFICES ASSUME bAt # "idle", NEW b \in Buckets, b = bCur, ~BMoved(b)'
                 PROVE  /\ Present(config'[ConfigOf[b]])
                        /\ bRef = config'[ConfigOf[b]].ref
                        /\ bAt = "call" /\ Current(ConfigOf[b])' => bRead = secret'[bRef].data
      BY <1>1, <2>1, BAtWork DEF BFresh, Present, BMoved, Current
    <2>2. b = bCur
      OBVIOUS
    <2>3. ConfigOf[b] \in Configs
      BY <2>1, <2>2, BAtWork
    <2>5. ~BMoved(b) /\ config'[ConfigOf[b]] = config[ConfigOf[b]]
      BY DEF BOwed
    <2>6. /\ Present(config[ConfigOf[b]]) /\ bRef = config[ConfigOf[b]].ref
          /\ bAt = "call" /\ Current(ConfigOf[b]) => bRead = secret[bRef].data
      BY <2>2, <2>5 DEF BFresh
    <2>7. Current(ConfigOf[b])' => Current(ConfigOf[b]) /\ secret'[bRef] = secret[bRef]
      BY <2>3, <2>5, <2>6, CurrentBefore
    <2> QED
      BY <2>2, <2>5, <2>6, <2>7
  <1>3. OutcomeCurrent'
    <2> SUFFICES ASSUME NEW b \in Buckets, BSettled(b)' PROVE Right(b)'
      BY DEF OutcomeCurrent
    <2>1. ~BMoved(b) /\ config'[ConfigOf[b]] = config[ConfigOf[b]] /\ bCur # b
      BY <1>1 DEF BOwed, BSettled
    <2>2. Right(b)
      BY <2>1 DEF OutcomeCurrent, BSettled
    <2> QED
      BY <1>1, <2>1, <2>2, RightKept
  <1> QED
    BY <1>2, <1>3

LEMMA FramesOwe ==
    ASSUME UNCHANGED <<api, bWorker, outcome>>, bQueue \subseteq bQueue'
    PROVE  BOwed
  BY DEF BOwed, BMoved, api

LEMMA WritesOwe ==
    ASSUME StoreTyped, NEW c \in Configs, NEW o \in ProviderConfig, Write(c, o),
           UNCHANGED <<bQueue, bWorker, outcome>>
    PROVE  BOwed
  <1>1. /\ watch'[c] # <<>>
        /\ \A d \in Configs : d # c => config'[d] = config[d] /\ watch'[d] = watch[d]
    BY WriteTyped
  <1>2. \A b \in Buckets : ConfigOf[b] \in Configs
    BY ConstantAssumptions
  <1> QED
    BY <1>1, <1>2 DEF BOwed, BMoved

LEMMA DeliveriesOwe ==
    ASSUME StoreTyped, NEW c \in Configs, Deliver(c)
    PROVE  BOwed
  <1>1. /\ UNCHANGED <<config, bWorker, outcome>> /\ bQueue \subseteq bQueue'
        /\ \A b \in Buckets : ConfigOf[b] = c => b \in bQueue'
        /\ \A d \in Configs : d # c => watch'[d] = watch[d]
    BY DeliverTyped
  <1>2. \A b \in Buckets : ConfigOf[b] \in Configs
    BY ConstantAssumptions
  <1> QED
    BY <1>1, <1>2 DEF BOwed, BMoved

(* The steps of a Bucket worker, and the restart.                           *)
BSteps == (\E b \in Buckets : BBegin(b)) \/ BReconcile \/ Restart

LEMMA BOwedSteps ==
    ASSUME TypeOK, [Next]_vars
    PROVE  BOwed \/ BSteps
  <1>1. StoreTyped /\ WorkerTyped /\ BWorkerTyped
    BY TypeSplit
  <1>2. ASSUME NEW c \in Configs, Deliver(c) PROVE BOwed
    BY <1>1, <1>2, DeliveriesOwe
  <1>3. ASSUME NEW c \in Configs,
               CreateProviderConfig(c) \/ EditProviderConfig(c) \/ DeleteProviderConfig(c)
        PROVE  BOwed
    <2>1. PICK o \in ProviderConfig : UserWrite(c, o)
      BY <1>1, <1>3, UserWriteTyped
    <2>2. Write(c, o) /\ UNCHANGED <<bQueue, bWorker, outcome>>
      BY <1>1, <2>1, UserWriteEffect
    <2> QED
      BY <1>1, <2>2, WritesOwe
  <1>4. ASSUME NEW s \in Secrets, DeliverSecret(s) \/ ChangeSecret(s) PROVE BOwed
    <2>1. UNCHANGED <<api, bQueue, bWorker, outcome>>
      BY <1>1, <1>4, DeliverSecretEffect, ChangeSecretTyped
    <2> QED
      BY <2>1, FramesOwe
  <1>5. ASSUME NEW b \in Buckets, BucketEvent(b) PROVE BOwed
    BY <1>1, <1>5, BucketEventEffect, FramesOwe
  <1>6. ASSUME NEW c \in Configs, Begin(c) PROVE BOwed
    <2>1. UNCHANGED <<api, bQueue, bWorker, outcome>>
      BY <1>1, <1>6, BeginTyped
    <2> QED
      BY <2>1, FramesOwe
  <1>7. CASE ResolveProviderConfigObject \/ validateProviderClient
    <2>1. UNCHANGED <<api, bQueue, bWorker, outcome>>
      BY <1>1, <1>7, ResolveEffect, ValidateEffect
    <2> QED
      BY <2>1, FramesOwe
  <1>8. CASE updateProviderConfigStatus
    <2>1. /\ cur \in Configs /\ UNCHANGED <<bQueue, bWorker, outcome>>
          /\ UNCHANGED api \/ Write(cur, Patched(config[cur]))
      BY <1>1, <1>8, StatusEffect
    <2>2. Patched(config[cur]) \in ProviderConfig
      BY <1>1, <2>1, PatchedTyped DEF StoreTyped
    <2> QED
      BY <1>1, <2>1, <2>2, FramesOwe, WritesOwe
  <1>9. CASE UNCHANGED vars
    BY <1>9, FramesOwe DEF vars, api, bWorker
  <1> QED
    BY <1>2, <1>3, <1>4, <1>5, <1>6, <1>7, <1>8, <1>9 DEF Next, Reconcile, BSteps

(* A worker of the Buckets is called with what the informer holds.          *)
LEMMA BBeginReaching ==
    ASSUME TypeOK, RevisionsKnown, [Next]_vars, InStep, OutcomeCurrent,
           NEW b \in Buckets, BBegin(b)
    PROVE  BFresh' /\ OutcomeCurrent'
  <1>1. StoreTyped /\ BWorkerTyped /\ ConfigOf[b] \in Configs
    BY TypeSplit, ConstantAssumptions
  <1>2. /\ UNCHANGED <<secret, api>> /\ bCur = Nobody /\ bQueue' = bQueue \ {b}
        /\ LET o == cached[ConfigOf[b]] IN
           \/ /\ Present(o) /\ bAt' = "resolve" /\ bCur' = b /\ bRef' = o.ref
              /\ outcome' = outcome
           \/ /\ ~Present(o) /\ outcome'[b] = "Failed" /\ bCur' = Nobody /\ bAt' = "idle"
              /\ \A d \in Buckets : d # b => outcome'[d] = outcome[d]
    BY <1>1, BBeginEffect
  <1>3. config' = config /\ watch' = watch /\ secret' = secret
    BY <1>2 DEF api
  <1>4. ~BMoved(b)' => cached[ConfigOf[b]] = config[ConfigOf[b]]
    BY <1>1, <1>3 DEF BMoved, InStep
  <1>5. BFresh'
    <2> SUFFICES ASSUME bAt' # "idle", ~BMoved(bCur)'
                 PROVE  LET c == ConfigOf[bCur'] IN
                        /\ Present(config'[c]) /\ bRef' = config'[c].ref
                        /\ bAt' # "call"
      BY DEF BFresh, Present
    <2>1. bCur' = b /\ bAt' = "resolve"
      BY <1>2
    <2>2. ~BMoved(b)'
      BY <2>1 DEF BMoved
    <2> QED
      BY <1>2, <1>3, <1>4, <2>1, <2>2
  <1>6. OutcomeCurrent'
    <2> SUFFICES ASSUME NEW d \in Buckets, BSettled(d)' PROVE Right(d)'
      BY DEF OutcomeCurrent
    <2>1. ~BMoved(d)' /\ bCur' # d
      BY DEF BSettled
    <2>2. CASE d = b
      <3>1. outcome'[b] = "Failed" /\ ~Present(config[ConfigOf[b]])
        BY <1>2, <1>4, <2>1, <2>2
      <3> QED
        BY <1>3, <2>2, <3>1 DEF Right, Current, Present
    <2>3. CASE d # b
      <3>1. ~BMoved(d) /\ bCur # d /\ outcome'[d] = outcome[d]
        BY <1>2, <1>3, <2>1, <2>3, ConstantAssumptions DEF BMoved
      <3>2. Right(d)
        BY <3>1 DEF OutcomeCurrent, BSettled
      <3> QED
        BY <1>3, <3>1, <3>2, RightKept
    <2> QED
      BY <2>2, <2>3
  <1> QED
    BY <1>5, <1>6

LEMMA BReconcileReaching ==
    ASSUME TypeOK, RevisionsKnown, [Next]_vars, BFresh, OutcomeCurrent, BReconcile
    PROVE  BFresh' /\ OutcomeCurrent'
  <1>1. StoreTyped /\ BWorkerTyped
    BY TypeSplit
  <1>2. bAt # "idle" /\ UNCHANGED <<secret, api>> /\ bQueue \subseteq bQueue'
    BY <1>1, ResolveBucketEffect, CallObsEffect DEF BReconcile
  <1>3. PICK w \in Buckets : w = bCur /\ ConfigOf[w] \in Configs
    BY <1>1, <1>2, BAtWork
  <1> DEFINE c == ConfigOf[w]
  <1>4. config' = config /\ watch' = watch /\ secret' = secret
    BY <1>2 DEF api
  <1>5. \A b \in Buckets : ~BMoved(b)' => ~BMoved(b)
    BY <1>2, <1>4 DEF BMoved
  <1>6. ~BMoved(w)' => /\ Present(config[c]) /\ bRef = config[c].ref
                       /\ bAt = "call" /\ Current(c) => bRead = secret[bRef].data
    BY <1>2, <1>3, <1>5 DEF BFresh
  <1>7. Current(c)' <=> Current(c)
    BY <1>4 DEF Current
  <1>8. \A b \in Buckets : b # w => outcome'[b] = outcome[b]
    <2>1. CASE ResolveBucket
      BY <1>1, <1>3, <2>1, ResolveBucketEffect
    <2>2. CASE CallObs
      BY <1>1, <1>3, <2>2, CallObsEffect
    <2> QED
      BY <2>1, <2>2 DEF BReconcile
  <1>9. ASSUME NEW b \in Buckets, b # w, BSettled(b)' PROVE Right(b)'
    <2>1. BSettled(b) /\ outcome'[b] = outcome[b]
      BY <1>3, <1>5, <1>8, <1>9 DEF BSettled
    <2>2. Right(b)
      BY <2>1 DEF OutcomeCurrent
    <2> QED
      BY <1>4, <2>1, <2>2, RightKept
  <1>10. CASE ResolveBucket /\ bAt' = "call"
    <2>1. bCur' = w /\ bRef' = bRef /\ bRead' = secret[bRef].data
      BY <1>1, <1>3, <1>10, ResolveBucketEffect
    <2>2. BFresh'
      <3> SUFFICES ASSUME ~BMoved(w)'
                   PROVE  /\ Present(config'[c]) /\ bRef' = config'[c].ref
                          /\ bRead' = secret'[bRef'].data
        BY <2>1 DEF BFresh, BMoved, Present
      <3> QED
        BY <1>4, <1>6, <2>1
    <2>3. OutcomeCurrent'
      BY <1>9, <2>1 DEF OutcomeCurrent, BSettled
    <2> QED
      BY <2>2, <2>3
  <1>11. ASSUME bAt' = "idle", ~BMoved(w)' => Right(w)' PROVE BFresh' /\ OutcomeCurrent'
    BY <1>9, <1>11 DEF BFresh, OutcomeCurrent, BSettled
  <1>12. CASE ResolveBucket /\ bAt' # "call"
    <2>1. bAt' = "idle" /\ secret[bRef].data \in {"missing", "incomplete"} /\ outcome'[w] = "Failed"
      BY <1>1, <1>3, <1>12, ResolveBucketEffect
    <2>2. ~BMoved(w)' => ~Current(c)
      BY <1>6, <2>1 DEF Current
    <2>3. ~BMoved(w)' => Right(w)'
      BY <1>7, <2>1, <2>2 DEF Right
    <2> QED
      BY <1>11, <2>1, <2>3
  <1>13. CASE CallObs
    <2>1. /\ bAt = "call" /\ bAt' = "idle"
          /\ w \in bQueue' \/ outcome'[w] = CallVerdict
      BY <1>1, <1>3, <1>13, CallObsEffect
    <2>2. ASSUME ~BMoved(w)' PROVE Right(w)'
      <3>1. /\ Present(config'[c])
            /\ Current(c) => bRead = secret[config[c].ref].data
        BY <1>4, <1>6, <2>1, <2>2
      <3>2. outcome'[w] = IF bRead # "good" THEN "Failed"
                          ELSE IF config[c].status.rev = NoRevision THEN "ReadyEarly" ELSE "Ready"
        BY <1>3, <2>1, <2>2 DEF CallVerdict, BMoved
      <3>3. /\ Works(w)' <=> bRead = "good"
            /\ outcome'[w] = "Ready" => config[c].status.rev # NoRevision
        BY <3>2 DEF Works
      <3> QED
        BY <1>4, <1>7, <3>1, <3>3 DEF Right
    <2> QED
      BY <1>11, <2>1, <2>2
  <1> QED
    BY <1>10, <1>12, <1>13 DEF BReconcile

(* After a restart every Bucket is reconciled.                              *)
LEMMA RestartReaching ==
    ASSUME TypeOK, Restart
    PROVE  BFresh' /\ OutcomeCurrent'
  <1>1. bAt' = "idle" /\ bQueue' = Buckets
    BY TypeSplit, RestartEffect
  <1> QED
    BY <1>1 DEF BFresh, OutcomeCurrent, BSettled, BMoved

Reaching == RevisionsKnown /\ FlakesCounted /\ BFresh /\ OutcomeCurrent

LEMMA ReachingStep ==
    ASSUME TypeOK, Reporting, Reaching, [Next]_vars
    PROVE  Reaching'
  <1>1. RevisionsKnown /\ FlakesCounted /\ BFresh /\ OutcomeCurrent /\ InStep
    BY DEF Reaching, Reporting
  <1>2. RevisionsKnown' /\ FlakesCounted'
    BY <1>1, KnownStep, FlakesCountedStep
  <1>3. BFresh' /\ OutcomeCurrent'
    <2>1. CASE BOwed
      BY <1>1, <2>1, OthersReaching
    <2>2. CASE \E b \in Buckets : BBegin(b)
      BY <1>1, <2>2, BBeginReaching
    <2>3. CASE BReconcile
      BY <1>1, <2>3, BReconcileReaching
    <2>4. CASE Restart
      BY <2>4, RestartReaching
    <2> QED
      BY <2>1, <2>2, <2>3, <2>4, BOwedSteps DEF BSteps
  <1> QED
    BY <1>2, <1>3 DEF Reaching

LEMMA ReachingInit ==
    ASSUME Init
    PROVE  Reaching
  <1>1. /\ at = "idle" /\ bAt = "idle" /\ bQueue = Buckets
        /\ \A c \in Configs : config[c].status = NoStatus /\ ~Present(config[c])
    BY DEF Init, Present
  <1>2. NoStatus.rev = NoRevision /\ NoStatus.cond.reason = "none"
    BY DEF NoStatus
  <1>3. RevisionsKnown
    BY <1>1, <1>2 DEF RevisionsKnown, Known
  <1>4. FlakesCounted
    BY <1>1, <1>2 DEF FlakesCounted, FlakeOnItsWay, FlakeTold
  <1>5. BFresh /\ OutcomeCurrent
    BY <1>1 DEF BFresh, OutcomeCurrent, BSettled, BMoved
  <1> QED
    BY <1>3, <1>4, <1>5 DEF Reaching

LEMMA AlwaysReaching == Spec => [](TypeOK /\ Reporting /\ Reaching)
  <1>1. Init => TypeOK /\ Reporting /\ Reaching
    BY TypeInit, ReportingInit, ReachingInit
  <1>2. TypeOK /\ Reporting /\ Reaching /\ [Next]_vars => (TypeOK /\ Reporting /\ Reaching)'
    BY TypeStep, ReportingStep, ReachingStep
  <1> QED
    BY <1>1, <1>2, PTL DEF Spec

(* At rest after one flake at most, every status tells of the Secret.        *)
LEMMA RestCurrent ==
    ASSUME TypeOK, Reporting, Reaching, AtRest, OneFlake, NEW c \in Configs, Present(config[c])
    PROVE  config[c].status.rev = RevisionOf(config[c], secret[config[c].ref])
  <1>1. Settled(c)
    BY RestSettles
  <1>2. Reported(c)
    BY <1>1 DEF Reporting, StatusCurrent
  <1>3. ~FlakeTold(c)
    BY <1>1 DEF Reaching, FlakesCounted
  <1> QED
    BY <1>2, <1>3 DEF Reported, Tells, FlakeTold

(* Once the controllers come to rest after one flake at most, a change of a  *)
(* Secret or of a ProviderConfig has reached every Bucket: although a Bucket *)
(* that failed is not retried and does not watch the Secret, the status that *)
(* the ProviderConfig controller writes when it has seen a new state of the  *)
(* Secret is an event, and no status tells of a state before it came.       *)
THEOREM ChangesReachEveryBucket == Spec => []ChangesReachBuckets
  <1>1. TypeOK /\ Reporting /\ Reaching => ChangesReachBuckets
    <2> SUFFICES ASSUME TypeOK, Reporting, Reaching, AtRest, OneFlake, NEW b \in Buckets
                 PROVE  IF Unresolvable(b) THEN outcome[b] # "Ready"
                        ELSE Works(b) <=> Usable(b)
      BY DEF ChangesReachBuckets, OneFlake, Works
    <2> DEFINE c == ConfigOf[b]
               o == config[c]
               s == secret[o.ref]
    <2>1. c \in Configs /\ b # Nobody
      BY ConstantAssumptions
    <2>2. o \in ProviderConfig /\ s \in Secret
      BY <2>1, ConfigFields DEF TypeOK
    <2>3. BSettled(b)
      BY <2>1 DEF AtRest, BSettled, BMoved, TypeOK
    <2>4. Right(b)
      BY <2>3 DEF Reaching, OutcomeCurrent
    <2>5. CASE ~Present(o)
      <3>1. outcome[b] = "Failed"
        BY <2>4, <2>5 DEF Right
      <3> QED
        BY <2>5, <3>1 DEF Unresolvable, Usable, Works
    <2>6. CASE Present(o) /\ s.data \in {"missing", "incomplete"}
      <3>1. o.status.rev = NoRevision
        BY <2>1, <2>6, RestCurrent DEF RevisionOf
      <3>2. outcome[b] # "Ready"
        BY <2>4, <3>1 DEF Right
      <3> QED
        BY <2>6, <3>2 DEF Unresolvable
    <2>7. CASE Present(o) /\ s.data \in {"denied", "good"}
      <3>1. Current(c)
        BY <2>1, <2>7, RestCurrent DEF RevisionOf, Current
      <3>2. Works(b) <=> s.data = "good"
        BY <2>4, <3>1 DEF Right
      <3> QED
        BY <2>7, <3>2 DEF Unresolvable, Usable
    <2>8. s.data \in Data
      BY <2>2, SecretFields
    <2> QED
      BY <2>5, <2>6, <2>7, <2>8 DEF Data
  <1> QED
    BY <1>1, AlwaysReaching, PTL
=============================================================================
