------------------------ MODULE BucketControllerProofs ------------------------
(***************************************************************************)
(* Proofs about the Bucket controller, for every set of Buckets and names  *)
(* and every bound: its types, that it leaves alone what nobody claims,    *)
(* and that no reconcile is missing when it rests.                         *)
(***************************************************************************)
EXTENDS BucketController, TLAPS

(* TypeOK in the parts that the steps change together.                     *)
ApiTypes ==
    cr \in [Buckets -> Resource] /\ watch \in [Buckets -> Seq(Resource)]
WorkTypes ==
    /\ queue \subseteq Buckets
    /\ pc \in Labels /\ cur \in Buckets \cup {NoBucket} /\ copy \in Resource
    /\ err \in Errors
    /\ pc = "idle" <=> cur = NoBucket
RestTypes ==
    cached \in [Buckets -> Resource] /\ provider \in BOOLEAN
ObsTypes == remote \in [Names -> ObsBucket]
BudgetTypes == budget \in [Kinds -> Nat]

(* TypeOK is the conjunction of its parts.                                 *)
LEMMA TypeParts ==
    TypeOK <=> ApiTypes /\ WorkTypes /\ RestTypes /\ ObsTypes /\ BudgetTypes
  BY DEF TypeOK, ApiTypes, WorkTypes, RestTypes, ObsTypes, BudgetTypes

(* The versions of a Bucket that the API server and the controller make.   *)
LEMMA ResourceFacts ==
    /\ \A u \in Nat : Gone(u) \in Resource /\ Gone(u).finalizers = {}
    /\ \A o \in Resource :
          /\ o.uid \in Nat /\ o.gen \in Nat /\ o.finalizers \subseteq {Ours, Other}
          /\ \A f \in SUBSET {Ours, Other} :
                /\ [o EXCEPT !.finalizers = f] \in Resource
                /\ [o EXCEPT !.finalizers = f].finalizers = f
          /\ \A s \in Status :
                /\ [o EXCEPT !.status = s] \in Resource
                /\ [o EXCEPT !.status = s].finalizers = o.finalizers
          /\ \A force \in BOOLEAN :
                /\ [o EXCEPT !.gen = @ + 1, !.force = force] \in Resource
                /\ [o EXCEPT !.gen = @ + 1, !.force = force].finalizers = o.finalizers
          /\ [o EXCEPT !.phase = "deleting", !.gen = @ + 1] \in Resource
          /\ [o EXCEPT !.phase = "deleting", !.gen = @ + 1].finalizers = o.finalizers
  <1>1. \A u \in Nat : Gone(u) \in Resource /\ Gone(u).finalizers = {}
    BY DEF Resource, Gone, Status, NoStatus
  <1>2. ASSUME NEW o \in Resource
        PROVE  o.uid \in Nat /\ o.gen \in Nat /\ o.finalizers \subseteq {Ours, Other}
    BY DEF Resource
  <1>3. ASSUME NEW o \in Resource, NEW f \in SUBSET {Ours, Other}
        PROVE  /\ [o EXCEPT !.finalizers = f] \in Resource
               /\ [o EXCEPT !.finalizers = f].finalizers = f
    BY DEF Resource
  <1>4. ASSUME NEW o \in Resource, NEW s \in Status
        PROVE  /\ [o EXCEPT !.status = s] \in Resource
               /\ [o EXCEPT !.status = s].finalizers = o.finalizers
    BY DEF Resource
  <1>5. ASSUME NEW o \in Resource, NEW force \in BOOLEAN
        PROVE  /\ [o EXCEPT !.gen = @ + 1, !.force = force] \in Resource
               /\ [o EXCEPT !.gen = @ + 1, !.force = force].finalizers = o.finalizers
    <2>1. [o EXCEPT !.gen = o.gen + 1] \in Resource
      BY DEF Resource
    <2>2. \A r \in Resource : [r EXCEPT !.force = force] \in Resource
      BY DEF Resource
    <2>3. [o EXCEPT !.gen = @ + 1, !.force = force].finalizers = o.finalizers
      BY DEF Resource
    <2> QED
      BY <2>1, <2>2, <2>3
  <1>6. ASSUME NEW o \in Resource
        PROVE  /\ [o EXCEPT !.phase = "deleting", !.gen = @ + 1] \in Resource
               /\ [o EXCEPT !.phase = "deleting", !.gen = @ + 1].finalizers = o.finalizers
    <2>1. [o EXCEPT !.phase = "deleting"] \in Resource
      BY DEF Resource
    <2>2. \A r \in Resource : [r EXCEPT !.gen = r.gen + 1] \in Resource
      BY DEF Resource
    <2>3. [o EXCEPT !.phase = "deleting", !.gen = @ + 1].finalizers = o.finalizers
      BY DEF Resource
    <2> QED
      BY <2>1, <2>2, <2>3
  <1> QED
    BY <1>1, <1>2, <1>3, <1>4, <1>5, <1>6

(* A deletion that empties the finalizers removes the object.              *)
LEMMA SettledFacts ==
    \A o \in Resource :
        Settled(o) \in Resource /\ Settled(o).finalizers \in {{}, o.finalizers}
  BY ResourceFacts DEF Settled

(* A newly created Bucket.                                                 *)
LEMMA CreatedFacts ==
    ASSUME NEW u \in Nat, NEW force \in BOOLEAN
    PROVE  LET o == [phase |-> "active", uid |-> u + 1, gen |-> 1, finalizers |-> {},
                     force |-> force, status |-> NoStatus]
           IN o \in Resource /\ o.finalizers = {}
  BY DEF Resource, Status, NoStatus, Reasons

(* The OBS buckets that the controller and others make.                    *)
LEMMA ObsFacts ==
    /\ NoObsBucket \in ObsBucket /\ NoObsBucket.origin = "absent"
    /\ \A s \in {"preexisting", "outsider"} :
          ObsAs(s, NoBucket, 0) \in ObsBucket /\ ObsAs(s, NoBucket, 0).origin = s
    /\ \A b \in Buckets, u \in Nat :
          ObsAs("operator", b, u) \in ObsBucket /\ ObsAs("operator", b, u).origin = "operator"
    /\ \A o \in ObsBucket : o.objects \in Nat
    /\ \A o \in ObsBucket, k \in Nat :
          /\ [o EXCEPT !.objects = k] \in ObsBucket
          /\ [o EXCEPT !.objects = k].origin = o.origin
          /\ [o EXCEPT !.cfg = k] \in ObsBucket
          /\ [o EXCEPT !.cfg = k].origin = o.origin
  BY DEF ObsBucket, ObsAs, NoObsBucket

(* Every error has a reason.                                               *)
LEMMA ReasonFacts ==
    \A e \in Errors, g \in Nat : [reason |-> Reason(e), gen |-> g] \in Status
  BY DEF Errors, Reason, Reasons, Status

(* Where Reconcile goes after an observation.                              *)
LEMMA NextCallFacts ==
    \A o, x : /\ NextCall(o, x) \in Labels \ {"idle"}
              /\ AfterNotEmpty(o) \in Labels \ {"idle"}
  BY DEF NextCall, AfterNotEmpty, Labels

-----------------------------------------------------------------------------
(* The building blocks of the actions keep the types.                      *)

(* A write to the API server.                                              *)
LEMMA WriteTypes ==
    ASSUME ApiTypes, NEW b \in Buckets, NEW o \in Resource, Write(b, o)
    PROVE  ApiTypes'
  <1>1. cr' \in [Buckets -> Resource]
    BY DEF ApiTypes, Write
  <1>2. Append(watch[b], o) \in Seq(Resource)
    BY DEF ApiTypes
  <1>3. watch' \in [Buckets -> Seq(Resource)]
    BY <1>2 DEF ApiTypes, Write
  <1> QED
    BY <1>1, <1>3 DEF ApiTypes

(* A step of the environment that is counted.                              *)
LEMMA SpendTypes ==
    ASSUME BudgetTypes, NEW k \in Kinds, Spend(k)
    PROVE  BudgetTypes'
  BY DEF BudgetTypes, Spend

(* Reconcile goes on, fails, or returns.                                   *)
LEMMA GotoTypes ==
    ASSUME WorkTypes, pc # "idle", NEW l \in Labels \ {"idle"}, Goto(l)
    PROVE  WorkTypes'
  BY DEF WorkTypes, Goto

(* Reconcile goes to patchStatus with an error.                            *)
LEMMA FailTypes ==
    ASSUME WorkTypes, pc # "idle", NEW e \in Errors, Fail(e)
    PROVE  WorkTypes'
  BY DEF WorkTypes, Fail, Labels

(* Reconcile returns, with or without an error.                            *)
LEMMA ReturnTypes ==
    ASSUME WorkTypes, pc # "idle", NEW r \in BOOLEAN, Return(r)
    PROVE  WorkTypes'
  <1>1. cur \in Buckets
    BY DEF WorkTypes
  <1>2. Gone(0) \in Resource
    BY ResourceFacts
  <1> QED
    BY <1>1, <1>2 DEF WorkTypes, Return, Idle, Labels, Errors

-----------------------------------------------------------------------------
(* Types, as one conjunction.                                              *)
AllTypes == ApiTypes /\ WorkTypes /\ RestTypes /\ ObsTypes /\ BudgetTypes

(* The OBS bucket of the Bucket in the worker's hands.                     *)
LEMMA CurFacts ==
    ASSUME AllTypes, pc # "idle"
    PROVE  /\ cur \in Buckets /\ name \in Names
           /\ cr[cur] \in Resource /\ remote[name] \in ObsBucket
  BY ConstantAssumptions DEF AllTypes, ApiTypes, WorkTypes, ObsTypes, name

(* SetRemote keeps the type of the OBS buckets.                            *)
LEMMA SetRemoteTypes ==
    ASSUME AllTypes, pc # "idle", NEW o \in ObsBucket, SetRemote(o)
    PROVE  ObsTypes'
  BY CurFacts DEF AllTypes, ObsTypes, SetRemote

(* What a page of deleteAllBucketObjects may take away, and what is left.   *)
LEMMA ListedFacts ==
    ASSUME NEW o \in ObsBucket, NEW k \in {0} \cup Listed(o.objects)
    PROVE  /\ k \in 0..o.objects /\ o.objects - k \in Nat
           /\ [o EXCEPT !.objects = o.objects - k] \in ObsBucket
           /\ [o EXCEPT !.objects = o.objects - k].origin = o.origin
  <1>1. o.objects \in Nat
    BY ObsFacts
  <1>2. k \in 0..o.objects /\ o.objects - k \in Nat
    BY <1>1 DEF Listed
  <1> QED
    BY <1>2, ObsFacts

(* A round of deleteAllBucketObjects takes away such a page or nothing.     *)
LEMMA PurgeStep ==
    ASSUME deleteAllBucketObjects
    PROVE  \/ remote' = remote
           \/ /\ Exists(name)
              /\ \E k \in {0} \cup Listed(remote[name].objects) :
                    SetRemote([remote[name] EXCEPT !.objects = remote[name].objects - k])
  BY DEF deleteAllBucketObjects

(* Users, watch delivery, others at OBS, and the start of Reconcile.       *)
LEMMA EnvironmentTypes ==
    ASSUME AllTypes,
           \/ \E b \in Buckets : Deliver(b) \/ Begin(b)
           \/ Users \/ Outsiders \/ Restart
    PROVE  AllTypes'
  <1> USE DEF AllTypes
  <1>1. ASSUME NEW b \in Buckets, Deliver(b) PROVE AllTypes'
    <2>1. Head(watch[b]) \in Resource /\ Tail(watch[b]) \in Seq(Resource)
      BY <1>1 DEF Deliver, ApiTypes
    <2>2. ApiTypes' /\ RestTypes'
      BY <1>1, <2>1 DEF Deliver, ApiTypes, RestTypes
    <2>3. WorkTypes'
      BY <1>1 DEF Deliver, WorkTypes, worker
    <2>4. ObsTypes' /\ BudgetTypes'
      BY <1>1 DEF Deliver, ObsTypes, BudgetTypes
    <2> QED
      BY <2>2, <2>3, <2>4
  <1>2. ASSUME NEW b \in Buckets, Begin(b) PROVE AllTypes'
    <2>1. WorkTypes'
      BY <1>2, ConstantAssumptions DEF Begin, WorkTypes, RestTypes, worker, Labels
    <2> QED
      BY <1>2, <2>1 DEF Begin, api, ApiTypes, RestTypes, ObsTypes, BudgetTypes
  <1>3. ASSUME NEW b \in Buckets, NEW o \in Resource, UserWrite(b, o) PROVE AllTypes'
    <2>1. ApiTypes'
      BY <1>3, WriteTypes DEF UserWrite
    <2>2. BudgetTypes'
      BY <1>3, SpendTypes DEF UserWrite, Kinds
    <2> QED
      BY <1>3, <2>1, <2>2 DEF UserWrite, WorkTypes, RestTypes, ObsTypes, worker
  <1>4. ASSUME NEW b \in Buckets,
               UserCreate(b) \/ UserEdit(b) \/ UserDelete(b) \/ OtherFinalizer(b)
        PROVE  AllTypes'
    <2>1. cr[b] \in Resource
      BY DEF ApiTypes
    <2>2. CASE UserCreate(b)
      <3>1. cr[b].uid \in Nat
        BY <2>1, ResourceFacts
      <3> QED
        BY <2>2, <3>1, CreatedFacts, <1>3 DEF UserCreate
    <2>3. CASE UserEdit(b)
      BY <2>1, <2>3, ResourceFacts, <1>3 DEF UserEdit
    <2>4. CASE UserDelete(b)
      BY <2>1, <2>4, ResourceFacts, SettledFacts, <1>3 DEF UserDelete
    <2>5. CASE OtherFinalizer(b)
      <3>1. /\ cr[b].finalizers \cup {Other} \in SUBSET {Ours, Other}
            /\ cr[b].finalizers \ {Other} \in SUBSET {Ours, Other}
        BY <2>1, ResourceFacts
      <3>2. /\ [cr[b] EXCEPT !.finalizers = @ \cup {Other}] \in Resource
            /\ [cr[b] EXCEPT !.finalizers = @ \ {Other}] \in Resource
        BY <2>1, <3>1, ResourceFacts
      <3> QED
        BY <2>5, <3>2, SettledFacts, <1>3 DEF OtherFinalizer
    <2> QED
      BY <1>4, <2>2, <2>3, <2>4, <2>5
  <1>5. CASE ProviderEvent
    <2>1. BudgetTypes'
      BY <1>5, SpendTypes DEF ProviderEvent, Kinds
    <2> QED
      BY <1>5, <2>1 DEF ProviderEvent, bucketsForProviderConfig, api, worker,
                        ApiTypes, WorkTypes, RestTypes, ObsTypes
  <1>6. ASSUME NEW n \in Names, OutsiderWrites(n) \/ OutsiderDrifts(n) PROVE AllTypes'
    <2>1. BudgetTypes'
      BY <1>6, SpendTypes DEF OutsiderWrites, OutsiderDrifts, Kinds
    <2>2. ObsTypes'
      <3>1. remote[n] \in ObsBucket
        BY DEF ObsTypes
      <3>2. CASE OutsiderWrites(n)
        <4>1. remote[n].objects + 1 \in Nat
          BY <3>1, ObsFacts
        <4>2. [remote[n] EXCEPT !.objects = @ + 1] \in ObsBucket
          BY <3>1, <4>1, ObsFacts
        <4> QED
          BY <3>2, <4>2 DEF OutsiderWrites, ObsTypes
      <3>3. CASE OutsiderDrifts(n)
        BY <3>3, ObsFacts DEF OutsiderDrifts, ObsTypes
      <3> QED
        BY <1>6, <3>2, <3>3
    <2> QED
      BY <1>6, <2>1, <2>2 DEF OutsiderWrites, OutsiderDrifts, api, worker,
                              ApiTypes, WorkTypes, RestTypes
  <1>7. CASE Restart
    <2>1. BudgetTypes'
      BY <1>7, SpendTypes DEF Restart, Kinds
    <2>2. WorkTypes'
      BY <1>7, ResourceFacts DEF Restart, Idle, WorkTypes, Labels, Errors
    <2>3. ApiTypes' /\ RestTypes' /\ ObsTypes'
      BY <1>7 DEF Restart, ApiTypes, RestTypes, ObsTypes
    <2> QED
      BY <2>1, <2>2, <2>3
  <1> QED
    BY <1>1, <1>2, <1>4, <1>5, <1>6, <1>7 DEF Users, Outsiders

(* The calls of Reconcile keep the types.                                  *)
LEMMA ReconcileTypes ==
    ASSUME AllTypes, Reconcile
    PROVE  AllTypes'
  <1> USE DEF AllTypes
  <1>1. CASE pc = "idle"
    BY <1>1 DEF Reconcile, resolveBucketClient, observe, observeAgain, create, update, delete,
                deleteAllBucketObjects, deleteAgain, addFinalizer, removeFinalizer,
                patchFinalizer, dropFinalizer, patchStatus
  <1>2. CASE pc # "idle"
    <2>1. /\ cur \in Buckets /\ name \in Names
          /\ cr[cur] \in Resource /\ remote[name] \in ObsBucket
          /\ copy \in Resource /\ copy.gen \in Nat /\ copy.uid \in Nat
          /\ remote[name].objects \in Nat
      BY <1>2, CurFacts, ResourceFacts, ObsFacts DEF WorkTypes
    <2>2. ASSUME NEW l \in Labels \ {"idle"}, Goto(l) PROVE WorkTypes'
      BY <1>2, <2>2, GotoTypes
    <2>3. ASSUME NEW e \in Errors, Fail(e) PROVE WorkTypes'
      BY <1>2, <2>3, FailTypes
    <2>4. ASSUME NEW r \in BOOLEAN, Return(r) PROVE WorkTypes'
      BY <1>2, <2>4, ReturnTypes
    <2>5. ASSUME NEW o \in ObsBucket, SetRemote(o) PROVE ObsTypes'
      BY <1>2, <2>5, SetRemoteTypes
    <2>6. ASSUME Spend("fault") PROVE BudgetTypes'
      BY <2>6, SpendTypes DEF Kinds
    <2>7. ASSUME NEW o \in Resource, Write(cur, o) PROVE ApiTypes'
      BY <2>1, <2>7, WriteTypes
    <2>8. CASE resolveBucketClient
      <3>1. WorkTypes'
        BY <2>8, <2>2, <2>3 DEF resolveBucketClient, Labels, Errors
      <3>2. BudgetTypes'
        BY <2>8, <2>6 DEF resolveBucketClient, Fault, BudgetTypes
      <3>3. ApiTypes' /\ RestTypes' /\ ObsTypes'
        BY <2>8 DEF resolveBucketClient, api, ApiTypes, RestTypes, ObsTypes
      <3> QED
        BY <3>1, <3>2, <3>3
    <2>9. CASE observe
      <3>1. WorkTypes'
        BY <2>9, <2>3, <1>2, NextCallFacts DEF observe, WorkTypes, Labels, Errors, Exists
      <3>2. BudgetTypes'
        BY <2>9, <2>6 DEF observe, ObsFault, BudgetTypes
      <3>3. ApiTypes' /\ RestTypes' /\ ObsTypes'
        BY <2>9 DEF observe, api, ApiTypes, RestTypes, ObsTypes
      <3> QED
        BY <3>1, <3>2, <3>3
    <2>10. CASE observeAgain
      <3>1. WorkTypes'
        BY <2>10, <2>2, <2>3 DEF observeAgain, Labels, Errors
      <3>2. BudgetTypes'
        BY <2>10, <2>6 DEF observeAgain, ObsFault, BudgetTypes
      <3>3. ApiTypes' /\ RestTypes' /\ ObsTypes'
        BY <2>10 DEF observeAgain, api, ApiTypes, RestTypes, ObsTypes
      <3> QED
        BY <3>1, <3>2, <3>3
    <2>11. CASE create
      <3>1. WorkTypes'
        BY <2>11, <1>2, <2>2, <2>3 DEF create, WorkTypes, Labels, Errors
      <3>2. BudgetTypes'
        BY <2>11, <2>6 DEF create, Fault, ObsFault, BudgetTypes
      <3>3. ObsTypes'
        BY <2>11, <2>1, <2>5, ObsFacts DEF create, ObsTypes
      <3>4. ApiTypes' /\ RestTypes'
        BY <2>11 DEF create, api, ApiTypes, RestTypes
      <3> QED
        BY <3>1, <3>2, <3>3, <3>4
    <2>12. CASE update
      <3>1. WorkTypes'
        BY <2>12, <2>2, <2>3 DEF update, Labels, Errors
      <3>2. BudgetTypes'
        BY <2>12, <2>6 DEF update, Fault, ObsFault, BudgetTypes
      <3>3. ObsTypes'
        BY <2>12, <2>1, <2>5, ObsFacts DEF update, Settings, ObsTypes
      <3>4. ApiTypes' /\ RestTypes'
        BY <2>12 DEF update, api, ApiTypes, RestTypes
      <3> QED
        BY <3>1, <3>2, <3>3, <3>4
    <2>13. CASE delete
      <3>1. WorkTypes'
        BY <2>13, <1>2, <2>2, <2>3, NextCallFacts DEF delete, WorkTypes, Labels, Errors
      <3>2. BudgetTypes'
        BY <2>13, <2>6 DEF delete, Fault, ObsFault, BudgetTypes
      <3>3. ObsTypes'
        BY <2>13, <2>1, <2>5, ObsFacts DEF delete, ObsTypes
      <3>4. ApiTypes' /\ RestTypes'
        BY <2>13 DEF delete, api, ApiTypes, RestTypes
      <3> QED
        BY <3>1, <3>2, <3>3, <3>4
    <2>14. CASE deleteAllBucketObjects
      <3>1. WorkTypes'
        BY <2>14, <2>2, <2>3 DEF deleteAllBucketObjects, Labels, Errors
      <3>2. BudgetTypes'
        BY <2>14, <2>6 DEF deleteAllBucketObjects, ObsFault, BudgetTypes
      <3>3. \A k \in {0} \cup Listed(remote[name].objects) :
               [remote[name] EXCEPT !.objects = remote[name].objects - k] \in ObsBucket
        BY <2>1, ListedFacts
      <3>5. ObsTypes'
        BY <2>14, <2>5, <3>3, PurgeStep DEF ObsTypes
      <3>6. ApiTypes' /\ RestTypes'
        BY <2>14 DEF deleteAllBucketObjects, api, ApiTypes, RestTypes
      <3> QED
        BY <3>1, <3>2, <3>5, <3>6
    <2>15. CASE deleteAgain
      <3>1. WorkTypes'
        BY <2>15, <2>2, <2>3 DEF deleteAgain, Labels, Errors
      <3>2. BudgetTypes'
        BY <2>15, <2>6 DEF deleteAgain, Fault, ObsFault, BudgetTypes
      <3>3. ObsTypes'
        BY <2>15, <2>1, <2>5, ObsFacts DEF deleteAgain, ObsTypes
      <3>4. ApiTypes' /\ RestTypes'
        BY <2>15 DEF deleteAgain, api, ApiTypes, RestTypes
      <3> QED
        BY <3>1, <3>2, <3>3, <3>4
    <2>16. ASSUME NEW l, NEW f \in SUBSET {Ours, Other}, patchFinalizer(l, f) PROVE AllTypes'
      <3>1. Settled(Patched(f)) \in Resource
        BY <2>1, ResourceFacts, SettledFacts DEF Patched
      <3>2. ApiTypes'
        BY <2>16, <2>7, <3>1 DEF patchFinalizer, api, ApiTypes
      <3>3. WorkTypes'
        BY <2>16, <2>4 DEF patchFinalizer
      <3>4. BudgetTypes'
        BY <2>16, <2>6 DEF patchFinalizer, Fault, BudgetTypes
      <3>5. RestTypes' /\ ObsTypes'
        BY <2>16 DEF patchFinalizer, RestTypes, ObsTypes
      <3> QED
        BY <3>2, <3>3, <3>4, <3>5
    <2>17. CASE addFinalizer \/ removeFinalizer
      <3>1. /\ copy.finalizers \cup {Ours} \in SUBSET {Ours, Other}
            /\ copy.finalizers \ {Ours} \in SUBSET {Ours, Other}
        BY <2>1, ResourceFacts
      <3> QED
        BY <2>17, <2>16, <3>1 DEF addFinalizer, removeFinalizer
    <2>18. CASE dropFinalizer
      <3> DEFINE f == copy.finalizers \ {Ours}
      <3>1. f \in SUBSET {Ours, Other}
        BY <2>1, ResourceFacts
      <3>2. Patched(f) \in Resource /\ Settled(Patched(f)) \in Resource
        BY <2>1, <3>1, ResourceFacts, SettledFacts DEF Patched
      <3> HIDE DEF f
      <3>3. ApiTypes'
        BY <2>18, <2>7, <3>2 DEF dropFinalizer, api, ApiTypes, f
      <3>4. WorkTypes'
        BY <2>18, <1>2, <3>2 DEF dropFinalizer, WorkTypes, Labels, Errors, f
      <3>5. BudgetTypes'
        BY <2>18, <2>6 DEF dropFinalizer, Fault, BudgetTypes
      <3>6. RestTypes' /\ ObsTypes'
        BY <2>18 DEF dropFinalizer, RestTypes, ObsTypes
      <3> QED
        BY <3>3, <3>4, <3>5, <3>6
    <2>19. CASE patchStatus
      <3> DEFINE o == [cr[cur] EXCEPT !.status = [reason |-> Reason(err), gen |-> copy.gen]]
      <3>1. o \in Resource
        BY <2>1, ResourceFacts, ReasonFacts DEF WorkTypes
      <3> HIDE DEF o
      <3>2. ApiTypes'
        BY <2>19, <2>7, <3>1 DEF patchStatus, api, ApiTypes, o
      <3>3. WorkTypes'
        <4>1. Retried(err) \in BOOLEAN
          BY DEF Retried
        <4> QED
          BY <2>19, <2>4, <4>1 DEF patchStatus
      <3>4. BudgetTypes'
        BY <2>19, <2>6 DEF patchStatus, Fault, BudgetTypes
      <3>5. RestTypes' /\ ObsTypes'
        BY <2>19 DEF patchStatus, RestTypes, ObsTypes
      <3> QED
        BY <3>2, <3>3, <3>4, <3>5
    <2> QED
      BY <2>8, <2>9, <2>10, <2>11, <2>12, <2>13, <2>14, <2>15, <2>17, <2>18, <2>19 DEF Reconcile
  <1> QED
    BY <1>1, <1>2

(* The variables keep their types.                                         *)
LEMMA TypeStep == TypeOK /\ [Next]_vars => TypeOK'
  <1> SUFFICES ASSUME TypeOK, [Next]_vars PROVE TypeOK'
    OBVIOUS
  <1>1. AllTypes
    BY TypeParts DEF AllTypes
  <1>2. AllTypes'
    <2>1. CASE Next
      BY <1>1, <2>1, EnvironmentTypes, ReconcileTypes DEF Next
    <2>2. CASE UNCHANGED vars
      BY <1>1, <2>2 DEF vars, AllTypes, ApiTypes, WorkTypes, RestTypes, ObsTypes, BudgetTypes
    <2> QED
      BY <2>1, <2>2
  <1> QED
    BY <1>2 DEF TypeOK, AllTypes, ApiTypes, WorkTypes, RestTypes, ObsTypes, BudgetTypes

(* The initial states are well typed.                                      *)
LEMMA TypeInit == Init => TypeOK
  <1> SUFFICES ASSUME Init PROVE TypeOK
    OBVIOUS
  <1>1. Gone(0) \in Resource
    BY ResourceFacts
  <1>2. NoObsBucket \in ObsBucket /\ ObsAs("preexisting", NoBucket, 0) \in ObsBucket
    BY ObsFacts
  <1>3. ApiTypes /\ RestTypes
    BY <1>1 DEF Init, ApiTypes, RestTypes
  <1>4. WorkTypes
    BY <1>1, ConstantAssumptions DEF Init, WorkTypes, Labels, Errors
  <1>5. ObsTypes
    BY <1>2 DEF Init, ObsTypes
  <1>6. BudgetTypes
    BY ConstantAssumptions DEF Init, BudgetTypes
  <1> QED
    BY <1>3, <1>4, <1>5, <1>6, TypeParts

(* Every variable of the Bucket controller keeps its type, and the worker   *)
(* holds a Bucket exactly while Reconcile runs.                            *)
THEOREM TypeCorrect == Spec => []TypeOK
  BY TypeInit, TypeStep, PTL DEF Spec

-----------------------------------------------------------------------------
(* OBS buckets nobody claims.                                              *)

(* Reconcile goes on only with a Bucket that tracks something or may come   *)
(* to: Begin returns early on the others.                                  *)
CopyTracked == pc \in {"resolve", "observe"} => Tracked(copy)

(* The parts of NoClaim: what is stored, and what the worker holds.         *)
NoClaimStored(b) ==
    /\ ~HasFinalizer(cr[b]) /\ ~HasFinalizer(cached[b])
    /\ \A i \in 1..Len(watch[b]) : ~HasFinalizer(watch[b][i])
NoClaimHeld(b) ==
    cur = b => ~HasFinalizer(copy) /\ pc \in {"resolve", "observe", "status"}

(* NoClaim is the conjunction of its parts.                                 *)
LEMMA NoClaimParts == \A b : NoClaim(b) <=> NoClaimStored(b) /\ NoClaimHeld(b)
  BY DEF NoClaim, NoClaimStored, NoClaimHeld

(* A call of Reconcile changes only the OBS bucket of the Bucket in hand,    *)
(* only from create, update and delete, and makes none look pre-existing.  *)
LEMMA RemoteStep ==
    ASSUME AllTypes, Reconcile, NEW n \in Names, remote'[n] # remote[n]
    PROVE  /\ pc \in {"create", "update", "delete", "purge", "deleteAgain"}
           /\ cur \in Buckets /\ n = ObsName[cur]
           /\ remote'[n].origin \in {"absent", "operator", remote[n].origin}
  <1>1. CASE resolveBucketClient \/ observe \/ observeAgain \/ addFinalizer
             \/ removeFinalizer \/ dropFinalizer \/ patchStatus
    BY <1>1 DEF resolveBucketClient, observe, observeAgain, addFinalizer, removeFinalizer,
                patchFinalizer, dropFinalizer, patchStatus
  <1>2. CASE create \/ update \/ delete \/ deleteAllBucketObjects \/ deleteAgain
    <2>1. pc \in {"create", "update", "delete", "purge", "deleteAgain"}
      BY <1>2 DEF create, update, delete, deleteAllBucketObjects, deleteAgain
    <2>2. /\ cur \in Buckets /\ name \in Names /\ remote[name] \in ObsBucket
          /\ copy.uid \in Nat /\ copy.gen \in Nat /\ remote[name].objects \in Nat
      BY <2>1, CurFacts, ResourceFacts, ObsFacts DEF AllTypes, WorkTypes
    <2>3. ASSUME NEW o, SetRemote(o) PROVE n = name /\ remote'[n] = o
      BY <2>2, <2>3 DEF SetRemote, AllTypes, ObsTypes
    <2>4. CASE create
      BY <2>1, <2>2, <2>3, <2>4, ObsFacts DEF create, name
    <2>5. CASE update
      <3>1. SetRemote(Settings(remote[name], copy.gen))
        BY <2>5 DEF update
      <3>2. Settings(remote[name], copy.gen).origin = remote[name].origin
        BY <2>2, ObsFacts DEF Settings
      <3> QED
        BY <2>1, <2>2, <2>3, <3>1, <3>2 DEF name
    <2>6. CASE delete
      BY <2>1, <2>2, <2>3, <2>6, ObsFacts DEF delete, name
    <2>7. CASE deleteAllBucketObjects
      <3>1. PICK k \in {0} \cup Listed(remote[name].objects) :
                SetRemote([remote[name] EXCEPT !.objects = remote[name].objects - k])
        BY <2>7, PurgeStep
      <3>2. [remote[name] EXCEPT !.objects = remote[name].objects - k].origin = remote[name].origin
        BY <2>2, ListedFacts
      <3> QED
        BY <2>1, <2>2, <2>3, <3>1, <3>2 DEF name
    <2>8. CASE deleteAgain
      BY <2>1, <2>2, <2>3, <2>8, ObsFacts DEF deleteAgain, name
    <2> QED
      BY <1>2, <2>4, <2>5, <2>6, <2>7, <2>8
  <1> QED
    BY <1>1, <1>2 DEF Reconcile

(* A write without our finalizer, or to another Bucket, claims nothing.     *)
LEMMA WriteNoClaim ==
    ASSUME AllTypes, NEW b \in Buckets, NoClaimStored(b), NEW x \in Buckets, NEW o \in Resource,
           Write(x, o), x = b => ~HasFinalizer(o), UNCHANGED cached
    PROVE  NoClaimStored(b)'
  <1>1. ~HasFinalizer(cr'[b]) /\ ~HasFinalizer(cached'[b])
    BY DEF AllTypes, ApiTypes, Write, NoClaimStored
  <1>2. ASSUME NEW i \in 1..Len(watch'[b]) PROVE ~HasFinalizer(watch'[b][i])
    <2>1. CASE watch'[b] = watch[b]
      BY <1>2, <2>1 DEF NoClaimStored
    <2>2. CASE watch'[b] # watch[b]
      <3>1. x = b /\ watch'[b] = Append(watch[b], o) /\ watch[b] \in Seq(Resource)
        BY <2>2 DEF AllTypes, ApiTypes, Write
      <3>2. watch'[b][i] = o \/ (i \in 1..Len(watch[b]) /\ watch'[b][i] = watch[b][i])
        BY <1>2, <3>1
      <3> QED
        BY <3>1, <3>2 DEF NoClaimStored
    <2> QED
      BY <2>1, <2>2
  <1> QED
    BY <1>1, <1>2 DEF NoClaimStored

(* Users, the informer, others at OBS and a restart do not claim.          *)
LEMMA EnvironmentNoClaim ==
    ASSUME AllTypes, NEW b \in Buckets, NoClaim(b),
           \/ \E x \in Buckets : Deliver(x) \/ Begin(x)
           \/ Users \/ Outsiders \/ Restart
    PROVE  NoClaim(b)'
  <1>0. NoClaimStored(b) /\ NoClaimHeld(b)
    BY NoClaimParts
  <1> SUFFICES NoClaimStored(b)' /\ NoClaimHeld(b)'
    BY DEF NoClaim, NoClaimStored, NoClaimHeld
  <1>1. ASSUME NEW x \in Buckets, Deliver(x) PROVE NoClaimStored(b)' /\ NoClaimHeld(b)'
    <2>1. CASE x # b
      BY <1>0, <1>1, <2>1
         DEF Deliver, NoClaimStored, NoClaimHeld, worker, AllTypes, ApiTypes, RestTypes
    <2>2. CASE x = b
      <3>1. /\ watch[b] \in Seq(Resource) /\ watch[b] # <<>>
            /\ cached'[b] = Head(watch[b]) /\ watch'[b] = Tail(watch[b]) /\ cr' = cr
        BY <1>1, <2>2 DEF Deliver, AllTypes, ApiTypes, RestTypes
      <3>2. /\ Head(watch[b]) = watch[b][1] /\ 1 \in 1..Len(watch[b])
            /\ \A i \in 1..Len(Tail(watch[b])) :
                  i + 1 \in 1..Len(watch[b]) /\ Tail(watch[b])[i] = watch[b][i + 1]
        BY <3>1
      <3>3. NoClaimStored(b)'
        BY <1>0, <3>1, <3>2 DEF NoClaimStored
      <3>4. NoClaimHeld(b)'
        BY <1>0, <1>1 DEF Deliver, NoClaimHeld, worker
      <3> QED
        BY <3>3, <3>4
    <2> QED
      BY <2>1, <2>2
  <1>2. ASSUME NEW x \in Buckets, Begin(x) PROVE NoClaimStored(b)' /\ NoClaimHeld(b)'
    BY <1>0, <1>2 DEF Begin, NoClaimStored, NoClaimHeld, worker, api
  <1>3. ASSUME NEW x \in Buckets, NEW o \in Resource, UserWrite(x, o),
               o.finalizers \subseteq cr[x].finalizers \cup {Other}
        PROVE  NoClaimStored(b)' /\ NoClaimHeld(b)'
    <2>1. x = b => ~HasFinalizer(o)
      BY <1>0, <1>3 DEF NoClaimStored, HasFinalizer, Ours, Other
    <2> QED
      BY <1>0, <1>3, <2>1, WriteNoClaim DEF UserWrite, NoClaimHeld, worker
  <1>4. ASSUME NEW x \in Buckets,
               UserCreate(x) \/ UserEdit(x) \/ UserDelete(x) \/ OtherFinalizer(x)
        PROVE  NoClaimStored(b)' /\ NoClaimHeld(b)'
    <2>1. cr[x] \in Resource
      BY DEF AllTypes, ApiTypes
    <2>2. CASE UserCreate(x)
      <3>1. cr[x].uid \in Nat
        BY <2>1, ResourceFacts
      <3> QED
        BY <2>2, <3>1, CreatedFacts, <1>3 DEF UserCreate
    <2>3. CASE UserEdit(x)
      BY <2>1, <2>3, ResourceFacts, <1>3 DEF UserEdit
    <2>4. CASE UserDelete(x)
      <3> DEFINE o == [cr[x] EXCEPT !.phase = "deleting", !.gen = @ + 1]
      <3>1. o \in Resource /\ o.finalizers = cr[x].finalizers
        BY <2>1, ResourceFacts
      <3>2. UserWrite(x, Settled(o))
        BY <2>4 DEF UserDelete
      <3> HIDE DEF o
      <3>3. Settled(o) \in Resource /\ Settled(o).finalizers \subseteq cr[x].finalizers
        BY <3>1, SettledFacts
      <3> QED
        BY <3>2, <3>3, <1>3
    <2>5. CASE OtherFinalizer(x)
      <3> DEFINE f == cr[x].finalizers \cup {Other}
                 g == cr[x].finalizers \ {Other}
      <3>1. f \in SUBSET {Ours, Other} /\ g \in SUBSET {Ours, Other}
        BY <2>1, ResourceFacts
      <3>2. \/ UserWrite(x, [cr[x] EXCEPT !.finalizers = f])
            \/ UserWrite(x, Settled([cr[x] EXCEPT !.finalizers = g]))
        BY <2>5 DEF OtherFinalizer
      <3>3. /\ [cr[x] EXCEPT !.finalizers = f] \in Resource
            /\ [cr[x] EXCEPT !.finalizers = f].finalizers = f
            /\ [cr[x] EXCEPT !.finalizers = g] \in Resource
            /\ [cr[x] EXCEPT !.finalizers = g].finalizers = g
        BY <2>1, <3>1, ResourceFacts
      <3>4. /\ Settled([cr[x] EXCEPT !.finalizers = g]) \in Resource
            /\ Settled([cr[x] EXCEPT !.finalizers = g]).finalizers \in {{}, g}
        BY <3>3, SettledFacts
      <3> QED
        BY <3>2, <3>3, <3>4, <1>3
    <2> QED
      BY <1>4, <2>2, <2>3, <2>4, <2>5
  <1>5. CASE ProviderEvent \/ Outsiders
    BY <1>0, <1>5 DEF ProviderEvent, Outsiders, OutsiderWrites, OutsiderDrifts,
                      NoClaimStored, NoClaimHeld, worker, api
  <1>6. CASE Restart
    <2>1. cached' = cr /\ cr' = cr /\ watch'[b] = <<>> /\ cur' = NoBucket
      BY <1>6 DEF Restart, Idle
    <2> QED
      BY <1>0, <2>1, ConstantAssumptions DEF NoClaimStored, NoClaimHeld
  <1> QED
    BY <1>1, <1>2, <1>4, <1>5, <1>6 DEF Users

(* Nor does Reconcile, as long as the OBS bucket of that name exists: it     *)
(* observes before it adds the finalizer.                                  *)
LEMMA ReconcileNoClaim ==
    ASSUME AllTypes, CopyTracked, NEW b \in Buckets, NoClaim(b), Exists(ObsName[b]), Reconcile
    PROVE  NoClaim(b)'
  <1>0. NoClaimStored(b) /\ NoClaimHeld(b)
    BY NoClaimParts
  <1> SUFFICES NoClaimStored(b)' /\ NoClaimHeld(b)'
    BY DEF NoClaim, NoClaimStored, NoClaimHeld
  <1>1. pc # "idle" /\ cur \in Buckets /\ cr[cur] \in Resource /\ copy \in Resource
    <2>1. pc # "idle"
      BY DEF Reconcile, resolveBucketClient, observe, observeAgain, create, update, delete,
             deleteAllBucketObjects, deleteAgain, addFinalizer, removeFinalizer,
             patchFinalizer, dropFinalizer, patchStatus
    <2> QED
      BY <2>1, CurFacts DEF AllTypes, WorkTypes
  <1>2. CASE cur # b
    <2>1. cur' \in {cur, NoBucket} /\ cached' = cached /\ cr'[b] = cr[b] /\ watch'[b] = watch[b]
      <3>1. ASSUME NEW o, Write(cur, o) PROVE cr'[b] = cr[b] /\ watch'[b] = watch[b]
        BY <1>1, <1>2, <3>1 DEF Write, AllTypes, ApiTypes
      <3>2. CASE addFinalizer \/ removeFinalizer \/ dropFinalizer \/ patchStatus
        BY <3>1, <3>2 DEF addFinalizer, removeFinalizer, patchFinalizer, dropFinalizer,
                          patchStatus, api, Return, Idle
      <3>3. CASE resolveBucketClient \/ observe \/ observeAgain \/ create \/ update
                 \/ delete \/ deleteAllBucketObjects \/ deleteAgain
        BY <3>3 DEF resolveBucketClient, observe, observeAgain, create, update, delete,
                    deleteAllBucketObjects, deleteAgain, api, Goto, Fail
      <3> QED
        BY <3>2, <3>3 DEF Reconcile
    <2> QED
      BY <1>0, <1>2, <2>1, ConstantAssumptions DEF NoClaimStored, NoClaimHeld
  <1>3. CASE cur = b
    <2>1. ~HasFinalizer(copy) /\ pc \in {"resolve", "observe", "status"}
      BY <1>0, <1>3 DEF NoClaimHeld
    <2>2. CASE resolveBucketClient
      BY <1>0, <1>3, <2>1, <2>2
         DEF resolveBucketClient, Goto, Fail, api, NoClaimStored, NoClaimHeld
    <2>3. CASE observe
      <3>1. pc = "observe" /\ Tracked(copy)
        BY <2>3 DEF observe, CopyTracked
      <3>2. NextCall(copy, Exists(name)) = "status"
        BY <1>3, <2>1, <3>1 DEF Tracked, NextCall, name
      <3>3. pc' = "status" /\ UNCHANGED <<copy, cr, watch, cached>>
        BY <2>3, <3>2 DEF observe, Fail, api
      <3> QED
        BY <1>0, <2>1, <3>3 DEF NoClaimStored, NoClaimHeld
    <2>4. CASE patchStatus
      <3> DEFINE s == [reason |-> Reason(err), gen |-> copy.gen]
                 o == [cr[cur] EXCEPT !.status = s]
      <3>1. s \in Status
        BY <1>1, ResourceFacts, ReasonFacts DEF AllTypes, WorkTypes
      <3>2. o \in Resource /\ o.finalizers = cr[cur].finalizers
        BY <1>1, <3>1, ResourceFacts
      <3>3. (Write(cur, o) \/ UNCHANGED api) /\ cached' = cached /\ cur' = NoBucket
        BY <2>4 DEF patchStatus, Return, Idle
      <3> HIDE DEF o, s
      <3>4. ~HasFinalizer(o)
        BY <1>0, <1>3, <3>2 DEF NoClaimStored, HasFinalizer
      <3>5. NoClaimStored(b)'
        <4>1. CASE Write(cur, o)
          BY <1>0, <1>1, <3>2, <3>3, <3>4, <4>1, WriteNoClaim
        <4>2. CASE UNCHANGED api
          BY <1>0, <3>3, <4>2 DEF api, NoClaimStored
        <4> QED
          BY <3>3, <4>1, <4>2
      <3> QED
        BY <3>3, <3>5, ConstantAssumptions DEF NoClaimHeld
    <2> QED
      BY <2>1, <2>2, <2>3, <2>4
         DEF Reconcile, observeAgain, create, update, delete, deleteAllBucketObjects,
             deleteAgain, addFinalizer, removeFinalizer, patchFinalizer, dropFinalizer
  <1> QED
    BY <1>2, <1>3

(* The worker never holds a Bucket it should have returned on.              *)
LEMMA CopyTrackedStep == CopyTracked /\ [Next]_vars => CopyTracked'
  <1> SUFFICES ASSUME CopyTracked, [Next]_vars PROVE CopyTracked'
    OBVIOUS
  <1>1. CASE Reconcile
    <2>1. CASE resolveBucketClient
      BY <2>1 DEF resolveBucketClient, Goto, Fail, CopyTracked
    <2>2. CASE observe
      BY <2>2 DEF observe, NextCall, Fail, CopyTracked
    <2>3. CASE delete
      BY <2>3 DEF delete, AfterNotEmpty, Goto, Fail, CopyTracked
    <2>4. CASE observeAgain \/ create \/ update \/ deleteAllBucketObjects \/ deleteAgain
      BY <2>4 DEF observeAgain, create, update, deleteAllBucketObjects, deleteAgain,
                  Goto, Fail, CopyTracked
    <2>5. CASE addFinalizer \/ removeFinalizer \/ dropFinalizer \/ patchStatus
      BY <2>5 DEF addFinalizer, removeFinalizer, patchFinalizer, dropFinalizer, patchStatus,
                  Return, Idle, CopyTracked
    <2> QED
      BY <1>1, <2>1, <2>2, <2>3, <2>4, <2>5 DEF Reconcile
  <1>2. ASSUME NEW b \in Buckets, Begin(b) PROVE CopyTracked'
    BY <1>2 DEF Begin, worker, CopyTracked
  <1>3. CASE Restart
    BY <1>3 DEF Restart, Idle, CopyTracked
  <1>4. CASE UNCHANGED worker
    BY <1>4 DEF worker, CopyTracked
  <1>5. CASE Users \/ Outsiders \/ \E b \in Buckets : Deliver(b)
    BY <1>4, <1>5
       DEF Users, Outsiders, Deliver, UserCreate, UserEdit, UserDelete, OtherFinalizer,
                      UserWrite, ProviderEvent, OutsiderWrites, OutsiderDrifts
  <1> QED
    BY <1>1, <1>2, <1>3, <1>4, <1>5 DEF Next, vars, worker

-----------------------------------------------------------------------------
(* No step but one of another OBS client touches a bucket that nobody       *)
(* claims, and none claims it.                                             *)
LEMMA LeftAloneStep ==
    ASSUME TypeOK, CopyTracked, Next, NEW n \in Names, Exists(n), Unclaimed(n)
    PROVE  (remote'[n] = remote[n] \/ Outsiders) /\ Unclaimed(n)'
  <1>1. AllTypes
    BY TypeParts DEF AllTypes
  <1>2. ASSUME remote'[n] # remote[n], ~Outsiders PROVE FALSE
    <2>1. Reconcile
      BY <1>2 DEF Next, Users, Deliver, Begin, Restart, UserCreate, UserEdit, UserDelete,
                  OtherFinalizer, UserWrite, ProviderEvent
    <2>2. /\ pc \in {"create", "update", "delete", "purge", "deleteAgain"}
          /\ cur \in Buckets /\ n = ObsName[cur]
      BY <1>1, <1>2, <2>1, RemoteStep
    <2>3. NoClaim(cur)
      BY <2>2 DEF Unclaimed
    <2> QED
      BY <2>2, <2>3 DEF NoClaim
  <1>3. ASSUME NEW b \in Buckets, ObsName[b] = n PROVE NoClaim(b)'
    <2>1. NoClaim(b) /\ Exists(ObsName[b])
      BY <1>3 DEF Unclaimed
    <2> QED
      BY <1>1, <2>1, EnvironmentNoClaim, ReconcileNoClaim DEF Next
  <1> QED
    BY <1>2, <1>3 DEF Unclaimed

(* At the start no Bucket exists, so none claims anything.                 *)
LEMMA UnclaimedInit == Init => CopyTracked /\ \A n \in Names : Unclaimed(n)
  <1>1. Gone(0).finalizers = {}
    BY ResourceFacts
  <1> QED
    BY <1>1, ConstantAssumptions DEF Init, CopyTracked, Unclaimed, NoClaim, HasFinalizer

(* The controller never changes, deletes or comes to claim an OBS bucket    *)
(* that exists while nobody claims its name: for any number of Buckets,     *)
(* also of one name, any informer lag, conflicts, failures and restarts.    *)
THEOREM LeavesUnclaimedAlone == Spec => UnclaimedLeftAlone
  <1>1. TypeOK /\ CopyTracked /\ [Next]_vars =>
          [\A n \in Names : Exists(n) /\ Unclaimed(n) =>
                /\ remote'[n] = remote[n] \/ Outsiders
                /\ Unclaimed(n)']_vars
    BY LeftAloneStep
  <1>2. Init => TypeOK /\ CopyTracked
    BY TypeInit, UnclaimedInit
  <1>3. TypeOK /\ CopyTracked /\ [Next]_vars => TypeOK' /\ CopyTracked'
    BY TypeStep, CopyTrackedStep
  <1> QED
    BY <1>1, <1>2, <1>3, PTL DEF Spec, UnclaimedLeftAlone

-----------------------------------------------------------------------------
(* Where nobody else creates OBS buckets.                                  *)

(* While an OBS bucket that was there before our finalizer exists, no Bucket *)
(* of its name is or becomes claimed.                                      *)
PreexistingUnclaimed ==
    \A n \in Names : remote[n].origin = "preexisting" => Unclaimed(n)

(* What ownership rests on: nothing is taken over that was there first.     *)
NoAdoption == TypeOK /\ CopyTracked /\ PreexistingUnclaimed

(* Every step keeps NoAdoption.  Not so where others create OBS buckets: one  *)
(* made between observe and addFinalizer is there first, and yet claimed.  *)
LEMMA NoAdoptionStep ==
    ASSUME ~OutsidersCreate, NoAdoption, [Next]_vars
    PROVE  NoAdoption'
  <1> SUFFICES PreexistingUnclaimed'
    BY TypeStep, CopyTrackedStep DEF NoAdoption
  <1>1. AllTypes
    BY TypeParts DEF NoAdoption, AllTypes
  <1>2. CASE UNCHANGED vars
    BY <1>2 DEF vars, NoAdoption, PreexistingUnclaimed, Unclaimed, NoClaim
  <1>3. CASE Next
    <2> SUFFICES ASSUME NEW n \in Names, remote'[n].origin = "preexisting" PROVE Unclaimed(n)'
      BY DEF PreexistingUnclaimed
    <2>1. CASE remote[n].origin = "preexisting"
      BY <1>3, <2>1, LeftAloneStep DEF NoAdoption, PreexistingUnclaimed, Exists
    <2>2. CASE remote[n].origin # "preexisting"
      <3>1. remote'[n] # remote[n]
        BY <2>2
      <3>2. Outsiders
        BY <1>1, <1>3, <2>2, <3>1, RemoteStep
           DEF Next, Users, Deliver, Begin, Restart, UserCreate, UserEdit, UserDelete,
               OtherFinalizer, UserWrite, ProviderEvent
      <3>3. PICK m \in Names : OutsiderWrites(m) \/ OutsiderDrifts(m)
        BY <3>2 DEF Outsiders
      <3>4. m = n
        BY <1>1, <3>1, <3>3 DEF OutsiderWrites, OutsiderDrifts, AllTypes, ObsTypes
      <3>5. CASE OutsiderWrites(n)
        <4>1. remote'[n] = [remote[n] EXCEPT !.objects = @ + 1] /\ remote[n] \in ObsBucket
          BY <1>1, <3>5 DEF OutsiderWrites, AllTypes, ObsTypes
        <4>2. remote'[n].origin = remote[n].origin
          BY <4>1 DEF ObsBucket
        <4> QED
          BY <2>2, <4>2
      <3>6. CASE OutsiderDrifts(n)
        BY <1>1, <3>6, ObsFacts DEF OutsiderDrifts, AllTypes, ObsTypes
      <3> QED
        BY <3>3, <3>4, <3>5, <3>6
    <2> QED
      BY <2>1, <2>2
  <1> QED
    BY <1>2, <1>3

(* At the start nothing is claimed.                                        *)
LEMMA NoAdoptionInit == Init => NoAdoption
  BY TypeInit, UnclaimedInit DEF NoAdoption, PreexistingUnclaimed

-----------------------------------------------------------------------------
(* What the worker holds, and what others have done at OBS.                *)

(* The worker keeps its copy of Bucket b, or lets go of it.                 *)
Held(b) == cur' = b => cur = b /\ copy' = copy

(* Reconcile works on one copy, and reads the informer only when it begins.  *)
LEMMA WorkerHolds ==
    ASSUME AllTypes, Reconcile, pc # "dropFinalizer"
    PROVE  /\ cached' = cached /\ provider' = provider
           /\ pc # "idle" /\ cur \in Buckets /\ copy \in Resource
           /\ cr[cur] \in Resource
           /\ \A b \in Buckets : Held(b)
           /\ (cur' = cur /\ copy' = copy) \/ (cur' = NoBucket /\ pc' = "idle")
  <1>1. pc # "idle" /\ cached' = cached /\ provider' = provider
    BY DEF Reconcile, resolveBucketClient, observe, observeAgain, create, update, delete,
           deleteAllBucketObjects, deleteAgain, addFinalizer, removeFinalizer,
           patchFinalizer, dropFinalizer, patchStatus
  <1>2. (cur' = cur /\ copy' = copy) \/ (cur' = NoBucket /\ pc' = "idle")
    <2>1. CASE addFinalizer \/ removeFinalizer \/ patchStatus
      BY <2>1 DEF addFinalizer, removeFinalizer, patchFinalizer, patchStatus, Return, Idle
    <2>2. CASE resolveBucketClient \/ observe \/ observeAgain
      BY <2>2 DEF resolveBucketClient, observe, observeAgain, Goto, Fail
    <2>3. CASE create
      BY <2>3 DEF create, Goto, Fail
    <2>4. CASE update
      BY <2>4 DEF update, Goto, Fail
    <2>5. CASE delete
      BY <2>5 DEF delete, Goto, Fail
    <2>6. CASE deleteAllBucketObjects
      BY <2>6 DEF deleteAllBucketObjects, Goto, Fail
    <2>7. CASE deleteAgain
      BY <2>7 DEF deleteAgain, Goto, Fail
    <2> QED
      BY <2>1, <2>2, <2>3, <2>4, <2>5, <2>6, <2>7 DEF Reconcile, dropFinalizer
  <1> QED
    BY <1>1, <1>2, CurFacts, ConstantAssumptions DEF AllTypes, WorkTypes, Held

(* No step of others at an OBS bucket.                                     *)
SameOthers == budget'["drift"] = budget["drift"]

(* Others have deleted an OBS bucket.                                      *)
LEMMA DriftSpent ==
    ASSUME budget \in [Kinds -> Nat], Spend("drift")
    PROVE  budget["drift"] > 0 /\ budget'["drift"] = budget["drift"] - 1
  BY DEF Spend, Kinds

(* Nothing else uses up what others may do.                                *)
LEMMA DriftKept ==
    ASSUME AllTypes, Next, \A n \in Names : ~OutsiderDrifts(n)
    PROVE  SameOthers
  <1>1. ASSUME NEW k \in Kinds \ {"drift"}, Spend(k) PROVE SameOthers
    BY <1>1 DEF Spend, SameOthers, Kinds, AllTypes, BudgetTypes
  <1>2. CASE UNCHANGED budget
    BY <1>2 DEF SameOthers
  <1>3. CASE Users \/ Restart
    BY <1>1, <1>3 DEF Users, UserCreate, UserEdit, UserDelete, OtherFinalizer, UserWrite,
                      ProviderEvent, Restart, Kinds
  <1>4. CASE Outsiders
    BY <1>1, <1>4 DEF Outsiders, OutsiderWrites, Kinds
  <1>5. CASE Reconcile
    <2>1. ASSUME Spend("fault") PROVE SameOthers
      BY <1>1, <2>1 DEF Kinds
    <2>2. CASE resolveBucketClient \/ observe \/ observeAgain
      BY <1>2, <2>1, <2>2 DEF resolveBucketClient, observe, observeAgain, Fault, ObsFault
    <2>3. CASE create \/ update
      BY <1>2, <2>1, <2>3 DEF create, update, Fault, ObsFault
    <2>4. CASE delete \/ deleteAllBucketObjects \/ deleteAgain
      BY <1>2, <2>1, <2>4 DEF delete, deleteAllBucketObjects, deleteAgain, Fault, ObsFault
    <2>5. CASE addFinalizer \/ removeFinalizer \/ dropFinalizer \/ patchStatus
      BY <1>2, <2>1, <2>5 DEF addFinalizer, removeFinalizer, patchFinalizer, dropFinalizer,
                              patchStatus, Fault
    <2> QED
      BY <1>5, <2>2, <2>3, <2>4, <2>5 DEF Reconcile
  <1> QED
    BY <1>2, <1>3, <1>4, <1>5 DEF Next, Deliver, Begin

(* Budgets are only used up.                                               *)
DriftLeft == budget["drift"] <= Budget["drift"]

(* While nobody has drifted an OBS bucket, nobody had.                      *)
LEMMA DriftStep ==
    ASSUME AllTypes, DriftLeft, Next
    PROVE  /\ DriftLeft'
           /\ NoDrift' => NoDrift /\ \A n \in Names : ~OutsiderDrifts(n)
  <1>1. budget \in [Kinds -> Nat] /\ budget["drift"] \in Nat /\ Budget["drift"] \in Nat
    BY ConstantAssumptions DEF AllTypes, BudgetTypes, Kinds
  <1>2. CASE \A n \in Names : ~OutsiderDrifts(n)
    BY <1>2, DriftKept DEF DriftLeft, NoDrift, SameOthers
  <1>3. CASE \E n \in Names : OutsiderDrifts(n)
    <2>1. budget["drift"] > 0 /\ budget'["drift"] = budget["drift"] - 1
      BY <1>1, <1>3, DriftSpent DEF OutsiderDrifts
    <2> QED
      BY <1>1, <2>1 DEF DriftLeft, NoDrift
  <1> QED
    BY <1>2, <1>3

-----------------------------------------------------------------------------
(* Nothing is forgotten.  The argument: what the informer has not yet told   *)
(* the controller is either an event that will pass the predicate, or makes *)
(* no difference to Reconcile; so a Bucket to which the controller owes no  *)
(* reconcile is, but for its status, the one that Reconcile last saw.       *)

(* Two versions of a Bucket that Reconcile treats alike.                   *)
Alike(v, w) ==
    /\ v.phase = w.phase /\ v.uid = w.uid /\ v.gen = w.gen
    /\ v.finalizers = w.finalizers /\ v.force = w.force

(* The step from one version to the next passes the predicate if it matters. *)
Heard(v, w) == bucketEventPredicate(v, w) \/ Alike(v, w)

(* The version before the i-th one on its way to the informer.              *)
Prev(b, i) == IF i = 1 THEN cached[b] ELSE watch[b][i - 1]

(* What the informer holds and is still to hear leads to what is stored, and *)
(* every step that matters will be heard.                                  *)
Told(b) ==
    /\ \A i \in 1..Len(watch[b]) : Heard(Prev(b, i), watch[b][i])
    /\ cr[b] = Prev(b, Len(watch[b]) + 1)

(* The controller owes the Bucket a reconcile: it is queued, or something    *)
(* that matters is on its way.                                             *)
Pending(b) == \E i \in 1..Len(watch[b]) : ~Alike(watch[b][i], cached[b])
Owed(b) == b \in queue \/ Pending(b)

(* A step that leaves no reconcile owed has paid none off and changed        *)
(* nothing that matters.                                                   *)
Preserved(b) == ~Owed(b)' => ~Owed(b) /\ Alike(cr[b], cr'[b])

(* With nothing that matters on its way, the informer is up to date.        *)
LEMMA UpToDate ==
    ASSUME AllTypes, NEW b \in Buckets, Told(b), ~Pending(b)
    PROVE  Alike(cached[b], cr[b])
  <1>1. watch[b] \in Seq(Resource) /\ Len(watch[b]) \in Nat
    BY DEF AllTypes, ApiTypes
  <1>2. CASE Len(watch[b]) = 0
    BY <1>2 DEF Told, Prev, Alike
  <1>3. CASE Len(watch[b]) # 0
    <2>1. Len(watch[b]) \in 1..Len(watch[b]) /\ cr[b] = watch[b][Len(watch[b])]
      BY <1>1, <1>3 DEF Told, Prev
    <2> QED
      BY <2>1 DEF Pending, Alike
  <1> QED
    BY <1>2, <1>3

(* A write that is heard becomes a reconcile that is owed, or changes        *)
(* nothing that matters.                                                   *)
LEMMA WriteKept ==
    ASSUME AllTypes, NEW b \in Buckets, Told(b), NEW x \in Buckets, NEW o, Write(x, o),
           x = b => Heard(cr[b], o), cached' = cached, b \in queue => b \in queue'
    PROVE  Told(b)' /\ Preserved(b) /\ cr'[b] = IF x = b THEN o ELSE cr[b]
  <1>1. PICK n \in Nat : n = Len(watch[b]) /\ watch[b] \in Seq(Resource)
    BY DEF AllTypes, ApiTypes
  <1>2. cr'[b] = IF x = b THEN o ELSE cr[b]
    BY DEF AllTypes, ApiTypes, Write
  <1>3. CASE watch'[b] = watch[b] /\ cr'[b] = cr[b]
    <2>1. Told(b)'
      BY <1>3 DEF Told, Prev
    <2>2. Preserved(b)
      BY <1>3 DEF Preserved, Owed, Pending, Alike
    <2> QED
      BY <1>2, <2>1, <2>2
  <1>4. CASE ~(watch'[b] = watch[b] /\ cr'[b] = cr[b])
    <2>1. x = b /\ watch'[b] = Append(watch[b], o) /\ cr'[b] = o
      BY <1>4 DEF AllTypes, ApiTypes, Write
    <2>2. /\ Len(watch'[b]) = n + 1 /\ watch'[b][n + 1] = o
          /\ \A i \in 1..n : watch'[b][i] = watch[b][i]
      BY <1>1, <2>1
    <2>3. \A i \in 1..(n + 1) : Prev(b, i)' = Prev(b, i)
      BY <1>1, <2>2 DEF Prev
    <2>4. Prev(b, n + 2)' = o
      BY <1>1, <2>2 DEF Prev
    <2>5. ASSUME NEW i \in 1..(n + 1) PROVE Heard(Prev(b, i)', watch'[b][i])
      <3>1. CASE i = n + 1
        BY <1>1, <2>1, <2>2, <2>3, <3>1 DEF Told
      <3>2. CASE i \in 1..n
        BY <1>1, <2>2, <2>3, <3>2 DEF Told
      <3> QED
        BY <1>1, <3>1, <3>2
    <2>6. Told(b)'
      <3>1. Len(watch'[b]) + 1 = n + 2
        BY <1>1, <2>2
      <3> QED
        BY <2>1, <2>2, <2>4, <2>5, <3>1 DEF Told
    <2>7. ASSUME ~Owed(b)' PROVE ~Owed(b) /\ Alike(cr[b], cr'[b])
      <3>1. \A i \in 1..(n + 1) : Alike(watch'[b][i], cached[b])
        BY <2>2, <2>7 DEF Owed, Pending
      <3>2. n + 1 \in 1..(n + 1) /\ 1..n \subseteq 1..(n + 1)
        BY <1>1
      <3>3. ~Pending(b) /\ Alike(o, cached[b])
        BY <1>1, <2>2, <3>1, <3>2 DEF Pending
      <3>4. Alike(cached[b], cr[b])
        BY <3>3, UpToDate
      <3> QED
        BY <2>1, <2>7, <3>3, <3>4 DEF Owed, Alike
    <2> QED
      BY <1>2, <2>6, <2>7 DEF Preserved
  <1> QED
    BY <1>3, <1>4

(* Delivery of an event enqueues the Bucket, or the event did not matter.   *)
LEMMA DeliverKept ==
    ASSUME AllTypes, NEW b \in Buckets, Told(b), NEW x \in Buckets, Deliver(x)
    PROVE  Told(b)' /\ Preserved(b)
  <1>1. PICK n \in Nat : n = Len(watch[b]) /\ watch[b] \in Seq(Resource)
    BY DEF AllTypes, ApiTypes
  <1>2. CASE x # b
    <2>1. /\ watch'[b] = watch[b] /\ cached'[b] = cached[b] /\ cr' = cr
          /\ b \in queue => b \in queue'
      BY <1>2 DEF Deliver, AllTypes, ApiTypes, RestTypes
    <2>2. Told(b)'
      BY <2>1 DEF Told, Prev
    <2>3. Preserved(b)
      BY <2>1 DEF Preserved, Owed, Pending, Alike
    <2> QED
      BY <2>2, <2>3
  <1>3. CASE x = b
    <2>1. /\ n # 0 /\ cached'[b] = watch[b][1] /\ watch'[b] = Tail(watch[b]) /\ cr' = cr
          /\ b \in queue => b \in queue'
          /\ bucketEventPredicate(cached[b], watch[b][1]) => b \in queue'
      BY <1>1, <1>3 DEF Deliver, AllTypes, ApiTypes, RestTypes
    <2>2. /\ Len(watch'[b]) = n - 1
          /\ \A i \in 1..(n - 1) : i + 1 \in 1..n /\ watch'[b][i] = watch[b][i + 1]
      BY <1>1, <2>1
    <2>3. \A i \in 1..n : Prev(b, i)' = Prev(b, i + 1)
      BY <1>1, <2>1, <2>2 DEF Prev
    <2>4. Told(b)'
      <3>1. \A i \in 1..(n - 1) : Heard(Prev(b, i)', watch'[b][i])
        BY <1>1, <2>2, <2>3 DEF Told
      <3>2. n \in 1..n /\ Len(watch'[b]) + 1 = n
        BY <1>1, <2>1, <2>2
      <3>3. cr'[b] = Prev(b, n)'
        BY <1>1, <2>1, <2>3, <3>2 DEF Told
      <3> QED
        BY <2>2, <3>1, <3>2, <3>3 DEF Told
    <2>5. ASSUME ~Owed(b)' PROVE ~Owed(b)
      <3>1. 1 \in 1..n /\ Prev(b, 1) = cached[b]
        BY <1>1, <2>1 DEF Prev
      <3>2. Alike(cached[b], watch[b][1]) /\ b \notin queue
        BY <1>1, <2>1, <2>5, <3>1 DEF Told, Heard, Owed
      <3>3. ASSUME NEW i \in 1..n PROVE Alike(watch[b][i], cached[b])
        <4>1. CASE i = 1
          BY <3>2, <4>1 DEF Alike
        <4>2. CASE i # 1
          <5>1. i - 1 \in 1..(n - 1) /\ (i - 1) + 1 = i
            BY <1>1, <4>2
          <5>2. Alike(watch'[b][i - 1], cached'[b]) /\ watch'[b][i - 1] = watch[b][i]
            BY <2>2, <2>5, <5>1 DEF Owed, Pending
          <5> QED
            BY <2>1, <3>2, <5>2 DEF Alike
        <4> QED
          BY <4>1, <4>2
      <3> QED
        BY <1>1, <3>2, <3>3 DEF Owed, Pending
    <2> QED
      BY <2>1, <2>4, <2>5 DEF Preserved, Alike
  <1> QED
    BY <1>2, <1>3

(* A step that writes and delivers nothing, and takes b off no queue.       *)
LEMMA SilentKept ==
    ASSUME NEW b \in Buckets, Told(b), UNCHANGED <<cr, watch, cached>>,
           b \in queue => b \in queue'
    PROVE  Told(b)' /\ Preserved(b)
  <1>1. Told(b)'
    BY DEF Told, Prev
  <1>2. Preserved(b)
    BY DEF Preserved, Owed, Pending, Alike
  <1> QED
    BY <1>1, <1>2

-----------------------------------------------------------------------------
(* Every write is heard.                                                   *)

(* A change of finalizers, also one that removes the object.               *)
LEMMA FinalizersHeard ==
    ASSUME NEW o \in Resource, NEW f \in SUBSET {Ours, Other}
    PROVE  LET w == Settled([o EXCEPT !.finalizers = f]) IN
           /\ Heard(o, w) /\ Heard(o, [o EXCEPT !.finalizers = f])
           /\ (w.phase = "absent" /\ o.phase = "deleting") \/ w.finalizers = f
  <1> DEFINE p == [o EXCEPT !.finalizers = f]
  <1>1. p.finalizers = f /\ p.phase = o.phase /\ p.uid = o.uid /\ p.gen = o.gen /\ p.force = o.force
    BY DEF Resource
  <1> HIDE DEF p
  <1>2. Heard(o, p)
    BY <1>1 DEF Heard, Alike, bucketEventPredicate
  <1>3. CASE p.phase = "deleting" /\ p.finalizers = {}
    <2>1. Settled(p).phase = "absent"
      BY <1>3 DEF Settled, Gone
    <2> QED
      BY <1>1, <1>2, <1>3, <2>1 DEF Heard, bucketEventPredicate, p
  <1>4. CASE ~(p.phase = "deleting" /\ p.finalizers = {})
    <2>1. Settled(p) = p
      BY <1>4 DEF Settled
    <2> QED
      BY <1>1, <1>2, <2>1 DEF p
  <1> QED
    BY <1>3, <1>4

(* A new status makes no difference.                                       *)
LEMMA StatusHeard ==
    ASSUME NEW o \in Resource, NEW s
    PROVE  Alike(o, [o EXCEPT !.status = s])
  BY DEF Resource, Alike

(* The writes of users and of other controllers.                           *)
LEMMA UsersKept ==
    ASSUME AllTypes, NEW b \in Buckets, Told(b), NEW x \in Buckets,
           UserCreate(x) \/ UserEdit(x) \/ UserDelete(x) \/ OtherFinalizer(x)
    PROVE  Told(b)' /\ Preserved(b)
  <1>1. cr[x] \in Resource /\ cr[x].gen \in Nat /\ cr[x].finalizers \subseteq {Ours, Other}
    BY ResourceFacts DEF AllTypes, ApiTypes
  <1>2. ASSUME NEW o, UserWrite(x, o), Heard(cr[x], o) PROVE Told(b)' /\ Preserved(b)
    BY <1>2, WriteKept DEF UserWrite
  <1>3. CASE UserCreate(x)
    <2>1. PICK force \in BOOLEAN :
             UserWrite(x, [phase |-> "active", uid |-> cr[x].uid + 1, gen |-> 1,
                           finalizers |-> {}, force |-> force, status |-> NoStatus])
      BY <1>3 DEF UserCreate
    <2> DEFINE o == [phase |-> "active", uid |-> cr[x].uid + 1, gen |-> 1,
                     finalizers |-> {}, force |-> force, status |-> NoStatus]
    <2>2. Heard(cr[x], o)
      BY <1>3 DEF UserCreate, Heard, bucketEventPredicate
    <2> QED
      BY <1>2, <2>1, <2>2
  <1>4. CASE UserEdit(x)
    <2>1. PICK force \in BOOLEAN : UserWrite(x, [cr[x] EXCEPT !.gen = @ + 1, !.force = force])
      BY <1>4 DEF UserEdit
    <2> DEFINE o == [cr[x] EXCEPT !.gen = @ + 1, !.force = force]
    <2>2. o.gen = cr[x].gen + 1
      BY <1>1 DEF Resource
    <2> HIDE DEF o
    <2>3. Heard(cr[x], o)
      BY <1>1, <2>2 DEF Heard, bucketEventPredicate
    <2> QED
      BY <1>2, <2>1, <2>3 DEF o
  <1>5. CASE UserDelete(x)
    <2> DEFINE o == [cr[x] EXCEPT !.phase = "deleting", !.gen = @ + 1]
    <2>1. o.phase = "deleting"
      BY <1>1 DEF Resource
    <2>2. UserWrite(x, Settled(o)) /\ cr[x].phase = "active"
      BY <1>5 DEF UserDelete
    <2> HIDE DEF o
    <2>3. Settled(o).phase \in {"absent", "deleting"}
      BY <2>1 DEF Settled, Gone
    <2>4. Heard(cr[x], Settled(o))
      BY <2>2, <2>3 DEF Heard, bucketEventPredicate
    <2> QED
      BY <1>2, <2>2, <2>4
  <1>6. CASE OtherFinalizer(x)
    <2> DEFINE f == cr[x].finalizers \cup {Other}
               g == cr[x].finalizers \ {Other}
    <2>1. f \in SUBSET {Ours, Other} /\ g \in SUBSET {Ours, Other}
      BY <1>1
    <2>2. \/ UserWrite(x, [cr[x] EXCEPT !.finalizers = f])
          \/ UserWrite(x, Settled([cr[x] EXCEPT !.finalizers = g]))
      BY <1>6 DEF OtherFinalizer
    <2> HIDE DEF f, g
    <2>3. /\ Heard(cr[x], [cr[x] EXCEPT !.finalizers = f])
          /\ Heard(cr[x], Settled([cr[x] EXCEPT !.finalizers = g]))
      BY <1>1, <2>1, FinalizersHeard
    <2> QED
      BY <1>2, <2>2, <2>3
  <1> QED
    BY <1>3, <1>4, <1>5, <1>6

(* The patches of the worker.                                              *)
LEMMA ReconcileKept ==
    ASSUME AllTypes, NEW b \in Buckets, Told(b), Reconcile
    PROVE  Told(b)' /\ Preserved(b)
  <1>1. pc # "idle" /\ cached' = cached /\ (b \in queue => b \in queue')
    <2>1. CASE addFinalizer \/ removeFinalizer \/ dropFinalizer \/ patchStatus
      BY <2>1 DEF addFinalizer, removeFinalizer, patchFinalizer, dropFinalizer, patchStatus,
                  Return
    <2>2. CASE resolveBucketClient \/ observe \/ observeAgain \/ create \/ update
               \/ delete \/ deleteAllBucketObjects \/ deleteAgain
      BY <2>2 DEF resolveBucketClient, observe, observeAgain, create, update, delete,
                  deleteAllBucketObjects, deleteAgain, Goto, Fail
    <2> QED
      BY <2>1, <2>2 DEF Reconcile
  <1>2. cur \in Buckets /\ cr[cur] \in Resource /\ copy \in Resource
    BY <1>1, CurFacts DEF AllTypes, WorkTypes
  <1>3. ASSUME NEW o, Write(cur, o), Heard(cr[cur], o) PROVE Told(b)' /\ Preserved(b)
    BY <1>1, <1>2, <1>3, WriteKept
  <1>4. ASSUME UNCHANGED api PROVE Told(b)' /\ Preserved(b)
    BY <1>1, <1>4, SilentKept DEF api
  <1>5. ASSUME NEW f \in SUBSET {Ours, Other} PROVE Heard(cr[cur], Settled(Patched(f)))
    BY <1>2, FinalizersHeard DEF Patched
  <1>6. /\ copy.finalizers \cup {Ours} \in SUBSET {Ours, Other}
        /\ copy.finalizers \ {Ours} \in SUBSET {Ours, Other}
    BY <1>2, ResourceFacts
  <1>7. CASE addFinalizer \/ removeFinalizer \/ dropFinalizer
    <2>1. PICK f \in SUBSET {Ours, Other} : Write(cur, Settled(Patched(f))) \/ UNCHANGED api
      BY <1>6, <1>7 DEF addFinalizer, removeFinalizer, patchFinalizer, dropFinalizer
    <2> QED
      BY <1>3, <1>4, <1>5, <2>1
  <1>8. CASE patchStatus
    <2>1. PICK s : Write(cur, [cr[cur] EXCEPT !.status = s]) \/ UNCHANGED api
      BY <1>8 DEF patchStatus
    <2>2. Heard(cr[cur], [cr[cur] EXCEPT !.status = s])
      BY <1>2, StatusHeard DEF Heard
    <2> QED
      BY <1>3, <1>4, <2>1, <2>2
  <1>9. CASE resolveBucketClient \/ observe \/ observeAgain \/ create \/ update
             \/ delete \/ deleteAllBucketObjects \/ deleteAgain
    BY <1>4, <1>9 DEF resolveBucketClient, observe, observeAgain, create, update, delete,
                      deleteAllBucketObjects, deleteAgain
  <1> QED
    BY <1>7, <1>8, <1>9 DEF Reconcile

-----------------------------------------------------------------------------
(* What Reconcile knows of the Bucket in hand at each call.                *)

CopyShape ==
    /\ pc # "idle" => copy.phase # "absent"
    /\ pc \in {"resolve", "observe"} => Tracked(copy)
    /\ pc \in {"create", "dropFinalizer"} => copy.phase = "active" /\ HasFinalizer(copy)
    /\ pc \in {"update", "reobserve"} => copy.phase = "active"
    /\ pc = "finalize" => copy.phase = "active" /\ ~HasFinalizer(copy)
    /\ pc \in {"delete", "purge", "deleteAgain", "unfinalize"} =>
          copy.phase = "deleting" /\ HasFinalizer(copy)
ErrShape ==
    /\ pc \notin {"status", "dropFinalizer"} => err = "nil"
    /\ pc = "dropFinalizer" => err = "AlreadyExists"
Shape == CopyShape /\ ErrShape

(* Each call hands on what the next one needs.                             *)
LEMMA ShapeStep ==
    ASSUME AllTypes, Shape, Next
    PROVE  Shape'
  <1> USE DEF Shape
  <1>0. copy \in Resource /\ copy.phase \in {"absent", "active", "deleting"}
    BY DEF AllTypes, WorkTypes, Resource
  <1>1. CASE UNCHANGED worker
    BY <1>1 DEF worker, CopyShape, ErrShape
  <1>2. ASSUME pc' = "idle", err' = "nil" PROVE Shape'
    BY <1>2 DEF CopyShape, ErrShape
  <1>3. ASSUME NEW e, Fail(e), pc # "idle" PROVE Shape'
    BY <1>3 DEF Fail, CopyShape, ErrShape
  <1>4. ASSUME NEW b \in Buckets, Begin(b) PROVE Shape'
    BY <1>1, <1>4 DEF Begin, CopyShape, ErrShape, Tracked
  <1>5. CASE Reconcile
    <2>1. CASE resolveBucketClient
      BY <1>3, <2>1 DEF resolveBucketClient, Goto, CopyShape, ErrShape
    <2>2. CASE observe
      <3>1. CASE pc' = NextCall(copy, Exists(name)) /\ UNCHANGED copy
        <4>1. Tracked(copy) /\ copy.phase # "absent"
          BY <2>2 DEF observe, CopyShape, Tracked
        <4>2. pc' # "status" => err' = "nil"
          BY <2>2, <3>1 DEF observe, Fail
        <4> QED
          BY <1>0, <3>1, <4>1, <4>2 DEF NextCall, Tracked, CopyShape, ErrShape
      <3>2. CASE ~(pc' = NextCall(copy, Exists(name)) /\ UNCHANGED copy)
        BY <1>3, <2>2, <3>2 DEF observe
      <3> QED
        BY <3>1, <3>2
    <2>3. CASE observeAgain
      BY <1>3, <2>3 DEF observeAgain, Goto, CopyShape, ErrShape
    <2>4. CASE create
      BY <1>3, <2>4 DEF create, Goto, CopyShape, ErrShape
    <2>5. CASE update
      BY <1>3, <2>5 DEF update, Goto, CopyShape, ErrShape
    <2>6. CASE delete
      BY <1>3, <2>6 DEF delete, Goto, AfterNotEmpty, CopyShape, ErrShape
    <2>7. CASE deleteAllBucketObjects
      BY <1>3, <2>7 DEF deleteAllBucketObjects, Goto, CopyShape, ErrShape
    <2>8. CASE deleteAgain
      BY <1>3, <2>8 DEF deleteAgain, Goto, CopyShape, ErrShape
    <2>9. CASE addFinalizer \/ removeFinalizer \/ patchStatus
      BY <1>2, <2>9 DEF addFinalizer, removeFinalizer, patchFinalizer, patchStatus, Return, Idle
    <2>10. CASE dropFinalizer
      <3>1. cr[cur] \in Resource
        BY <2>10, CurFacts DEF dropFinalizer
      <3>2. \A f : Patched(f).phase = cr[cur].phase
        BY <3>1 DEF Patched, Resource
      <3>3. copy'.phase # "absent"
        BY <2>10, <3>2 DEF dropFinalizer, Refused, CopyShape
      <3> QED
        BY <2>10, <3>3 DEF dropFinalizer, CopyShape, ErrShape
    <2> QED
      BY <1>5, <2>1, <2>2, <2>3, <2>4, <2>5, <2>6, <2>7, <2>8, <2>9, <2>10 DEF Reconcile
  <1>6. CASE Restart
    BY <1>2, <1>6 DEF Restart, Idle
  <1>7. CASE Users \/ Outsiders \/ \E b \in Buckets : Deliver(b)
    BY <1>1, <1>7
       DEF Users, Outsiders, Deliver, UserCreate, UserEdit, UserDelete, OtherFinalizer,
           UserWrite, ProviderEvent, OutsiderWrites, OutsiderDrifts
  <1> QED
    BY <1>4, <1>5, <1>6, <1>7 DEF Next

-----------------------------------------------------------------------------
(* What Reconcile has established for the Bucket in hand.                   *)

(* Its OBS bucket is as the copy asks for.                                 *)
AsAsked(b) == NoDrift => Exists(ObsName[b]) /\ remote[ObsName[b]].cfg = copy.gen

(* The error that patchStatus is to report is retried, or nothing is left   *)
(* to do until somebody else moves.                                        *)
Excused(b) ==
    \/ Retried(err)
    \/ err = "Provider" /\ ~provider
    \/ err = "nil" /\ copy.phase = "active" /\ AsAsked(b)
    \/ /\ err = "AlreadyExists" /\ copy.phase = "active" /\ ~HasFinalizer(copy)
       /\ NoDrift => Exists(ObsName[b])
    \/ err = "NotEmptyHeld" /\ copy.phase = "deleting" /\ ~copy.force

(* While no further reconcile is owed, the copy in hand is as good as the   *)
(* Bucket itself, and what was established from it holds.                  *)
Fresh(b) ==
    cur = b /\ ~Owed(b) =>
        /\ Alike(copy, cr[b])
        /\ pc = "reobserve" => AsAsked(b)
        /\ pc = "status" => Excused(b)

(* A Bucket that is neither in hand nor owed a reconcile needs none.        *)
Rests(b) == cur # b /\ ~Owed(b) => Provided(b) /\ Released(b)

(* Nothing that Reconcile established has been undone.                     *)
ObsKept(b) ==
    NoDrift' => /\ NoDrift
                /\ remote'[ObsName[b]].origin = remote[ObsName[b]].origin
                /\ remote'[ObsName[b]].cfg = remote[ObsName[b]].cfg

(* Two versions that are alike are held alike.                             *)
LEMMA SameFinalizer ==
    \A v, w : Alike(v, w) => (HasFinalizer(v) <=> HasFinalizer(w))
  BY DEF Alike, HasFinalizer

(* A Bucket that rests goes on to rest while nothing about it changes.      *)
LEMMA RestsOn ==
    ASSUME NEW b \in Buckets, Preserved(b), ObsKept(b), provider' = provider, Rests(b),
           cur # b, ~Owed(b)'
    PROVE  (Provided(b) /\ Released(b))'
  <1>1. /\ ~Owed(b) /\ Provided(b) /\ Released(b) /\ Alike(cr[b], cr'[b])
        /\ HasFinalizer(cr[b]) <=> HasFinalizer(cr'[b])
    BY SameFinalizer DEF Preserved, Rests
  <1>2. Provided(b)'
    BY <1>1 DEF Provided, Wanted, Exists, ObsKept, Alike
  <1>3. Released(b)'
    BY <1>1 DEF Released, Alike
  <1> QED
    BY <1>2, <1>3

(* A step that leaves the worker, the provider and the OBS bucket of a       *)
(* Bucket alone leaves what is known of it alone.                          *)
LEMMA Continues ==
    ASSUME NEW b \in Buckets, Preserved(b), ObsKept(b), provider' = provider, Rests(b), Fresh(b),
           cur' = b <=> cur = b,
           cur = b => pc' = pc /\ copy' = copy /\ err' = err
    PROVE  Fresh(b)' /\ Rests(b)'
  <1>1. Rests(b)'
    BY RestsOn DEF Rests
  <1>2. ASSUME cur = b, ~Owed(b)'
        PROVE  (/\ Alike(copy, cr[b])
                /\ pc = "reobserve" => AsAsked(b)
                /\ pc = "status" => Excused(b))'
    <2>1. ~Owed(b) /\ Alike(cr[b], cr'[b]) /\ Alike(copy, cr[b])
      BY <1>2 DEF Preserved, Fresh
    <2>2. pc' = pc /\ copy' = copy /\ err' = err
      BY <1>2
    <2>3. Alike(copy', cr'[b])
      BY <2>1, <2>2 DEF Alike
    <2>4. AsAsked(b) => AsAsked(b)'
      BY <2>2 DEF AsAsked, Exists, ObsKept
    <2>5. Excused(b) => Excused(b)'
      BY <2>2, <2>4 DEF Excused, Exists, ObsKept
    <2> QED
      BY <1>2, <2>1, <2>2, <2>3, <2>4, <2>5 DEF Fresh
  <1> QED
    BY <1>1, <1>2 DEF Fresh

-----------------------------------------------------------------------------
(* The steps, one by one.                                                  *)

(* Every Bucket has an OBS name of its own; OBS refuses nothing for good.    *)
Separate ==
    /\ \A b1, b2 \in Buckets : ObsName[b1] = ObsName[b2] => b1 = b2
    /\ ~Rejections

RestsOrOwed(b) == Told(b) /\ Fresh(b) /\ Rests(b)

(* Others at OBS leave what matters alone, unless they drift a bucket.      *)
LEMMA OutsidersObsKept ==
    ASSUME AllTypes, DriftLeft, Next, Outsiders, NEW b \in Buckets
    PROVE  ObsKept(b)
  <1> SUFFICES ASSUME NoDrift' PROVE ObsKept(b)
    BY DEF ObsKept
  <1>1. NoDrift /\ \A n \in Names : ~OutsiderDrifts(n)
    BY DriftStep
  <1>2. PICK n \in Names : OutsiderWrites(n)
    BY <1>1 DEF Outsiders
  <1>3. ObsName[b] \in Names /\ remote[n] \in ObsBucket
    BY ConstantAssumptions DEF AllTypes, ObsTypes
  <1>4. remote' = [remote EXCEPT ![n] = [remote[n] EXCEPT !.objects = remote[n].objects + 1]]
    BY <1>2 DEF OutsiderWrites
  <1> DEFINE r == [remote[n] EXCEPT !.objects = remote[n].objects + 1]
  <1>5. r.origin = remote[n].origin /\ r.cfg = remote[n].cfg
    BY <1>3 DEF ObsBucket
  <1> HIDE DEF r
  <1>6. remote'[ObsName[b]] = IF ObsName[b] = n THEN r ELSE remote[ObsName[b]]
    BY <1>3, <1>4 DEF AllTypes, ObsTypes, r
  <1> QED
    BY <1>1, <1>5, <1>6 DEF ObsKept

(* Users, other clients of OBS, delivery, and the start of Reconcile for     *)
(* another Bucket.                                                         *)
LEMMA OthersRest ==
    ASSUME AllTypes, DriftLeft, Next, Shape, NEW b \in Buckets, RestsOrOwed(b),
           \/ Users \/ Outsiders
           \/ \E x \in Buckets : Deliver(x) \/ (Begin(x) /\ x # b)
    PROVE  RestsOrOwed(b)'
  <1>1. ASSUME Told(b)', Preserved(b), provider' = provider, remote' = remote, UNCHANGED worker
        PROVE  RestsOrOwed(b)'
    <2>1. ObsKept(b)
      BY <1>1, DriftStep DEF ObsKept
    <2> QED
      BY <1>1, <2>1, Continues DEF RestsOrOwed, worker
  <1>2. ASSUME NEW x \in Buckets,
               UserCreate(x) \/ UserEdit(x) \/ UserDelete(x) \/ OtherFinalizer(x)
        PROVE  RestsOrOwed(b)'
    <2>1. Told(b)' /\ Preserved(b)
      BY <1>2, UsersKept DEF RestsOrOwed
    <2> QED
      BY <1>1, <1>2, <2>1 DEF UserCreate, UserEdit, UserDelete, OtherFinalizer, UserWrite
  <1>3. CASE ProviderEvent
    <2>1. /\ UNCHANGED <<cr, watch, cached>> /\ (b \in queue => b \in queue')
          /\ cached[b].phase # "absent" => b \in queue'
          /\ UNCHANGED worker
      BY <1>3 DEF ProviderEvent, bucketsForProviderConfig, api
    <2>2. Told(b)' /\ Preserved(b)
      BY <2>1, SilentKept DEF RestsOrOwed
    <2>3. ASSUME ~Owed(b)' PROVE cr'[b].phase = "absent" /\ cur' # b
      <3>1. ~Owed(b) /\ cached[b].phase = "absent"
        BY <2>1, <2>2, <2>3 DEF Preserved, Owed
      <3>2. cr[b].phase = "absent"
        BY <3>1, UpToDate DEF RestsOrOwed, Owed, Alike
      <3>3. cur = b => pc # "idle" /\ copy.phase = "absent"
        BY <3>1, <3>2, ConstantAssumptions
           DEF RestsOrOwed, Fresh, Alike, AllTypes, WorkTypes
      <3> QED
        BY <2>1, <3>2, <3>3 DEF worker, Shape, CopyShape
    <2> QED
      BY <2>2, <2>3 DEF RestsOrOwed, Fresh, Rests, Provided, Wanted, Released
  <1>4. CASE Outsiders
    <2>1. UNCHANGED <<cr, watch, cached, queue, provider>> /\ UNCHANGED worker
      BY <1>4 DEF Outsiders, OutsiderWrites, OutsiderDrifts, api
    <2>2. Told(b)' /\ Preserved(b)
      BY <2>1, SilentKept DEF RestsOrOwed
    <2> QED
      BY <1>4, <2>1, <2>2, OutsidersObsKept, Continues DEF RestsOrOwed, worker
  <1>5. ASSUME NEW x \in Buckets, Deliver(x) PROVE RestsOrOwed(b)'
    <2>1. Told(b)' /\ Preserved(b)
      BY <1>5, DeliverKept DEF RestsOrOwed
    <2> QED
      BY <1>1, <1>5, <2>1 DEF Deliver
  <1>6. ASSUME NEW x \in Buckets, Begin(x), x # b PROVE RestsOrOwed(b)'
    <2>1. /\ UNCHANGED <<cr, watch, cached, provider, remote>> /\ (b \in queue => b \in queue')
          /\ cur = NoBucket /\ cur' # b
      BY <1>6, ConstantAssumptions DEF Begin, api, worker, AllTypes, WorkTypes
    <2>2. Told(b)' /\ Preserved(b)
      BY <2>1, SilentKept DEF RestsOrOwed
    <2>3. ObsKept(b)
      BY <2>1, DriftStep DEF ObsKept
    <2>4. cur # b
      BY <2>1, ConstantAssumptions
    <2> QED
      BY <2>1, <2>2, <2>3, <2>4, Continues DEF RestsOrOwed
  <1> QED
    BY <1>2, <1>3, <1>4, <1>5, <1>6 DEF Users

(* Reconcile starts with a Bucket: nothing that matters is on its way, or a  *)
(* further reconcile is owed.                                              *)
LEMMA BeginRests ==
    ASSUME AllTypes, DriftLeft, Shape, NEW b \in Buckets, RestsOrOwed(b), Begin(b)
    PROVE  RestsOrOwed(b)'
  <1>1. UNCHANGED <<cr, watch, cached, provider, remote, budget>>
    BY DEF Begin, api
  <1>2. Told(b)'
    BY <1>1 DEF RestsOrOwed, Told, Prev
  <1>3. ASSUME ~Owed(b)' PROVE Alike(cached[b], cr'[b])
    BY <1>1, <1>3, UpToDate DEF RestsOrOwed, Owed, Pending
  <1>4. CASE Tracked(cached[b])
    <2>1. cur' = b /\ copy' = cached[b] /\ pc' = "resolve"
      BY <1>4 DEF Begin
    <2> QED
      BY <1>2, <1>3, <2>1 DEF RestsOrOwed, Fresh, Rests
  <1>5. CASE ~Tracked(cached[b])
    <2>1. cur' = NoBucket
      BY <1>5 DEF Begin, worker, AllTypes, WorkTypes
    <2>2. ASSUME ~Owed(b)' PROVE (Provided(b) /\ Released(b))'
      <3>1. ~Tracked(cr'[b])
        BY <1>3, <1>5, <2>2, SameFinalizer DEF Tracked, Alike
      <3> QED
        BY <3>1 DEF Tracked, Provided, Wanted, Released
    <2> QED
      BY <1>2, <2>1, <2>2, ConstantAssumptions DEF RestsOrOwed, Fresh, Rests
  <1> QED
    BY <1>4, <1>5

(* A restart enqueues every Bucket that exists.                            *)
LEMMA RestartRests ==
    ASSUME AllTypes, NEW b \in Buckets, Restart
    PROVE  RestsOrOwed(b)'
  <1>1. /\ cached' = cr /\ cr' = cr /\ watch'[b] = <<>> /\ cur' = NoBucket
        /\ cr[b].phase # "absent" => b \in queue'
    BY DEF Restart, Idle
  <1>2. Told(b)'
    BY <1>1 DEF Told, Prev
  <1>3. ~Owed(b)' => (Provided(b) /\ Released(b))'
    BY <1>1 DEF Owed, Provided, Wanted, Released
  <1> QED
    BY <1>1, <1>2, <1>3, ConstantAssumptions DEF RestsOrOwed, Fresh, Rests

(* Reconcile of another Bucket.                                            *)
LEMMA ElsewhereRests ==
    ASSUME AllTypes, DriftLeft, Next, Separate, NEW b \in Buckets, RestsOrOwed(b), Reconcile,
           cur # b
    PROVE  RestsOrOwed(b)'
  <1>1. Told(b)' /\ Preserved(b)
    BY ReconcileKept DEF RestsOrOwed
  <1>2. provider' = provider /\ cur' # b
    <2>1. CASE pc # "dropFinalizer"
      BY <2>1, WorkerHolds DEF Held
    <2>2. CASE pc = "dropFinalizer"
      BY <2>2 DEF Reconcile, resolveBucketClient, observe, observeAgain, create, update, delete,
                  deleteAllBucketObjects, deleteAgain, addFinalizer, removeFinalizer,
                  patchFinalizer, dropFinalizer, patchStatus
    <2> QED
      BY <2>1, <2>2
  <1>3. ObsName[b] \in Names
    BY ConstantAssumptions
  <1>4. remote'[ObsName[b]] = remote[ObsName[b]]
    BY <1>3, RemoteStep DEF Separate
  <1>5. ObsKept(b)
    BY <1>4, DriftStep DEF ObsKept
  <1> QED
    BY <1>1, <1>2, <1>5, Continues DEF RestsOrOwed

(* A call that leads to another: nothing is written, the copy is kept.      *)
LEMMA CallRests ==
    ASSUME AllTypes, DriftLeft, Next, Shape, Separate, NEW b \in Buckets, RestsOrOwed(b), cur = b,
           \/ resolveBucketClient \/ observe \/ observeAgain \/ create \/ update
           \/ delete \/ deleteAllBucketObjects \/ deleteAgain
    PROVE  RestsOrOwed(b)'
  <1>1. Reconcile /\ pc \notin {"idle", "dropFinalizer"} /\ pc' # "idle" /\ cr' = cr
    BY NextCallFacts
       DEF Reconcile, resolveBucketClient, observe, observeAgain, create, update, delete,
           deleteAllBucketObjects, deleteAgain, api, Goto, Fail
  <1>2. Told(b)' /\ Preserved(b)
    BY <1>1, ReconcileKept DEF RestsOrOwed
  <1>3. /\ cur' = cur /\ copy' = copy /\ copy \in Resource /\ provider' = provider
        /\ copy.phase \in {"absent", "active", "deleting"} /\ copy.gen \in Nat
    BY <1>1, WorkerHolds, ResourceFacts DEF Resource
  <1>4. NoDrift' => NoDrift
    BY DriftStep
  <1>5. \A e : ObsFault(e) => e = "Transient"
    BY DEF ObsFault, Separate
  <1>6. ASSUME NEW e, Fail(e), Retried(e) PROVE pc' = "status" /\ Excused(b)'
    BY <1>6 DEF Fail, Excused
  <1>7. Retried("Transient") /\ Retried("NotFound") /\ Retried("NotEmpty")
    BY DEF Retried
  <1>8. ASSUME ~Owed(b)'
        PROVE  (pc' = "reobserve" => AsAsked(b)') /\ (pc' = "status" => Excused(b)')
    <2>1. pc = "reobserve" => AsAsked(b)
      BY <1>2, <1>8 DEF RestsOrOwed, Fresh, Preserved
    <2>2. CASE resolveBucketClient
      <3>1. ASSUME Fail("Provider"), ~provider PROVE Excused(b)'
        BY <1>3, <3>1 DEF Fail, Excused
      <3> QED
        BY <1>6, <1>7, <2>2, <3>1 DEF resolveBucketClient, Goto, Fail
    <2>3. CASE observe
      <3>1. CASE \E e : ObsFault(e) /\ Fail(e)
        BY <1>5, <1>6, <1>7, <3>1
      <3>2. CASE ~\E e : ObsFault(e) /\ Fail(e)
        <4>1. /\ pc' = NextCall(copy, Exists(name))
              /\ pc' = "status" => err' = "AlreadyExists"
              /\ remote' = remote
          BY <2>3, <3>2 DEF observe
        <4>2. Tracked(copy)
          BY <2>3 DEF observe, Shape, CopyShape
        <4>3. /\ pc' # "reobserve"
              /\ pc' = "status" => copy.phase = "active" /\ ~HasFinalizer(copy) /\ Exists(name)
          BY <1>3, <4>1, <4>2 DEF NextCall, Tracked
        <4>4. pc' = "status" => Exists(ObsName[b])'
          BY <4>1, <4>3 DEF Exists, name
        <4> QED
          BY <1>3, <4>1, <4>3, <4>4 DEF Excused
      <3> QED
        BY <3>1, <3>2
    <2>4. CASE observeAgain
      <3>1. CASE Goto("status") /\ pc = "reobserve" /\ remote' = remote
        <4>1. AsAsked(b)'
          BY <1>3, <1>4, <2>1, <3>1 DEF AsAsked, Exists
        <4>2. err' = "nil" /\ copy'.phase = "active" /\ pc' = "status"
          BY <1>3, <3>1 DEF Goto, Shape, CopyShape, ErrShape
        <4> QED
          BY <4>1, <4>2 DEF Excused
      <3> QED
        BY <1>5, <1>6, <1>7, <2>4, <3>1 DEF observeAgain
    <2>5. CASE create
      BY <1>5, <1>6, <1>7, <2>5 DEF create, Goto
    <2>6. CASE update
      <3>1. CASE Exists(name) /\ SetRemote(Settings(remote[name], copy.gen)) /\ Goto("reobserve")
        <4>1. name \in Names /\ remote[name] \in ObsBucket
          BY <1>1, CurFacts
        <4>2. remote'[name] = Settings(remote[name], copy.gen)
          BY <3>1, <4>1 DEF SetRemote, AllTypes, ObsTypes
        <4>3. remote'[name].origin = remote[name].origin /\ remote'[name].cfg = copy.gen
          BY <4>1, <4>2 DEF Settings, ObsBucket
        <4>4. AsAsked(b)'
          BY <1>3, <3>1, <4>3 DEF AsAsked, Exists, name
        <4> QED
          BY <3>1, <4>4 DEF Goto
      <3> QED
        BY <1>5, <1>6, <1>7, <2>6, <3>1 DEF update
    <2>7. CASE delete
      <3>1. CASE Goto("unfinalize")
        BY <3>1 DEF Goto
      <3>2. CASE /\ pc' = AfterNotEmpty(copy)
                 /\ err' = IF pc' = "status" THEN "NotEmptyHeld" ELSE "nil"
        <4>1. copy.phase = "deleting"
          BY <2>7 DEF delete, Shape, CopyShape
        <4> QED
          BY <1>3, <3>2, <4>1 DEF AfterNotEmpty, Excused
      <3> QED
        BY <1>5, <1>6, <1>7, <2>7, <3>1, <3>2 DEF delete
    <2>8. CASE deleteAllBucketObjects
      BY <1>5, <1>6, <1>7, <2>8 DEF deleteAllBucketObjects, Goto
    <2>9. CASE deleteAgain
      BY <1>5, <1>6, <1>7, <2>9 DEF deleteAgain, Goto
    <2> QED
      BY <2>2, <2>3, <2>4, <2>5, <2>6, <2>7, <2>8, <2>9
  <1>9. ~Owed(b)' => Alike(copy', cr'[b])
    BY <1>1, <1>2, <1>3 DEF RestsOrOwed, Fresh, Preserved
  <1> QED
    BY <1>2, <1>3, <1>8, <1>9 DEF RestsOrOwed, Fresh, Rests

(* A patch of the finalizer: it is heard, or the call is retried.           *)
LEMMA PatchOwed ==
    ASSUME AllTypes, Shape, NEW b \in Buckets, RestsOrOwed(b), cur = b, Reconcile,
           NEW f \in SUBSET {Ours, Other}, Write(cur, Settled(Patched(f))),
           copy.phase = "active" \/ Ours \notin f,
           Ours \in f <=> ~HasFinalizer(copy)
    PROVE  Owed(b)'
  <1> SUFFICES ASSUME ~Owed(b)' PROVE FALSE
    OBVIOUS
  <1>1. ~Owed(b) /\ Alike(cr[b], cr'[b]) /\ Alike(copy, cr[b])
    BY ReconcileKept DEF RestsOrOwed, Preserved, Fresh
  <1>2. cr[b] \in Resource
    BY DEF AllTypes, ApiTypes
  <1> DEFINE w == Settled([cr[b] EXCEPT !.finalizers = f])
  <1>3. (w.phase = "absent" /\ cr[b].phase = "deleting") \/ w.finalizers = f
    BY <1>2, FinalizersHeard
  <1>4. cr'[b] = w
    BY DEF Write, Patched, AllTypes, ApiTypes
  <1> QED
    BY <1>1, <1>3, <1>4 DEF Alike, HasFinalizer

(* The patches of Reconcile for the Bucket in hand.                        *)
LEMMA PatchRests ==
    ASSUME AllTypes, DriftLeft, Next, Shape, NEW b \in Buckets, RestsOrOwed(b), cur = b,
           addFinalizer \/ removeFinalizer \/ dropFinalizer \/ patchStatus
    PROVE  RestsOrOwed(b)'
  <1>1. Reconcile /\ pc # "idle" /\ provider' = provider /\ remote' = remote
    BY DEF Reconcile, addFinalizer, removeFinalizer, patchFinalizer, dropFinalizer, patchStatus
  <1>2. Told(b)' /\ Preserved(b)
    BY <1>1, ReconcileKept DEF RestsOrOwed
  <1>3. copy \in Resource /\ cr[b] \in Resource /\ copy.finalizers \subseteq {Ours, Other}
    BY ResourceFacts DEF AllTypes, WorkTypes, ApiTypes
  <1>4. /\ copy.finalizers \cup {Ours} \in SUBSET {Ours, Other}
        /\ copy.finalizers \ {Ours} \in SUBSET {Ours, Other}
    BY <1>3
  <1>5. ASSUME Return(TRUE) PROVE Owed(b)' /\ cur' # b
    BY <1>5, ConstantAssumptions DEF Return, Idle, Owed
  <1>6. ASSUME Owed(b)' PROVE RestsOrOwed(b)'
    BY <1>2, <1>6 DEF RestsOrOwed, Fresh, Rests
  <1>7. CASE addFinalizer
    <2>1. copy.phase = "active" /\ ~HasFinalizer(copy)
      BY <1>7 DEF addFinalizer, patchFinalizer, Shape, CopyShape
    <2>2. Write(cur, Settled(Patched(copy.finalizers \cup {Ours}))) \/ Return(TRUE)
      BY <1>7 DEF addFinalizer, patchFinalizer
    <2> QED
      BY <1>1, <1>4, <1>5, <1>6, <2>1, <2>2, PatchOwed
  <1>8. CASE removeFinalizer
    <2>1. HasFinalizer(copy)
      BY <1>8 DEF removeFinalizer, patchFinalizer, Shape, CopyShape
    <2>2. Write(cur, Settled(Patched(copy.finalizers \ {Ours}))) \/ Return(TRUE)
      BY <1>8 DEF removeFinalizer, patchFinalizer
    <2> QED
      BY <1>1, <1>4, <1>5, <1>6, <2>1, <2>2, PatchOwed
  <1>9. CASE dropFinalizer
    <2>1. HasFinalizer(copy)
      BY <1>9 DEF dropFinalizer, Shape, CopyShape
    <2>2. CASE Write(cur, Settled(Patched(copy.finalizers \ {Ours})))
      BY <1>1, <1>4, <1>6, <2>1, <2>2, PatchOwed
    <2>3. CASE ~Write(cur, Settled(Patched(copy.finalizers \ {Ours})))
      <3>1. /\ copy' = copy /\ cur' = cur /\ pc' = "status"
            /\ err' \in {"AlreadyExistsKept", "AlreadyExistsGone"}
        BY <1>9, <2>3 DEF dropFinalizer
      <3>2. Excused(b)'
        BY <3>1 DEF Excused, Retried
      <3>3. ~Owed(b)' => Alike(copy', cr'[b])
        BY <1>2, <3>1 DEF RestsOrOwed, Fresh, Preserved, Alike
      <3> QED
        BY <1>2, <3>1, <3>2, <3>3 DEF RestsOrOwed, Fresh, Rests
    <2> QED
      BY <2>2, <2>3
  <1>10. CASE patchStatus
    <2>1. Return(TRUE) \/ Return(Retried(err))
      BY <1>10 DEF patchStatus
    <2>2. CASE Return(TRUE) \/ Owed(b)'
      BY <1>5, <1>6, <2>2
    <2>3. CASE Return(Retried(err)) /\ ~Owed(b)'
      <3>1. ~Retried(err) /\ cur' # b
        BY <2>3, ConstantAssumptions DEF Return, Idle, Owed
      <3>2. /\ Excused(b) /\ Alike(copy, cr[b]) /\ Alike(cr[b], cr'[b])
        BY <1>2, <1>10, <2>3 DEF RestsOrOwed, Fresh, Preserved, patchStatus
      <3>3. /\ Alike(copy, cr'[b]) /\ (HasFinalizer(copy) <=> HasFinalizer(cr'[b]))
        BY <3>2, SameFinalizer DEF Alike
      <3>4. NoDrift' => NoDrift
        BY DriftStep
      <3>5. (Provided(b) /\ Released(b))'
        BY <1>1, <3>1, <3>2, <3>3, <3>4
           DEF Excused, AsAsked, Provided, Wanted, Released, Exists, Alike
      <3> QED
        BY <1>2, <3>1, <3>5 DEF RestsOrOwed, Fresh, Rests
    <2> QED
      BY <2>1, <2>2, <2>3
  <1> QED
    BY <1>7, <1>8, <1>9, <1>10

-----------------------------------------------------------------------------
(* The inductive invariant behind NothingForgotten.                        *)
RestInv == TypeOK /\ DriftLeft /\ Shape /\ \A b \in Buckets : RestsOrOwed(b)

(* At the start there are no Buckets.                                      *)
LEMMA RestInit == Init => RestInv
  <1> SUFFICES ASSUME Init PROVE RestInv
    OBVIOUS
  <1>1. TypeOK
    BY TypeInit
  <1>2. DriftLeft /\ Shape
    BY ConstantAssumptions DEF Init, DriftLeft, Kinds, Shape, CopyShape, ErrShape
  <1>3. ASSUME NEW b \in Buckets PROVE RestsOrOwed(b)
    <2>1. /\ cr[b].phase = "absent" /\ cached[b] = cr[b] /\ watch[b] = <<>> /\ cur # b
      BY ConstantAssumptions DEF Init, Gone
    <2> QED
      BY <2>1 DEF RestsOrOwed, Told, Prev, Fresh, Rests, Provided, Wanted, Released
  <1> QED
    BY <1>1, <1>2, <1>3 DEF RestInv

(* Every step keeps it.                                                    *)
LEMMA RestStep == Separate /\ RestInv /\ [Next]_vars => RestInv'
  <1> SUFFICES ASSUME Separate, RestInv, [Next]_vars PROVE RestInv'
    OBVIOUS
  <1>1. AllTypes
    BY TypeParts DEF RestInv, AllTypes
  <1>2. TypeOK'
    BY TypeStep DEF RestInv
  <1>3. CASE UNCHANGED vars
    <2>1. DriftLeft' /\ Shape'
      BY <1>3 DEF vars, RestInv, DriftLeft, Shape, CopyShape, ErrShape
    <2>2. ASSUME NEW b \in Buckets PROVE RestsOrOwed(b)'
      <3>1. Told(b)' /\ Preserved(b)
        BY <1>3, SilentKept DEF vars, RestInv, RestsOrOwed
      <3>2. ObsKept(b)
        BY <1>3 DEF vars, ObsKept, NoDrift
      <3> QED
        BY <1>3, <3>1, <3>2, Continues DEF vars, RestInv, RestsOrOwed
    <2> QED
      BY <1>2, <2>1, <2>2 DEF RestInv
  <1>4. CASE Next
    <2>1. DriftLeft' /\ Shape'
      BY <1>1, <1>4, DriftStep, ShapeStep DEF RestInv
    <2>2. ASSUME NEW b \in Buckets PROVE RestsOrOwed(b)'
      <3>1. DriftLeft /\ Shape /\ RestsOrOwed(b)
        BY DEF RestInv
      <3>2. CASE Reconcile /\ cur # b
        BY <1>1, <1>4, <3>1, <3>2, ElsewhereRests
      <3>3. CASE Reconcile /\ cur = b
        BY <1>1, <1>4, <3>1, <3>3, CallRests, PatchRests DEF Reconcile
      <3>4. CASE Begin(b)
        BY <1>1, <3>1, <3>4, BeginRests
      <3>5. CASE Restart
        BY <1>1, <3>5, RestartRests
      <3>6. CASE \/ Users \/ Outsiders
                 \/ \E x \in Buckets : Deliver(x) \/ (Begin(x) /\ x # b)
        BY <1>1, <1>4, <3>1, <3>6, OthersRest
      <3> QED
        BY <1>4, <3>2, <3>3, <3>4, <3>5, <3>6 DEF Next
    <2> QED
      BY <1>2, <2>1, <2>2 DEF RestInv
  <1> QED
    BY <1>3, <1>4

(* The controller rests only when no reconcile is missing: whatever events   *)
(* the queue merged, the predicate dropped or a worker's own write          *)
(* overtook, however long the informer lagged, whatever calls failed and    *)
(* with any number of restarts.  (For Buckets with OBS names of their own,  *)
(* where OBS refuses no request for good.)                                 *)
THEOREM NoReconcileMissing ==
    ASSUME Separate
    PROVE  Spec => []NothingForgotten
  <1>1. RestInv => NothingForgotten
    <2> SUFFICES ASSUME RestInv, queue = {}, pc = "idle", \A b \in Buckets : watch[b] = <<>>,
                        NEW b \in Buckets
                 PROVE  Provided(b) /\ Released(b)
      BY DEF NothingForgotten
    <2>1. cur # b
      BY ConstantAssumptions DEF RestInv, TypeOK
    <2>2. ~Owed(b)
      BY DEF Owed, Pending
    <2> QED
      BY <2>1, <2>2 DEF RestInv, RestsOrOwed, Rests
  <1>2. RestInv /\ [Next]_vars => RestInv'
    BY RestStep
  <1> QED
    BY RestInit, <1>1, <1>2, PTL DEF Spec
=============================================================================
