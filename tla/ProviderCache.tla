---------------------------- MODULE ProviderCache ----------------------------
(***************************************************************************)
(* The cache of OBS clients (internal/provider/cache.go) as the two        *)
(* reconcilers use it concurrently: ResolveProviderConfig and              *)
(* ResolveProviderConfigObject (provider_resolver.go), and the calls of    *)
(* ProviderConfigReconciler.Reconcile that touch the cache.  Each worker   *)
(* goes through its calls one at a time; a section that holds the mutex is *)
(* one step, and closing a client happens after the mutex is released.     *)
(*                                                                         *)
(* Abstractions.  A cacheKey is a pair: what the ProviderConfig adds to it *)
(* (UID, region, endpoint) and what its Secret adds (name, UID, credential *)
(* hash); each part is a version.  A client is known by its identity and,  *)
(* for the properties, by the key it was built for.                        *)
(***************************************************************************)
EXTENDS Naturals, FiniteSets

CONSTANTS
    Configs,      \* ProviderConfigs (namespace and name)
    Versions,     \* what a ProviderConfig or a Secret may say
    Absent,       \* a ProviderConfig or Secret that does not exist
    Clients,      \* bound: the OBS clients that may be built
    None,         \* no client
    Reconcilers,  \* worker goroutines that resolve clients
    Validators    \* those of the ProviderConfig controller

ASSUME ConstantAssumptions ==
    /\ Absent \notin Versions
    /\ None \notin Clients
    /\ Validators \subseteq Reconcilers

VARIABLES
    config,   \* ProviderConfigs as the informer holds them
    secret,   \* the Secret each ProviderConfig refers to, in the API server
    queue,    \* the ProviderConfig controller's work queue
    clients,  \* the cache: an entry for each ProviderConfig
    made,     \* history: the key each client was built for
    closed,   \* clients that Close was called on
    at,       \* the call each worker makes next
    prov,     \* the ProviderConfig each worker resolves
    key,      \* the cacheKey each worker computed
    client,   \* the client each worker holds
    closing   \* the client each worker is about to close (clientsToClose)

inputs == <<config, secret>>
vars == <<config, secret, queue, clients, made, closed, at, prov, key, client, closing>>

Keys == [config : Versions, secret : Versions]
PartialKeys == [config : Versions \cup {Absent}, secret : Versions \cup {Absent}]
Entries == [key : Keys, client : Clients]
NoKey == [config |-> Absent, secret |-> Absent]
NoEntry == [key |-> NoKey, client |-> None]
Places == {"idle", "secret", "get", "build", "set", "close", "use",
           "invalidate", "closeLast"}

-----------------------------------------------------------------------------
(* Steps of a worker.                                                      *)

Goto(w, label) == at' = [at EXCEPT ![w] = label]

(* Reconcile returns.                                                      *)
Done(w) ==
    /\ Goto(w, "idle")
    /\ key' = [key EXCEPT ![w] = NoKey]
    /\ client' = [client EXCEPT ![w] = None]

(* updateProviderConfigStatus, at the end of the ProviderConfig controller's *)
(* Reconcile: a status that changed, or a patch that failed, brings the     *)
(* ProviderConfig back to the queue.                                       *)
updateProviderConfigStatus(w) ==
    \/ queue' = queue
    \/ w \in Validators /\ config[prov[w]] # Absent /\ queue' = queue \cup {prov[w]}

(* An error: the ProviderConfig controller invalidates, a Bucket's          *)
(* reconciler just reports it.                                             *)
Failed(w) == IF w \in Validators THEN Goto(w, "invalidate") /\ UNCHANGED <<key, client>>
                                 ELSE Done(w)

(* Reconcile reads the ProviderConfig: any Bucket event brings a Bucket     *)
(* worker here, a queued request one of the ProviderConfig controller.     *)
ReadProviderConfig(w, p) ==
    /\ at[w] = "idle"
    /\ \/ w \notin Validators /\ config[p] # Absent /\ queue' = queue
       \/ w \in Validators /\ p \in queue /\ queue' = queue \ {p}
    /\ prov' = [prov EXCEPT ![w] = p]
    /\ \/ config[p] # Absent /\ Goto(w, "secret") /\ key' = [key EXCEPT ![w].config = config[p]]
       \/ config[p] = Absent /\ Goto(w, "invalidate") /\ key' = key
    /\ UNCHANGED <<inputs, clients, made, closed, client, closing>>

(* The Secret is read and the key computed; a Secret that is missing or     *)
(* incomplete, a bad endpoint or a failed read ends the resolution.        *)
ReadSecret(w) ==
    /\ at[w] = "secret"
    /\ \/ /\ secret[prov[w]] # Absent
          /\ key' = [key EXCEPT ![w].secret = secret[prov[w]]]
          /\ Goto(w, "get") /\ UNCHANGED client
       \/ Failed(w)
    /\ UNCHANGED <<inputs, queue, clients, made, closed, prov, closing>>

(* Mutant of Hit: an entry of this ProviderConfig will do.                  *)
HitByName(p, k) == clients[p] # NoEntry

(* There is an entry for this ProviderConfig and its key is the same.       *)
Hit(p, k) == clients[p].key = k

get(w) ==
    /\ at[w] = "get"
    /\ \/ /\ Hit(prov[w], key[w])
          /\ client' = [client EXCEPT ![w] = clients[prov[w]].client]
          /\ Goto(w, "use")
       \/ ~Hit(prov[w], key[w]) /\ Goto(w, "build") /\ UNCHANGED client
    /\ UNCHANGED <<inputs, queue, clients, made, closed, prov, key, closing>>

(* Mutant of newOBSClient: the error of the factory is not looked at.       *)
newOBSClientUnchecked(w) ==
    /\ at[w] = "build" /\ Goto(w, "set")
    /\ \/ \E c \in Clients :
             /\ made[c] = NoKey
             /\ made' = [made EXCEPT ![c] = key[w]]
             /\ client' = [client EXCEPT ![w] = c]
       \/ UNCHANGED <<made, client>>
    /\ UNCHANGED <<inputs, queue, clients, closed, prov, key, closing>>

newOBSClient(w) ==
    /\ at[w] = "build"
    /\ \/ \E c \in Clients :
             /\ made[c] = NoKey
             /\ made' = [made EXCEPT ![c] = key[w]]
             /\ client' = [client EXCEPT ![w] = c]
             /\ Goto(w, "set") /\ UNCHANGED key
       \/ Failed(w) /\ UNCHANGED made
    /\ UNCHANGED <<inputs, queue, clients, closed, prov, closing>>

(* Mutant of set: the client of a replaced entry is forgotten.              *)
setForgets(w) ==
    LET p == prov[w] IN
    /\ at[w] = "set" /\ Goto(w, "close")
    /\ IF clients[p].key = key[w]
       THEN /\ closing' = [closing EXCEPT ![w] = client[w]]
            /\ client' = [client EXCEPT ![w] = clients[p].client]
            /\ UNCHANGED clients
       ELSE /\ clients' = [clients EXCEPT ![p] = [key |-> key[w], client |-> client[w]]]
            /\ UNCHANGED <<closing, client>>
    /\ UNCHANGED <<inputs, queue, made, closed, prov, key>>

(* Under the mutex: when somebody stored a client for the same key first,   *)
(* that one is returned and the new one is closed; otherwise the new one    *)
(* replaces the entry, whose client is closed.                             *)
set(w) ==
    LET p == prov[w] IN
    /\ at[w] = "set" /\ Goto(w, "close")
    /\ \/ /\ clients[p].key = key[w]
          /\ closing' = [closing EXCEPT ![w] = client[w]]
          /\ client' = [client EXCEPT ![w] = clients[p].client]
          /\ UNCHANGED clients
       \/ /\ clients[p].key # key[w]
          /\ closing' = [closing EXCEPT ![w] = clients[p].client]
          /\ clients' = [clients EXCEPT ![p] = [key |-> key[w], client |-> client[w]]]
          /\ UNCHANGED client
    /\ UNCHANGED <<inputs, queue, made, closed, prov, key>>

closeClients(w) ==
    /\ closed' = closed \cup ({closing[w]} \ {None})
    /\ closing' = [closing EXCEPT ![w] = None]
    /\ \/ at[w] = "close" /\ Goto(w, "use") /\ UNCHANGED <<queue, key, client>>
       \/ at[w] = "closeLast" /\ Done(w) /\ updateProviderConfigStatus(w)
    /\ UNCHANGED <<inputs, clients, made, prov>>

(* The client is used: by the Bucket reconciler for OBS calls, by the other *)
(* one to list buckets (validateProviderClient), which may fail.           *)
use(w) ==
    /\ at[w] = "use"
    /\ \/ Done(w) /\ updateProviderConfigStatus(w)
       \/ w \in Validators /\ Failed(w) /\ queue' = queue
    /\ UNCHANGED <<inputs, clients, made, closed, prov, closing>>

(* Mutant of InvalidateProvider: the entry is not deleted from the map.     *)
InvalidateKeepsEntry(w) ==
    /\ at[w] = "invalidate" /\ Goto(w, "closeLast")
    /\ closing' = [closing EXCEPT ![w] = clients[prov[w]].client]
    /\ UNCHANGED <<inputs, queue, clients, made, closed, prov, key, client>>

InvalidateProvider(w) ==
    /\ at[w] = "invalidate" /\ Goto(w, "closeLast")
    /\ closing' = [closing EXCEPT ![w] = clients[prov[w]].client]
    /\ clients' = [clients EXCEPT ![prov[w]] = NoEntry]
    /\ UNCHANGED <<inputs, queue, made, closed, prov, key, client>>

-----------------------------------------------------------------------------
(* A user creates, changes or deletes a ProviderConfig or its Secret: the   *)
(* ProviderConfig is enqueued (providerConfigsForSecret, for a Secret).     *)

ChangeProviderConfig(p) ==
    /\ \E v \in Versions \cup {Absent} : v # config[p] /\ config' = [config EXCEPT ![p] = v]
    /\ queue' = queue \cup {p}
    /\ UNCHANGED <<secret, clients, made, closed, at, prov, key, client, closing>>

ChangeSecret(p) ==
    /\ \E v \in Versions \cup {Absent} : v # secret[p] /\ secret' = [secret EXCEPT ![p] = v]
    /\ queue' = IF config[p] = Absent THEN queue ELSE queue \cup {p}
    /\ UNCHANGED <<config, clients, made, closed, at, prov, key, client, closing>>

-----------------------------------------------------------------------------
Init ==
    /\ config = [p \in Configs |-> Absent] /\ secret = [p \in Configs |-> Absent]
    /\ queue = {}
    /\ clients = [p \in Configs |-> NoEntry]
    /\ made = [c \in Clients |-> NoKey] /\ closed = {}
    /\ at = [w \in Reconcilers |-> "idle"]
    /\ prov \in [Reconcilers -> Configs]
    /\ key = [w \in Reconcilers |-> NoKey]
    /\ client = [w \in Reconcilers |-> None] /\ closing = [w \in Reconcilers |-> None]

Next ==
    \/ \E w \in Reconcilers :
          \/ \E p \in Configs : ReadProviderConfig(w, p)
          \/ ReadSecret(w) \/ get(w) \/ newOBSClient(w) \/ set(w)
          \/ closeClients(w) \/ use(w) \/ InvalidateProvider(w)
    \/ \E p \in Configs : ChangeProviderConfig(p) \/ ChangeSecret(p)

Spec == Init /\ [][Next]_vars

-----------------------------------------------------------------------------
(* Properties.                                                             *)

(* Every variable has its type.                                            *)
TypeOK ==
    /\ config \in [Configs -> Versions \cup {Absent}]
    /\ secret \in [Configs -> Versions \cup {Absent}]
    /\ queue \subseteq Configs
    /\ clients \in [Configs -> Entries \cup {NoEntry}]
    /\ made \in [Clients -> Keys \cup {NoKey}] /\ closed \subseteq Clients
    /\ at \in [Reconcilers -> Places] /\ prov \in [Reconcilers -> Configs]
    /\ key \in [Reconcilers -> PartialKeys]
    /\ client \in [Reconcilers -> Clients \cup {None}]
    /\ closing \in [Reconcilers -> Clients \cup {None}]

Cached(c) == \E p \in Configs : clients[p].client = c
Fresh(c)  == \E w \in Reconcilers : at[w] = "set" /\ client[w] = c
Doomed(c) == \E w \in Reconcilers : closing[w] = c

(* No client is lost: one that was built is in the cache, on its way there, *)
(* about to be closed or closed, also when two reconcilers resolve the same *)
(* ProviderConfig at once or one invalidates what the other stores.        *)
NoLeak ==
    \A c \in Clients : made[c] # NoKey =>
        Cached(c) \/ Fresh(c) \/ Doomed(c) \/ c \in closed

(* No client is closed twice, by one reconciler or by two.                  *)
ClosedOnce ==
    \A w \in Reconcilers : closing[w] # None =>
        /\ closing[w] \notin closed
        /\ \A v \in Reconcilers : v # w => closing[v] # closing[w]

(* What the cache hands out is open: a client in it is neither closed nor    *)
(* about to be, though set and InvalidateProvider close outside the mutex.  *)
CachedOpen == \A c \in Clients : Cached(c) => ~Doomed(c) /\ c \notin closed

(* A reconciler works with a client built from exactly the ProviderConfig   *)
(* and credentials it read, whoever built it and whatever changed since.   *)
UsesOwnInputs ==
    \A w \in Reconcilers : at[w] \in {"close", "use"} =>
        client[w] # None /\ made[client[w]] = key[w] /\ key[w] \in Keys
=============================================================================
