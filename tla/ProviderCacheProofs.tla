------------------------- MODULE ProviderCacheProofs -------------------------
(***************************************************************************)
(* Proofs about the client cache, for any number of reconcilers,           *)
(* ProviderConfigs and clients.  The inductive invariant gives every       *)
(* client that was built exactly one place: the cache, a reconciler about  *)
(* to store it, a reconciler about to close it, or the closed ones.        *)
(***************************************************************************)
EXTENDS ProviderCache, TLAPS

(* What a worker knows of its key and its client at each place.            *)
WorkerSound ==
    \A w \in Reconcilers :
        /\ at[w] = "secret" => key[w].config \in Versions
        /\ at[w] \in {"get", "build", "set", "close", "use"} => key[w] \in Keys
        /\ at[w] \in {"set", "close", "use"} =>
               client[w] \in Clients /\ made[client[w]] = key[w]
        /\ closing[w] # None => at[w] \in {"close", "closeLast"}

(* An entry holds a client built for the entry's key.                      *)
EntrySound ==
    \A p \in Configs : clients[p] # NoEntry => made[clients[p].client] = clients[p].key

(* Clients that are closed or about to be were built.                      *)
ClosedMade ==
    /\ \A c \in closed : made[c] # NoKey
    /\ \A w \in Reconcilers : closing[w] # None => made[closing[w]] # NoKey

(* No client is in two entries.                                            *)
CachedApart ==
    \A p, q \in Configs : p # q /\ clients[p] # NoEntry => clients[q].client # clients[p].client

(* A client on its way into the cache is nowhere else.                     *)
FreshApart ==
    \A w \in Reconcilers : at[w] = "set" =>
        /\ client[w] \notin closed
        /\ \A p \in Configs : clients[p].client # client[w]
        /\ \A v \in Reconcilers : closing[v] # client[w]
        /\ \A v \in Reconcilers : v # w /\ at[v] = "set" => client[v] # client[w]

(* The key of a missing client is not one a worker can compute.            *)
LEMMA KeyFacts ==
    /\ NoKey \in PartialKeys /\ NoKey \notin Keys /\ Keys \subseteq PartialKeys
    /\ \A k \in PartialKeys, v \in Versions \cup {Absent} :
          /\ [k EXCEPT !.config = v] \in PartialKeys
          /\ [k EXCEPT !.config = v].config = v
          /\ [k EXCEPT !.secret = v] \in PartialKeys
    /\ \A k \in PartialKeys, v \in Versions :
          k.config \in Versions => [k EXCEPT !.secret = v] \in Keys
  BY ConstantAssumptions DEF NoKey, Keys, PartialKeys

(* What an entry of the cache consists of.                                 *)
LEMMA EntryFacts ==
    /\ NoEntry.client = None /\ NoEntry.key = NoKey
    /\ \A k, c : [key |-> k, client |-> c].key = k /\ [key |-> k, client |-> c].client = c
    /\ \A k \in Keys, c \in Clients :
          [key |-> k, client |-> c] \in Entries /\ [key |-> k, client |-> c] # NoEntry
    /\ \A e \in Entries : e.key \in Keys /\ e.client \in Clients /\ e # NoEntry
  BY ConstantAssumptions DEF NoEntry, Entries, Keys, NoKey

(* Types, and what the workers and the entries know.                       *)
Sound == TypeOK /\ WorkerSound /\ EntrySound

(* Every step keeps the types and what workers and entries know: only      *)
(* newOBSClient changes made, and only for a client nobody has.            *)
LEMMA SoundStep == Sound /\ [Next]_vars => Sound'
  <1> SUFFICES ASSUME Sound, [Next]_vars PROVE Sound'
    OBVIOUS
  <1> USE KeyFacts, EntryFacts, ConstantAssumptions DEF Sound, inputs, Places
  <1>1. ASSUME NEW w \in Reconcilers, NEW p \in Configs, ReadProviderConfig(w, p) PROVE Sound'
    <2>1. TypeOK'
      <3>1. key' \in [Reconcilers -> PartialKeys]
        <4>1. [key[w] EXCEPT !.config = config[p]] \in PartialKeys
          BY DEF TypeOK
        <4> QED
          BY <1>1, <4>1 DEF ReadProviderConfig, Goto, TypeOK
      <3> QED
        BY <1>1, <3>1 DEF ReadProviderConfig, Goto, TypeOK
    <2>2. WorkerSound'
      <3>1. config[p] # Absent => key'[w].config \in Versions
        <4>1. config[p] # Absent => key'[w] = [key[w] EXCEPT !.config = config[p]]
          BY <1>1 DEF ReadProviderConfig, TypeOK
        <4>2. config[p] # Absent => config[p] \in Versions
          BY DEF TypeOK
        <4>3. [key[w] EXCEPT !.config = config[p]].config = config[p]
          BY DEF TypeOK
        <4> QED
          BY <4>1, <4>2, <4>3
      <3>2. \A v \in Reconcilers : v # w => at'[v] = at[v] /\ key'[v] = key[v]
        BY <1>1 DEF ReadProviderConfig, Goto, TypeOK
      <3>3. at'[w] \in {"secret", "invalidate"} /\ (at'[w] = "secret" => config[p] # Absent)
        BY <1>1 DEF ReadProviderConfig, Goto, TypeOK
      <3>4. UNCHANGED <<made, client, closing>> /\ at[w] = "idle"
        BY <1>1 DEF ReadProviderConfig
      <3> QED
        BY <3>1, <3>2, <3>3, <3>4 DEF WorkerSound
    <2>3. EntrySound'
      BY <1>1 DEF ReadProviderConfig, Goto, TypeOK, WorkerSound, EntrySound
    <2> QED
      BY <2>1, <2>2, <2>3 DEF Sound
  <1>2. ASSUME NEW w \in Reconcilers, ReadSecret(w) PROVE Sound'
    <2>1. TypeOK'
      <3>1. key' \in [Reconcilers -> PartialKeys]
        <4>1. [key[w] EXCEPT !.secret = secret[prov[w]]] \in PartialKeys
          BY DEF TypeOK
        <4> QED
          BY <1>2, <4>1 DEF ReadSecret, Failed, Done, TypeOK
      <3>2. at' \in [Reconcilers -> Places]
        BY <1>2 DEF ReadSecret, Failed, Done, Goto, TypeOK, Places
      <3>3. client' \in [Reconcilers -> Clients \cup {None}]
        BY <1>2 DEF ReadSecret, Failed, Done, TypeOK
      <3> QED
        BY <1>2, <3>1, <3>2, <3>3 DEF ReadSecret, TypeOK
    <2>2. WorkerSound'
      BY <1>2 DEF ReadSecret, Failed, Done, Goto, TypeOK, WorkerSound, EntrySound
    <2>3. EntrySound'
      BY <1>2 DEF ReadSecret, Failed, Done, Goto, TypeOK, WorkerSound, EntrySound
    <2> QED
      BY <2>1, <2>2, <2>3 DEF Sound
  <1>3. ASSUME NEW w \in Reconcilers, get(w) PROVE Sound'
    <2>1. TypeOK'
      <3>1. clients[prov[w]].client \in Clients \cup {None}
        BY DEF TypeOK
      <3> QED
        BY <1>3, <3>1 DEF get, Goto, TypeOK
    <2>2. WorkerSound'
      BY <1>3 DEF get, Hit, Goto, TypeOK, WorkerSound, EntrySound
    <2>3. EntrySound'
      BY <1>3 DEF get, Hit, Goto, TypeOK, WorkerSound, EntrySound
    <2> QED
      BY <2>1, <2>2, <2>3 DEF Sound
  <1>4. ASSUME NEW w \in Reconcilers, newOBSClient(w) PROVE Sound'
    <2>1. TypeOK'
      <3>1. key[w] \in Keys
        BY <1>4 DEF newOBSClient, WorkerSound
      <3>2. at' \in [Reconcilers -> Places]
        BY <1>4 DEF newOBSClient, Failed, Done, Goto, TypeOK, Places
      <3>3. client' \in [Reconcilers -> Clients \cup {None}]
        BY <1>4 DEF newOBSClient, Failed, Done, TypeOK
      <3>4. key' \in [Reconcilers -> PartialKeys]
        BY <1>4 DEF newOBSClient, Failed, Done, TypeOK
      <3>5. made' \in [Clients -> Keys \cup {NoKey}]
        BY <1>4, <3>1 DEF newOBSClient, TypeOK
      <3> QED
        BY <1>4, <3>2, <3>3, <3>4, <3>5 DEF newOBSClient, TypeOK
    <2>2. WorkerSound'
      BY <1>4 DEF newOBSClient, Failed, Done, Goto, TypeOK, WorkerSound, EntrySound
    <2>3. EntrySound'
      BY <1>4 DEF newOBSClient, Failed, Done, Goto, TypeOK, WorkerSound, EntrySound
    <2> QED
      BY <2>1, <2>2, <2>3 DEF Sound
  <1>5. ASSUME NEW w \in Reconcilers, set(w) PROVE Sound'
    <2>1. TypeOK'
      <3>1. clients[prov[w]].client \in Clients \cup {None}
        BY DEF TypeOK
      <3>2. [key |-> key[w], client |-> client[w]] \in Entries
        BY <1>5 DEF set, WorkerSound
      <3>3. at' \in [Reconcilers -> Places]
        BY <1>5 DEF set, Goto, TypeOK, Places
      <3>4. client' \in [Reconcilers -> Clients \cup {None}]
        BY <1>5, <3>1 DEF set, TypeOK
      <3>5. closing' \in [Reconcilers -> Clients \cup {None}]
        BY <1>5, <3>1 DEF set, TypeOK
      <3>6. clients' \in [Configs -> Entries \cup {NoEntry}]
        BY <1>5, <3>2 DEF set, TypeOK
      <3> QED
        BY <1>5, <3>3, <3>4, <3>5, <3>6 DEF set, TypeOK
    <2>2. WorkerSound'
      BY <1>5 DEF set, Goto, TypeOK, WorkerSound, EntrySound
    <2>3. EntrySound'
      BY <1>5 DEF set, Goto, TypeOK, WorkerSound, EntrySound
    <2> QED
      BY <2>1, <2>2, <2>3 DEF Sound
  <1>6. ASSUME NEW w \in Reconcilers, closeClients(w) PROVE Sound'
    <2>1. TypeOK'
      <3>1. closed' \subseteq Clients /\ closing' \in [Reconcilers -> Clients \cup {None}]
        BY <1>6 DEF closeClients, TypeOK
      <3>2. at' \in [Reconcilers -> Places]
        BY <1>6 DEF closeClients, Done, Goto, TypeOK, Places
      <3>3. client' \in [Reconcilers -> Clients \cup {None}]
        BY <1>6 DEF closeClients, Done, TypeOK
      <3>4. key' \in [Reconcilers -> PartialKeys]
        BY <1>6 DEF closeClients, Done, TypeOK
      <3>5. queue' \subseteq Configs
        BY <1>6 DEF closeClients, updateProviderConfigStatus, TypeOK
      <3> QED
        BY <1>6, <3>1, <3>2, <3>3, <3>4, <3>5 DEF closeClients, TypeOK
    <2>2. WorkerSound'
      BY <1>6 DEF closeClients, Done, Goto, TypeOK, WorkerSound, EntrySound
    <2>3. EntrySound'
      BY <1>6 DEF closeClients, Done, Goto, TypeOK, WorkerSound, EntrySound
    <2> QED
      BY <2>1, <2>2, <2>3 DEF Sound
  <1>7. ASSUME NEW w \in Reconcilers, use(w) PROVE Sound'
    <2>1. TypeOK'
      <3>1. queue' \subseteq Configs
        BY <1>7 DEF use, updateProviderConfigStatus, TypeOK
      <3>2. at' \in [Reconcilers -> Places]
        BY <1>7 DEF use, Failed, Done, Goto, TypeOK, Places
      <3>3. client' \in [Reconcilers -> Clients \cup {None}]
        BY <1>7 DEF use, Failed, Done, TypeOK
      <3>4. key' \in [Reconcilers -> PartialKeys]
        BY <1>7 DEF use, Failed, Done, TypeOK
      <3> QED
        BY <1>7, <3>1, <3>2, <3>3, <3>4 DEF use, TypeOK
    <2>2. WorkerSound'
      BY <1>7 DEF use, Failed, Done, Goto, TypeOK, WorkerSound, EntrySound
    <2>3. EntrySound'
      BY <1>7 DEF use, Failed, Done, Goto, TypeOK, WorkerSound, EntrySound
    <2> QED
      BY <2>1, <2>2, <2>3 DEF Sound
  <1>8. ASSUME NEW w \in Reconcilers, InvalidateProvider(w) PROVE Sound'
    <2>1. TypeOK'
      BY <1>8 DEF InvalidateProvider, Goto, TypeOK, WorkerSound
    <2>2. WorkerSound'
      BY <1>8 DEF InvalidateProvider, Goto, TypeOK, WorkerSound, EntrySound
    <2>3. EntrySound'
      BY <1>8 DEF InvalidateProvider, Goto, TypeOK, WorkerSound, EntrySound
    <2> QED
      BY <2>1, <2>2, <2>3 DEF Sound
  <1>9. ASSUME NEW p \in Configs, ChangeProviderConfig(p) PROVE Sound'
    <2>1. TypeOK'
      BY <1>9 DEF ChangeProviderConfig, TypeOK, WorkerSound
    <2>2. WorkerSound'
      BY <1>9 DEF ChangeProviderConfig, TypeOK, WorkerSound, EntrySound
    <2>3. EntrySound'
      BY <1>9 DEF ChangeProviderConfig, TypeOK, WorkerSound, EntrySound
    <2> QED
      BY <2>1, <2>2, <2>3 DEF Sound
  <1>10. ASSUME NEW p \in Configs, ChangeSecret(p) PROVE Sound'
    <2>1. TypeOK'
      BY <1>10 DEF ChangeSecret, TypeOK, WorkerSound
    <2>2. WorkerSound'
      BY <1>10 DEF ChangeSecret, TypeOK, WorkerSound, EntrySound
    <2>3. EntrySound'
      BY <1>10 DEF ChangeSecret, TypeOK, WorkerSound, EntrySound
    <2> QED
      BY <2>1, <2>2, <2>3 DEF Sound
  <1>11. CASE UNCHANGED vars
    BY <1>11 DEF vars, TypeOK, WorkerSound, TypeOK, WorkerSound, EntrySound
  <1> QED
    BY <1>1, <1>2, <1>3, <1>4, <1>5, <1>6, <1>7, <1>8, <1>9, <1>10, <1>11 DEF Next

(* Where the clients are: each that was built has exactly one place.       *)
Custody == ClosedMade /\ CachedApart /\ FreshApart /\ NoLeak /\ ClosedOnce /\ CachedOpen

(* A step of worker w that leaves the cache alone, stores nothing in it     *)
(* afterwards, and closes at most the client w was about to close.         *)
KeepsCache(w) ==
    /\ at[w] # "set" /\ at'[w] # "set"
    /\ \A v \in Reconcilers :
          v # w => at'[v] = at[v] /\ client'[v] = client[v] /\ closing'[v] = closing[v]
    /\ UNCHANGED <<clients, made>>
    /\ closing'[w] \in {closing[w], None}
    /\ \/ closing'[w] = closing[w] /\ closed' = closed
       \/ closed' = closed \cup ({closing[w]} \ {None})

(* Such a step leaves a client that another worker is about to store apart. *)
LEMMA FreshKept ==
    ASSUME WorkerSound, FreshApart, NEW w \in Reconcilers, KeepsCache(w)
    PROVE  FreshApart'
  <1> SUFFICES ASSUME NEW v \in Reconcilers, at'[v] = "set"
               PROVE /\ client'[v] \notin closed'
                     /\ \A p \in Configs : clients'[p].client # client'[v]
                     /\ \A u \in Reconcilers : closing'[u] # client'[v]
                     /\ \A u \in Reconcilers : u # v /\ at'[u] = "set" => client'[u] # client'[v]
    BY DEF FreshApart
  <1>1. v # w /\ at[v] = "set" /\ client'[v] = client[v]
    BY DEF KeepsCache
  <1>2. client[v] # None
    BY <1>1, ConstantAssumptions DEF WorkerSound
  <1>3. client[v] \notin closed /\ \A u \in Reconcilers : closing[u] # client[v]
    BY <1>1 DEF FreshApart
  <1>4. client[v] \notin closed'
    BY <1>3 DEF KeepsCache
  <1>5. \A p \in Configs : clients'[p].client # client[v]
    BY <1>1 DEF FreshApart, KeepsCache
  <1>6. \A u \in Reconcilers : closing'[u] # client[v]
    BY <1>2, <1>3 DEF KeepsCache
  <1>7. \A u \in Reconcilers : u # v /\ at'[u] = "set" => client'[u] # client[v]
    BY <1>1 DEF FreshApart, KeepsCache
  <1> QED
    BY <1>1, <1>4, <1>5, <1>6, <1>7

(* Such a step loses no client.                                            *)
LEMMA NoLeakKept ==
    ASSUME NoLeak, NEW w \in Reconcilers, KeepsCache(w)
    PROVE  NoLeak'
  <1> SUFFICES ASSUME NEW c \in Clients, made[c] # NoKey, c \notin closed'
               PROVE Cached(c)' \/ Fresh(c)' \/ Doomed(c)'
    BY DEF NoLeak, KeepsCache
  <1>1. CASE Cached(c)
    BY <1>1 DEF Cached, KeepsCache
  <1>2. CASE Fresh(c)
    BY <1>2 DEF Fresh, KeepsCache
  <1>3. CASE Doomed(c)
    <2>1. PICK u \in Reconcilers : closing[u] = c
      BY <1>3 DEF Doomed
    <2>2. closing'[u] = c
      BY <2>1, ConstantAssumptions DEF KeepsCache
    <2> QED
      BY <2>2 DEF Doomed
  <1>4. c \notin closed
    BY DEF KeepsCache
  <1> QED
    BY <1>1, <1>2, <1>3, <1>4 DEF NoLeak

(* Every step moves a client from one place to exactly one other.          *)
LEMMA CustodyStep == Sound /\ Custody /\ [Next]_vars => Custody'
  <1> SUFFICES ASSUME Sound, Custody, [Next]_vars PROVE Custody'
    OBVIOUS
  <1> USE KeyFacts, EntryFacts, ConstantAssumptions DEF Sound, Custody, inputs
  <1>1. ASSUME NEW w \in Reconcilers, NEW p \in Configs, ReadProviderConfig(w, p) PROVE Custody'
    <2>1. ClosedMade'
      BY <1>1
         DEF ReadProviderConfig, Goto, TypeOK, WorkerSound, ClosedMade, FreshApart, EntrySound
    <2>2. CachedApart'
      BY <1>1 DEF ReadProviderConfig, Goto, TypeOK, WorkerSound, CachedApart, FreshApart
    <2>3. FreshApart'
      BY <1>1
         DEF ReadProviderConfig, Goto, TypeOK, WorkerSound, EntrySound, ClosedMade, FreshApart
    <2>4. NoLeak'
      BY <1>1 DEF ReadProviderConfig, Goto, TypeOK, WorkerSound, NoLeak, Cached, Fresh, Doomed
    <2>5. ClosedOnce'
      BY <1>1
         DEF ReadProviderConfig, Goto, TypeOK, WorkerSound, ClosedOnce, FreshApart, CachedOpen,
             Cached, Doomed
    <2>6. CachedOpen'
      BY <1>1
         DEF ReadProviderConfig, Goto, TypeOK, WorkerSound, CachedApart, FreshApart,
             CachedOpen, Cached, Doomed
    <2> QED
      BY <2>1, <2>2, <2>3, <2>4, <2>5, <2>6 DEF Custody
  <1>2. ASSUME NEW w \in Reconcilers, ReadSecret(w) PROVE Custody'
    <2>0. KeepsCache(w)
      BY <1>2 DEF KeepsCache, ReadSecret, Failed, Done, Goto, TypeOK
    <2>1. ClosedMade'
      BY <1>2
         DEF ReadSecret, Failed, Done, Goto, TypeOK, WorkerSound, ClosedMade, FreshApart,
             EntrySound
    <2>2. CachedApart'
      BY <1>2 DEF ReadSecret, Failed, Done, Goto, TypeOK, WorkerSound, CachedApart, FreshApart
    <2>3. FreshApart'
      BY <2>0, FreshKept
    <2>4. NoLeak'
      BY <2>0, NoLeakKept
    <2>5. ClosedOnce'
      BY <1>2
         DEF ReadSecret, Failed, Done, Goto, TypeOK, WorkerSound, ClosedOnce, FreshApart,
             CachedOpen, Cached, Doomed
    <2>6. CachedOpen'
      BY <1>2
         DEF ReadSecret, Failed, Done, Goto, TypeOK, WorkerSound, CachedApart, FreshApart,
             CachedOpen, Cached, Doomed
    <2> QED
      BY <2>1, <2>2, <2>3, <2>4, <2>5, <2>6 DEF Custody
  <1>3. ASSUME NEW w \in Reconcilers, get(w) PROVE Custody'
    <2>1. ClosedMade'
      BY <1>3 DEF get, Hit, Goto, TypeOK, WorkerSound, ClosedMade, FreshApart, EntrySound
    <2>2. CachedApart'
      BY <1>3 DEF get, Hit, Goto, TypeOK, WorkerSound, CachedApart, FreshApart
    <2>3. FreshApart'
      BY <1>3 DEF get, Hit, Goto, TypeOK, WorkerSound, EntrySound, ClosedMade, FreshApart
    <2>4. NoLeak'
      BY <1>3 DEF get, Hit, Goto, TypeOK, WorkerSound, NoLeak, Cached, Fresh, Doomed
    <2>5. ClosedOnce'
      BY <1>3
         DEF get, Hit, Goto, TypeOK, WorkerSound, ClosedOnce, FreshApart, CachedOpen, Cached,
             Doomed
    <2>6. CachedOpen'
      BY <1>3
         DEF get, Hit, Goto, TypeOK, WorkerSound, CachedApart, FreshApart, CachedOpen, Cached,
             Doomed
    <2> QED
      BY <2>1, <2>2, <2>3, <2>4, <2>5, <2>6 DEF Custody
  <1>4. ASSUME NEW w \in Reconcilers, newOBSClient(w) PROVE Custody'
    <2>1. ClosedMade'
      BY <1>4
         DEF newOBSClient, Failed, Done, Goto, TypeOK, WorkerSound, ClosedMade, FreshApart,
             EntrySound
    <2>2. CachedApart'
      BY <1>4 DEF newOBSClient, Failed, Done, Goto, TypeOK, WorkerSound, CachedApart, FreshApart
    <2>3. FreshApart'
      <3>1. CASE UNCHANGED made
        <4>1. /\ at'[w] # "set" /\ UNCHANGED <<clients, closed, closing>>
              /\ \A v \in Reconcilers : v # w => at'[v] = at[v] /\ client'[v] = client[v]
          <5>1. Failed(w)
            BY <1>4, <3>1 DEF newOBSClient, WorkerSound, TypeOK
          <5> QED
            BY <1>4, <5>1 DEF newOBSClient, Failed, Done, Goto, TypeOK
        <4> QED
          BY <4>1 DEF FreshApart
      <3>2. CASE ~UNCHANGED made
        <4>1. PICK c \in Clients : /\ made[c] = NoKey
                                  /\ client' = [client EXCEPT ![w] = c]
                                  /\ at' = [at EXCEPT ![w] = "set"]
          BY <1>4, <3>2 DEF newOBSClient, Goto
        <4>2. /\ c \notin closed
              /\ \A p \in Configs : clients[p].client # c
              /\ \A v \in Reconcilers : closing[v] # c
              /\ \A v \in Reconcilers : at[v] = "set" => client[v] # c
          BY <4>1 DEF TypeOK, ClosedMade, EntrySound, WorkerSound
        <4>3. UNCHANGED <<clients, closed, closing>>
          BY <1>4 DEF newOBSClient
        <4> QED
          BY <4>1, <4>2, <4>3 DEF FreshApart, TypeOK
      <3> QED
        BY <3>1, <3>2
    <2>4. NoLeak'
      BY <1>4
         DEF newOBSClient, Failed, Done, Goto, TypeOK, WorkerSound, NoLeak, Cached, Fresh,
             Doomed
    <2>5. ClosedOnce'
      BY <1>4
         DEF newOBSClient, Failed, Done, Goto, TypeOK, WorkerSound, ClosedOnce, FreshApart,
             CachedOpen, Cached, Doomed
    <2>6. CachedOpen'
      BY <1>4
         DEF newOBSClient, Failed, Done, Goto, TypeOK, WorkerSound, CachedApart, FreshApart,
             CachedOpen, Cached, Doomed
    <2> QED
      BY <2>1, <2>2, <2>3, <2>4, <2>5, <2>6 DEF Custody
  <1>5. ASSUME NEW w \in Reconcilers, set(w) PROVE Custody'
    <2> DEFINE p == prov[w]
    <2>0. /\ p \in Configs /\ at[w] = "set" /\ closing[w] = None /\ client[w] \in Clients
          /\ at'[w] = "close" /\ UNCHANGED <<made, closed>>
          /\ \A v \in Reconcilers :
                v # w => at'[v] = at[v] /\ client'[v] = client[v] /\ closing'[v] = closing[v]
          /\ \/ closing'[w] = client[w] /\ clients' = clients
             \/ /\ closing'[w] = clients[p].client /\ clients'[p].client = client[w]
                /\ \A q \in Configs : q # p => clients'[q] = clients[q]
      BY <1>5 DEF set, Goto, TypeOK, WorkerSound
    <2> HIDE DEF p
    <2>1. ClosedMade'
      BY <1>5 DEF set, Goto, TypeOK, WorkerSound, ClosedMade, FreshApart, EntrySound
    <2>2. CachedApart'
      <3>1. CASE clients' = clients
        BY <3>1 DEF CachedApart
      <3>2. CASE clients' # clients
        <4>1. /\ clients'[p].client = client[w] /\ client[w] # None
              /\ \A q \in Configs : q # p => clients'[q] = clients[q]
          BY <2>0, <3>2
        <4>2. \A q \in Configs : clients[q].client # client[w]
          BY <2>0 DEF FreshApart
        <4> QED
          BY <2>0, <4>1, <4>2 DEF CachedApart
      <3> QED
        BY <3>1, <3>2
    <2>3. FreshApart'
      <3> SUFFICES ASSUME NEW v \in Reconcilers, at'[v] = "set"
                   PROVE /\ client[v] \notin closed
                         /\ \A q \in Configs : clients'[q].client # client[v]
                         /\ \A u \in Reconcilers : closing'[u] # client[v]
                         /\ \A u \in Reconcilers :
                               u # v /\ at'[u] = "set" => client'[u] # client[v]
        BY <2>0 DEF FreshApart
      <3>1. v # w /\ at[v] = "set" /\ client[v] # client[w]
        BY <2>0 DEF FreshApart
      <3>2. \A q \in Configs : clients'[q].client # client[v]
        BY <2>0, <3>1 DEF FreshApart
      <3>3. \A u \in Reconcilers : closing'[u] # client[v]
        BY <2>0, <3>1 DEF FreshApart
      <3> QED
        BY <2>0, <3>1, <3>2, <3>3 DEF FreshApart
    <2>4. NoLeak'
      <3> SUFFICES ASSUME NEW c \in Clients, made[c] # NoKey, ~(c \in closed)
                   PROVE Cached(c)' \/ Fresh(c)' \/ Doomed(c)'
        BY <2>0 DEF NoLeak
      <3>1. CASE c = client[w]
        BY <2>0, <3>1 DEF Cached, Doomed
      <3>2. CASE c # client[w] /\ Cached(c)
        BY <2>0, <3>2 DEF Cached, Doomed
      <3>3. CASE c # client[w] /\ Fresh(c)
        BY <2>0, <3>3 DEF Fresh
      <3>4. CASE Doomed(c)
        BY <2>0, <3>4, ConstantAssumptions DEF Doomed
      <3> QED
        BY <3>1, <3>2, <3>3, <3>4 DEF NoLeak
    <2>5. ClosedOnce'
      <3>1. closing'[w] # None =>
               /\ closing'[w] \notin closed
               /\ \A v \in Reconcilers : closing[v] # closing'[w]
        BY <2>0 DEF FreshApart, CachedOpen, Cached, Doomed, TypeOK
      <3> QED
        BY <2>0, <3>1 DEF ClosedOnce
    <2>6. CachedOpen'
      BY <1>5
         DEF set, Goto, TypeOK, WorkerSound, CachedApart, FreshApart, CachedOpen, Cached, Doomed
    <2> QED
      BY <2>1, <2>2, <2>3, <2>4, <2>5, <2>6 DEF Custody
  <1>6. ASSUME NEW w \in Reconcilers, closeClients(w) PROVE Custody'
    <2>0. KeepsCache(w)
      BY <1>6 DEF KeepsCache, closeClients, Done, Goto, TypeOK
    <2>1. ClosedMade'
      BY <1>6
         DEF closeClients, Done, Goto, TypeOK, WorkerSound, ClosedMade, FreshApart, EntrySound
    <2>2. CachedApart'
      BY <1>6 DEF closeClients, Done, Goto, TypeOK, WorkerSound, CachedApart, FreshApart
    <2>3. FreshApart'
      BY <2>0, FreshKept
    <2>4. NoLeak'
      BY <2>0, NoLeakKept
    <2>5. ClosedOnce'
      BY <1>6
         DEF closeClients, Done, Goto, TypeOK, WorkerSound, ClosedOnce, FreshApart, CachedOpen,
             Cached, Doomed
    <2>6. CachedOpen'
      BY <1>6
         DEF closeClients, Done, Goto, TypeOK, WorkerSound, CachedApart, FreshApart,
             CachedOpen, Cached, Doomed
    <2> QED
      BY <2>1, <2>2, <2>3, <2>4, <2>5, <2>6 DEF Custody
  <1>7. ASSUME NEW w \in Reconcilers, use(w) PROVE Custody'
    <2>0. KeepsCache(w)
      BY <1>7 DEF KeepsCache, use, Failed, Done, Goto, TypeOK
    <2>1. ClosedMade'
      BY <1>7
         DEF use, Failed, Done, Goto, TypeOK, WorkerSound, ClosedMade, FreshApart, EntrySound
    <2>2. CachedApart'
      BY <1>7 DEF use, Failed, Done, Goto, TypeOK, WorkerSound, CachedApart, FreshApart
    <2>3. FreshApart'
      BY <2>0, FreshKept
    <2>4. NoLeak'
      BY <2>0, NoLeakKept
    <2>5. ClosedOnce'
      BY <1>7
         DEF use, Failed, Done, Goto, TypeOK, WorkerSound, ClosedOnce, FreshApart, CachedOpen,
             Cached, Doomed
    <2>6. CachedOpen'
      BY <1>7
         DEF use, Failed, Done, Goto, TypeOK, WorkerSound, CachedApart, FreshApart, CachedOpen,
             Cached, Doomed
    <2> QED
      BY <2>1, <2>2, <2>3, <2>4, <2>5, <2>6 DEF Custody
  <1>8. ASSUME NEW w \in Reconcilers, InvalidateProvider(w) PROVE Custody'
    <2>1. ClosedMade'
      BY <1>8
         DEF InvalidateProvider, Goto, TypeOK, WorkerSound, ClosedMade, FreshApart, EntrySound
    <2>2. CachedApart'
      BY <1>8 DEF InvalidateProvider, Goto, TypeOK, WorkerSound, CachedApart, FreshApart
    <2>3. FreshApart'
      BY <1>8
         DEF InvalidateProvider, Goto, TypeOK, WorkerSound, EntrySound, ClosedMade, FreshApart
    <2>4. NoLeak'
      BY <1>8 DEF InvalidateProvider, Goto, TypeOK, WorkerSound, NoLeak, Cached, Fresh, Doomed
    <2>5. ClosedOnce'
      <3>1. /\ closing'[w] = clients[prov[w]].client /\ closed' = closed
            /\ \A v \in Reconcilers : v # w => closing'[v] = closing[v]
        BY <1>8 DEF InvalidateProvider, TypeOK
      <3>2. closing'[w] # None =>
               /\ closing'[w] \notin closed
               /\ \A v \in Reconcilers : closing[v] # closing'[w]
        BY <3>1 DEF CachedOpen, Cached, Doomed, TypeOK
      <3> QED
        BY <3>1, <3>2 DEF ClosedOnce
    <2>6. CachedOpen'
      BY <1>8
         DEF InvalidateProvider, Goto, TypeOK, WorkerSound, CachedApart, FreshApart,
             CachedOpen, Cached, Doomed
    <2> QED
      BY <2>1, <2>2, <2>3, <2>4, <2>5, <2>6 DEF Custody
  <1>9. ASSUME NEW p \in Configs, ChangeProviderConfig(p) PROVE Custody'
    <2>1. ClosedMade'
      BY <1>9 DEF ChangeProviderConfig, TypeOK, WorkerSound, ClosedMade, FreshApart, EntrySound
    <2>2. CachedApart'
      BY <1>9 DEF ChangeProviderConfig, TypeOK, WorkerSound, CachedApart, FreshApart
    <2>3. FreshApart'
      BY <1>9 DEF ChangeProviderConfig, TypeOK, WorkerSound, EntrySound, ClosedMade, FreshApart
    <2>4. NoLeak'
      BY <1>9 DEF ChangeProviderConfig, TypeOK, WorkerSound, NoLeak, Cached, Fresh, Doomed
    <2>5. ClosedOnce'
      BY <1>9
         DEF ChangeProviderConfig, TypeOK, WorkerSound, ClosedOnce, FreshApart, CachedOpen,
             Cached, Doomed
    <2>6. CachedOpen'
      BY <1>9
         DEF ChangeProviderConfig, TypeOK, WorkerSound, CachedApart, FreshApart, CachedOpen,
             Cached, Doomed
    <2> QED
      BY <2>1, <2>2, <2>3, <2>4, <2>5, <2>6 DEF Custody
  <1>10. ASSUME NEW p \in Configs, ChangeSecret(p) PROVE Custody'
    <2>1. ClosedMade'
      BY <1>10 DEF ChangeSecret, TypeOK, WorkerSound, ClosedMade, FreshApart, EntrySound
    <2>2. CachedApart'
      BY <1>10 DEF ChangeSecret, TypeOK, WorkerSound, CachedApart, FreshApart
    <2>3. FreshApart'
      BY <1>10 DEF ChangeSecret, TypeOK, WorkerSound, EntrySound, ClosedMade, FreshApart
    <2>4. NoLeak'
      BY <1>10 DEF ChangeSecret, TypeOK, WorkerSound, NoLeak, Cached, Fresh, Doomed
    <2>5. ClosedOnce'
      BY <1>10
         DEF ChangeSecret, TypeOK, WorkerSound, ClosedOnce, FreshApart, CachedOpen, Cached,
             Doomed
    <2>6. CachedOpen'
      BY <1>10
         DEF ChangeSecret, TypeOK, WorkerSound, CachedApart, FreshApart, CachedOpen, Cached,
             Doomed
    <2> QED
      BY <2>1, <2>2, <2>3, <2>4, <2>5, <2>6 DEF Custody
  <1>11. CASE UNCHANGED vars
    BY <1>11
       DEF vars, ClosedMade, CachedApart, FreshApart, NoLeak, ClosedOnce, CachedOpen, Cached,
           Fresh, Doomed
  <1> QED
    BY <1>1, <1>2, <1>3, <1>4, <1>5, <1>6, <1>7, <1>8, <1>9, <1>10, <1>11 DEF Next

Inv == Sound /\ Custody

(* At the start no client was built.                                       *)
LEMMA InitInv == Init => Inv
  <1> SUFFICES ASSUME Init PROVE Inv
    OBVIOUS
  <1> USE KeyFacts, EntryFacts DEF Init
  <1>1. TypeOK
    BY DEF TypeOK, Places
  <1>2. WorkerSound /\ EntrySound /\ ClosedMade /\ CachedApart /\ FreshApart
    BY DEF WorkerSound, EntrySound, ClosedMade, CachedApart, FreshApart
  <1>3. NoLeak /\ ClosedOnce
    BY DEF NoLeak, ClosedOnce
  <1>4. CachedOpen
    BY ConstantAssumptions DEF CachedOpen, Cached, Doomed
  <1> QED
    BY <1>1, <1>2, <1>3, <1>4 DEF Inv, Sound, Custody

(* The inductive invariant holds throughout.                               *)
LEMMA Invariance == Spec => []Inv
  <1>1. Inv /\ [Next]_vars => Inv'
    BY SoundStep, CustodyStep DEF Inv
  <1> QED
    BY InitInv, <1>1, PTL DEF Spec

(* The cache, the workers and their keys keep their types in every          *)
(* behaviour of the reconcilers, for every number of them.                 *)
THEOREM TypeCorrect == Spec => []TypeOK
  <1>1. Inv => TypeOK
    BY DEF Inv, Sound
  <1> QED
    BY Invariance, <1>1, PTL

(* No OBS client that newOBSClient built is ever lost without being closed: *)
(* get, set and InvalidateProvider together account for every one.         *)
THEOREM NothingLeaks == Spec => []NoLeak
  <1>1. Inv => NoLeak
    BY DEF Inv, Custody
  <1> QED
    BY Invariance, <1>1, PTL

(* closeClients never closes a client twice, whichever of set and            *)
(* InvalidateProvider handed it over.                                      *)
THEOREM CloseIsSafe == Spec => []ClosedOnce
  <1>1. Inv => ClosedOnce
    BY DEF Inv, Custody
  <1> QED
    BY Invariance, <1>1, PTL

(* A client in the cache is neither closed nor about to be, even between    *)
(* the release of the mutex and the end of closeClients.                   *)
THEOREM CachedStaysOpen == Spec => []CachedOpen
  <1>1. Inv => CachedOpen
    BY DEF Inv, Custody
  <1> QED
    BY Invariance, <1>1, PTL

(* ResolveProviderConfigObject returns a client built from the very          *)
(* ProviderConfig and Secret contents it read.                             *)
THEOREM ResolvesOwnInputs == Spec => []UsesOwnInputs
  <1>1. Inv => UsesOwnInputs
    BY ConstantAssumptions DEF Inv, Sound, WorkerSound, UsesOwnInputs
  <1> QED
    BY Invariance, <1>1, PTL
=============================================================================
