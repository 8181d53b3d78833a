------------------------ MODULE BucketSettingsProofs ------------------------
(***************************************************************************)
(* What the steps of update promise, for every set of specs, tags, logging  *)
(* targets and keys, and however often users, other clients, faults and     *)
(* restarts come between two calls.                                        *)
(***************************************************************************)
EXTENDS BucketSettings, BucketAclProofs

-----------------------------------------------------------------------------
(* Comparing what OBS reports with what is asked for.                      *)

(* The grants an OBS bucket may have: those of a canned ACL, and a stranger. *)
Grants == {ownerGrant(Owner), Stranger, publicReadGrant, publicWriteGrant,
           logDeliveryWriteGrant, logDeliveryReadACPGrant}

(* A grant as OBS writes it down, with a short or a long group URI.          *)
Written(g, short) ==
    [g EXCEPT !.uri = IF g.type = "User" THEN <<>>
                      ELSE IF short THEN <<g.uri>> ELSE <<"groups", g.uri>>]

(* However a grant is spelled, its signature is the grant.                  *)
LEMMA SignatureOfWritten ==
    ASSUME NEW g \in Grants, NEW short \in BOOLEAN
    PROVE  signatureOf(Written(g, short)) = g
  <1> DEFINE w == Written(g, short)
  <1>0. PICK t, n, u, p, d :
           /\ g = [type |-> t, id |-> n, uri |-> u, permission |-> p, delivered |-> d]
           /\ t = "User" => u = ""
    <2> DEFINE Shape(t, n, u, p, d) ==
                   /\ g = [type |-> t, id |-> n, uri |-> u, permission |-> p, delivered |-> d]
                   /\ t = "User" => u = ""
    <2>1. \/ Shape("User", Owner, "", "FULL_CONTROL", FALSE)
          \/ Shape("User", "stranger", "", "FULL_CONTROL", FALSE)
          \/ Shape("Group", "", "AllUsers", "READ", FALSE)
          \/ Shape("Group", "", "AllUsers", "WRITE", FALSE)
          \/ Shape("Group", "", "LogDelivery", "WRITE", FALSE)
          \/ Shape("Group", "", "LogDelivery", "READ_ACP", FALSE)
      BY DEF Grants, ownerGrant, Stranger, publicReadGrant, publicWriteGrant,
             logDeliveryWriteGrant, logDeliveryReadACPGrant, Signature
    <2> HIDE DEF Shape
    <2>2. \E t, n, u, p, d : Shape(t, n, u, p, d)
      BY <2>1, Zenon
    <2> QED
      BY <2>2 DEF Shape
  <1>1. /\ g.type = t /\ g.id = n /\ g.uri = u /\ g.permission = p /\ g.delivered = d
    BY <1>0
  <1>2. /\ w.type = t /\ w.id = n /\ w.permission = p /\ w.delivered = d
        /\ w.uri = IF t = "User" THEN <<>> ELSE IF short THEN <<u>> ELSE <<"groups", u>>
    BY <1>0, <1>1 DEF Written
  <1> HIDE DEF w
  <1>3. normalizeObsBucketGrantURI(w.type, w.uri) = u
    <2>1. CASE t = "User"
      BY <2>1, <1>0, <1>2 DEF normalizeObsBucketGrantURI
    <2>2. CASE t # "User" /\ short
      BY <2>2, <1>2 DEF normalizeObsBucketGrantURI
    <2>3. CASE t # "User" /\ ~short
      BY <2>3, <1>2 DEF normalizeObsBucketGrantURI
    <2> QED
      BY <2>1, <2>2, <2>3
  <1> QED
    BY <1>0, <1>2, <1>3 DEF signatureOf, Signature, w

(* The grants of the four canned ACLs, and what tells them apart.           *)
LEMMA CannedValues ==
    /\ CannedGrants("private", Owner) = {ownerGrant(Owner)}
    /\ CannedGrants("public-read", Owner) = {ownerGrant(Owner), publicReadGrant}
    /\ CannedGrants("public-read-write", Owner) =
          {ownerGrant(Owner), publicReadGrant, publicWriteGrant}
    /\ CannedGrants("log-delivery-write", Owner) =
          {ownerGrant(Owner), logDeliveryWriteGrant, logDeliveryReadACPGrant}
  BY DEF CannedGrants

LEMMA GrantsApart ==
    /\ publicReadGrant # ownerGrant(Owner) /\ publicWriteGrant # ownerGrant(Owner)
    /\ logDeliveryWriteGrant # ownerGrant(Owner)
    /\ publicWriteGrant # publicReadGrant /\ logDeliveryWriteGrant # publicReadGrant
    /\ logDeliveryWriteGrant # publicWriteGrant
    /\ logDeliveryReadACPGrant # publicReadGrant
  BY DEF ownerGrant, publicReadGrant, publicWriteGrant, logDeliveryWriteGrant,
         logDeliveryReadACPGrant, Signature, Owner

(* The ACL of an OBS bucket is a finite set of such grants.                 *)
LEMMA AclStatesAreGrants ==
    ASSUME NEW grants \in AclStates
    PROVE  grants \subseteq Grants /\ IsFiniteSet(grants)
  <1>1. grants \subseteq Grants
    BY CannedValues DEF AclStates, Grants, ACLs
  <1>2. IsFiniteSet(Grants)
    <2> DEFINE A == {ownerGrant(Owner)}
               B == A \cup {Stranger}
               C == B \cup {publicReadGrant}
               D == C \cup {publicWriteGrant}
               E == D \cup {logDeliveryWriteGrant}
               F == E \cup {logDeliveryReadACPGrant}
    <2>1. Grants = F
      BY DEF Grants
    <2>2. IsFiniteSet(A)
      BY FS_Singleton
    <2> HIDE DEF A, B, C, D, E
    <2>3. IsFiniteSet(B)
      BY <2>2, FS_AddElement DEF B
    <2>4. IsFiniteSet(C)
      BY <2>3, FS_AddElement DEF C
    <2>5. IsFiniteSet(D)
      BY <2>4, FS_AddElement DEF D
    <2>6. IsFiniteSet(E)
      BY <2>5, FS_AddElement DEF E
    <2> QED
      BY <2>1, <2>6, FS_AddElement
  <1> QED
    BY <1>1, <1>2, FS_Subset

LEMMA CannedAreStates ==
    ASSUME NEW acl \in ACLs
    PROVE  CannedGrants(acl, Owner) \in AclStates
  BY DEF AclStates

(* No two canned ACLs stand for the same grants, and none for a stranger's.  *)
LEMMA CannedApart ==
    ASSUME NEW a \in ACLs, NEW b \in ACLs, CannedGrants(a, Owner) = CannedGrants(b, Owner)
    PROVE  a = b
  BY CannedValues, GrantsApart DEF ACLs

(* A list OBS gives for an ACL has each of its grants once.                 *)
LEMMA ListsAreExact ==
    ASSUME NEW grants \in AclStates, NEW l \in GrantLists(grants)
    PROVE  /\ \E S : l \in Seq(S)
           /\ Len(l) = Cardinality(grants)
           /\ actualSet(l) = grants
  <1> DEFINE n == Cardinality(grants)
             D == 1..n
  <1>1. grants \subseteq Grants /\ IsFiniteSet(grants)
    BY AclStatesAreGrants
  <1>2. n \in Nat /\ IsFiniteSet(D) /\ Cardinality(D) = n
    <2>1. n \in Nat
      BY <1>1, FS_CardinalityType
    <2>2. IsFiniteSet(D) /\ Cardinality(D) = IF 1 > n THEN 0 ELSE n - 1 + 1
      BY <2>1, FS_Interval
    <2> QED
      BY <2>1, <2>2
  <1>3. PICK f \in SetToSeqs(grants), short \in BOOLEAN :
           l = [i \in DOMAIN f |-> Written(f[i], short)]
    BY DEF GrantLists, Written
  <1>4. f \in [D -> grants] /\ \A i, j \in D : i # j => f[i] # f[j]
    BY <1>3 DEF SetToSeqs
  <1> HIDE DEF D, n
  <1>5. f \in Injection(D, grants)
    BY <1>4 DEF Injection, IsInjective
  <1>6. Cardinality(D) = Cardinality(grants) <=> f \in Surjection(D, grants)
    BY <1>1, <1>5, FS_Injection
  <1>7. \A g \in grants : \E i \in D : f[i] = g
    BY <1>2, <1>6 DEF Surjection, n
  <1>8. l = [i \in D |-> Written(f[i], short)]
    BY <1>3, <1>4
  <1>9. l \in Seq({Written(g, short) : g \in grants}) /\ Len(l) = n
    BY <1>2, <1>4, <1>8 DEF D
  <1>10. \A i \in D : signatureOf(l[i]) = f[i]
    BY <1>1, <1>4, <1>8, SignatureOfWritten
  <1>11. actualSet(l) = {f[i] : i \in D}
    BY <1>9, <1>10 DEF actualSet, D
  <1>12. {f[i] : i \in D} = grants
    BY <1>4, <1>7
  <1> QED
    BY <1>9, <1>11, <1>12 DEF n

(* However OBS lists and spells the grants of a bucket, the code takes them *)
(* for a canned ACL exactly when they are the grants of that ACL: reading   *)
(* an ACL back never makes the step set it again, and never hides a         *)
(* difference.                                                             *)
THEOREM RecognisedExactly ==
    ASSUME NEW grants \in AclStates, NEW l \in GrantLists(grants), NEW acl \in ACLs
    PROVE  flattenObsBucketCannedACL(Owner, l) = acl <=> grants = CannedGrants(acl, Owner)
  <1>1. \A a \in ACLs : obsBucketACLMatches(l, CannedGrants(a, Owner))
                           <=> grants = CannedGrants(a, Owner)
    <2> SUFFICES ASSUME NEW a \in ACLs
                 PROVE  obsBucketACLMatches(l, CannedGrants(a, Owner))
                           <=> grants = CannedGrants(a, Owner)
      OBVIOUS
    <2> DEFINE canned == CannedGrants(a, Owner)
    <2>1. IsFiniteSet(canned)
      BY CannedAreStates, AclStatesAreGrants
    <2>2. PICK S : l \in Seq(S)
      BY ListsAreExact
    <2>3. Len(l) = Cardinality(grants) /\ actualSet(l) = grants
      BY ListsAreExact
    <2> HIDE DEF canned
    <2>4. ASSUME obsBucketACLMatches(l, canned) PROVE grants = canned
      BY <2>1, <2>2, <2>3, <2>4, MatchIsExact
    <2>5. ASSUME grants = canned PROVE obsBucketACLMatches(l, canned)
      BY <2>3, <2>5 DEF obsBucketACLMatches
    <2> QED
      BY <2>4, <2>5 DEF canned
  <1> DEFINE M(a) == obsBucketACLMatches(l, CannedGrants(a, Owner))
  <1>2. \A a, b \in ACLs : M(a) /\ M(b) => a = b
    BY <1>1, CannedApart
  <1>3. Owner # "" /\ acl # ""
    BY DEF Owner, ACLs
  <1>4. flattenObsBucketCannedACL(Owner, l) =
           IF \E a \in ACLs : M(a) THEN CHOOSE a \in ACLs : M(a) ELSE ""
    BY <1>3 DEF flattenObsBucketCannedACL
  <1>5. M(acl) <=> grants = CannedGrants(acl, Owner)
    BY <1>1
  <1> HIDE DEF M
  <1>6. CASE \E a \in ACLs : M(a)
    <2>1. (CHOOSE a \in ACLs : M(a)) \in ACLs /\ M(CHOOSE a \in ACLs : M(a))
      BY <1>6
    <2> QED
      BY <2>1, <1>2, <1>4, <1>5, <1>6
  <1>7. CASE ~\E a \in ACLs : M(a)
    BY <1>3, <1>4, <1>5, <1>7
  <1> QED
    BY <1>6, <1>7

-----------------------------------------------------------------------------
(* Settings, and the steps that are about them.                            *)

Names == {"class", "acl", "versioning", "tags", "logging", "encryption"}

LEMMA StepsValue ==
    /\ Len(Steps) = 6 /\ DOMAIN Steps = 1..6
    /\ Steps[1] = "class" /\ Steps[2] = "acl" /\ Steps[3] = "versioning"
    /\ Steps[4] = "tags" /\ Steps[5] = "logging" /\ Steps[6] = "encryption"
  BY DEF Steps

(* Every setting has a step of its own.                                    *)
LEMMA StepsApart ==
    /\ \A i \in 1..6 : Steps[i] \in Names
    /\ \A i, j \in 1..6 : Steps[i] = Steps[j] => i = j
  <1>1. \A i \in 1..6 : i = 1 \/ i = 2 \/ i = 3 \/ i = 4 \/ i = 5 \/ i = 6
    OBVIOUS
  <1> QED
    BY <1>1, StepsValue DEF Names

LEMMA ValuesValue ==
    /\ DOMAIN Values = Names
    /\ Values["class"] = Classes /\ Values["acl"] = AclStates
    /\ Values["versioning"] = {"", "Enabled", "Suspended"}
    /\ Values["tags"] = Tags \cup {None} /\ Values["logging"] = Targets \cup {None}
    /\ Values["encryption"] = Keys \cup {None}
  BY DEF Values, Names

LEMMA SettingsValue ==
    Settings = [class : Classes, acl : AclStates, versioning : {"", "Enabled", "Suspended"},
                tags : Tags \cup {None}, logging : Targets \cup {None},
                encryption : Keys \cup {None}, parallelFS : BOOLEAN]
  BY DEF Settings, Values

LEMMA AskedValues ==
    ASSUME NEW o
    PROVE  /\ Asked(o, "class") = normalizeStorageClass(bucketStorageClass(o.class))
           /\ Asked(o, "acl") = CannedGrants(bucketACL(o.acl), Owner)
           /\ Asked(o, "versioning") = IF o.versioning THEN "Enabled" ELSE "Suspended"
           /\ Asked(o, "tags") = o.tags
           /\ Asked(o, "logging") = o.logging
           /\ Asked(o, "encryption") = o.encryption
  BY DEF Asked

(* The names of a storage class are those of one class only.               *)
LEMMA ClassNamesNormalize ==
    ASSUME NEW c \in Classes
    PROVE  /\ normalizeStorageClass(c) = c
           /\ ClassNames(c) # {}
           /\ \A x \in ClassNames(c) : normalizeStorageClass(x) = c
  <1>1. /\ ClassNames("STANDARD") = {"STANDARD"}
        /\ ClassNames("WARM") = {"WARM", "STANDARD_IA"}
        /\ ClassNames("COLD") = {"COLD", "GLACIER"}
    BY DEF ClassNames
  <1>2. /\ normalizeStorageClass("STANDARD") = "STANDARD"
        /\ normalizeStorageClass("WARM") = "WARM" /\ normalizeStorageClass("COLD") = "COLD"
        /\ normalizeStorageClass("STANDARD_IA") = "WARM"
        /\ normalizeStorageClass("GLACIER") = "COLD"
    BY DEF normalizeStorageClass
  <1> QED
    BY <1>1, <1>2 DEF Classes

(* The fields of a spec.                                                   *)
LEMMA SpecFields ==
    ASSUME NEW o \in Specs
    PROVE  /\ bucketStorageClass(o.class) \in Classes /\ bucketACL(o.acl) \in ACLs
           /\ o.versioning \in BOOLEAN /\ o.tags \in Tags \cup {None}
           /\ o.logging \in Targets \cup {None} /\ o.encryption \in Keys \cup {None}
           /\ o.parallelFS \in BOOLEAN
  <1>1. o \in BucketSpec
    BY ConstantAssumptions
  <1>2. /\ o.class \in Classes \cup {""} /\ o.acl \in ACLs \cup {""}
        /\ o.versioning \in BOOLEAN /\ o.tags \in Tags \cup {None}
        /\ o.logging \in Targets \cup {None} /\ o.encryption \in Keys \cup {None}
        /\ o.parallelFS \in BOOLEAN
    BY <1>1 DEF BucketSpec
  <1> QED
    BY <1>2 DEF bucketStorageClass, bucketACL, Classes, ACLs

(* Whatever a spec asks for is a value the setting may have.               *)
LEMMA AskedTyped ==
    ASSUME NEW o \in Specs, NEW s \in Names
    PROVE  Asked(o, s) \in Values[s]
  <1>1. CASE s = "class"
    BY <1>1, AskedValues, ValuesValue, SpecFields, ClassNamesNormalize
  <1>2. CASE s = "acl"
    BY <1>2, AskedValues, ValuesValue, SpecFields, CannedAreStates
  <1>3. CASE s = "versioning"
    BY <1>3, AskedValues, ValuesValue, SpecFields
  <1>4. CASE s = "tags"
    BY <1>4, AskedValues, ValuesValue, SpecFields
  <1>5. CASE s = "logging"
    BY <1>5, AskedValues, ValuesValue, SpecFields
  <1>6. CASE s = "encryption"
    BY <1>6, AskedValues, ValuesValue, SpecFields
  <1> QED
    BY <1>1, <1>2, <1>3, <1>4, <1>5, <1>6 DEF Names

(* A bucket that is there is not the missing one.                          *)
LEMMA SettingsExist ==
    ASSUME NEW r \in Settings
    PROVE  r # Missing
  <1>1. r.class \in Classes
    BY SettingsValue
  <1> QED
    BY <1>1 DEF Missing, Classes, None

(* Changing one setting changes no other.                                  *)
LEMMA OneChanged ==
    ASSUME NEW r \in Settings, NEW s \in Names, NEW v \in Values[s]
    PROVE  LET q == [r EXCEPT ![s] = v] IN
           /\ q \in Settings /\ q[s] = v /\ q.parallelFS = r.parallelFS
           /\ \A t \in Names : t # s => q[t] = r[t]
  <1> DEFINE q == [r EXCEPT ![s] = v]
  <1>1. /\ DOMAIN r = Names \cup {"parallelFS"} /\ r.class \in Classes /\ r.acl \in AclStates
        /\ r.versioning \in {"", "Enabled", "Suspended"} /\ r.tags \in Tags \cup {None}
        /\ r.logging \in Targets \cup {None} /\ r.encryption \in Keys \cup {None}
        /\ r.parallelFS \in BOOLEAN
    BY SettingsValue DEF Names
  <1>2. /\ q = [t \in Names \cup {"parallelFS"} |-> IF t = s THEN v ELSE r[t]]
    BY <1>1, SettingsValue
  <1>3. q[s] = v /\ \A t \in Names \cup {"parallelFS"} : t # s => q[t] = r[t]
    BY <1>2
  <1>4. "parallelFS" \notin Names
    BY DEF Names
  <1>5. q.parallelFS = r.parallelFS
    BY <1>3, <1>4
  <1>6. q \in Settings
    <2>1. q = [class |-> q.class, acl |-> q.acl, versioning |-> q.versioning, tags |-> q.tags,
               logging |-> q.logging, encryption |-> q.encryption, parallelFS |-> q.parallelFS]
      BY <1>2 DEF Names
    <2> HIDE DEF q
    <2>2. /\ q.class \in Classes /\ q.acl \in AclStates
          /\ q.versioning \in {"", "Enabled", "Suspended"} /\ q.tags \in Tags \cup {None}
          /\ q.logging \in Targets \cup {None} /\ q.encryption \in Keys \cup {None}
      BY <1>1, <1>3, ValuesValue DEF Names
    <2> QED
      BY <1>1, <1>5, <2>1, <2>2, SettingsValue
  <1> QED
    BY <1>3, <1>5, <1>6

(* What CreateBucket makes is a bucket.                                    *)
LEMMA CreatedTyped ==
    ASSUME NEW o \in Specs
    PROVE  Created(o) \in Settings
  BY SpecFields, CannedAreStates, SettingsValue DEF Created

(* Reading a setting and comparing it comes to one verdict, the right one,   *)
(* however OBS reports the setting.                                        *)
LEMMA ComparesExactly ==
    ASSUME remote \in Settings, want \in Specs, NEW s \in Names
    PROVE  /\ TRUE \in Same(s) => InPlace(remote, want, s)
           /\ FALSE \in Same(s) => ~InPlace(remote, want, s)
  <1>1. CASE s = "class"
    <2>1. Same(s) = {normalizeStorageClass(c) = Asked(want, s) : c \in ClassNames(remote.class)}
      BY <1>1 DEF Same
    <2>2. remote.class \in Classes
      BY SettingsValue
    <2> QED
      BY <1>1, <2>1, <2>2, ClassNamesNormalize DEF InPlace
  <1>2. CASE s = "acl"
    <2>1. Same(s) = {flattenObsBucketCannedACL(Owner, l) = bucketACL(want.acl) :
                     l \in GrantLists(remote.acl)}
      BY <1>2 DEF Same
    <2>2. remote.acl \in AclStates /\ bucketACL(want.acl) \in ACLs
      BY SettingsValue, SpecFields
    <2>3. \A l \in GrantLists(remote.acl) :
             flattenObsBucketCannedACL(Owner, l) = bucketACL(want.acl)
                <=> remote.acl = CannedGrants(bucketACL(want.acl), Owner)
      BY <2>2, RecognisedExactly
    <2> QED
      BY <1>2, <2>1, <2>3, AskedValues DEF InPlace
  <1>3. CASE s \notin {"class", "acl"}
    BY <1>3 DEF Same, InPlace
  <1> QED
    BY <1>1, <1>2, <1>3

-----------------------------------------------------------------------------
(* Every variable has its type.                                            *)

LEMMA FinishTyped ==
    ASSUME TypeOK, NEW r \in {"nil", "Transient", "NotFound", "Rejected"}, Finish(r)
    PROVE  /\ pending' \in BOOLEAN /\ place' = "idle" /\ step' = 1 /\ result' = r
  BY DEF TypeOK, Finish

LEMMA AdvanceTyped ==
    ASSUME TypeOK, Advance
    PROVE  /\ pending' = pending /\ result' = result
           /\ \/ step = 6 /\ step' = 6 /\ place' = "reobserve"
              \/ step < 6 /\ step' = step + 1 /\ place' = "get"
  BY StepsValue DEF TypeOK, Advance

LEMMA SpendTyped ==
    ASSUME TypeOK, NEW k \in Kinds, Spend(k)
    PROVE  budget' \in [Kinds -> Nat]
  BY DEF TypeOK, Spend

(* What a read or a set leaves of the worker.                              *)
Control ==
    /\ place \in {"idle", "create", "get", "set", "reobserve"} /\ step \in 1..6
    /\ result \in {None, "nil", "Transient", "NotFound", "Rejected"}
    /\ pending \in BOOLEAN /\ budget \in [Kinds -> Nat]

LEMMA ControlTyped ==
    ASSUME TypeOK
    PROVE  Control
  BY StepsValue DEF TypeOK, Control

LEMMA FinishControl ==
    ASSUME TypeOK, NEW r \in {"nil", "Transient", "NotFound", "Rejected"}, Finish(r),
           budget' \in [Kinds -> Nat]
    PROVE  Control'
  BY FinishTyped DEF Control

LEMMA AdvanceControl ==
    ASSUME TypeOK, Advance, budget' \in [Kinds -> Nat]
    PROVE  Control'
  BY AdvanceTyped, ControlTyped DEF Control

LEMMA FaultSpent ==
    ASSUME TypeOK, Spend("fault")
    PROVE  budget' \in [Kinds -> Nat]
  BY SpendTyped DEF Kinds

LEMMA BudgetKept ==
    ASSUME TypeOK, UNCHANGED budget
    PROVE  budget' \in [Kinds -> Nat]
  BY DEF TypeOK

LEMMA GetControl ==
    ASSUME TypeOK, NEW s \in Names, Get(s)
    PROVE  Control'
  <1>1. CASE Advance /\ UNCHANGED budget
    BY <1>1, AdvanceControl, BudgetKept
  <1>2. CASE place' = "set" /\ UNCHANGED <<step, pending, result, budget>>
    BY <1>2, ControlTyped DEF Control
  <1>3. CASE Finish("NotFound") /\ UNCHANGED budget
    BY <1>3, FinishControl, BudgetKept
  <1>4. CASE Spend("fault") /\ Finish("Transient")
    BY <1>4, FinishControl, FaultSpent
  <1> QED
    BY <1>1, <1>2, <1>3, <1>4 DEF Get

LEMMA SetControl ==
    ASSUME TypeOK, NEW s \in Names, Set(s)
    PROVE  Control'
  <1>1. CASE Advance /\ UNCHANGED budget
    BY <1>1, AdvanceControl, BudgetKept
  <1>2. CASE Finish("Rejected") /\ UNCHANGED budget
    BY <1>2, FinishControl, BudgetKept
  <1>3. CASE Finish("NotFound") /\ UNCHANGED budget
    BY <1>3, FinishControl, BudgetKept
  <1>4. CASE Spend("fault") /\ Finish("Transient")
    BY <1>4, FinishControl, FaultSpent
  <1> QED
    BY <1>1, <1>2, <1>3, <1>4 DEF Set

(* A set call changes the setting of its step, or nothing.                  *)
LEMMA SetRemote ==
    ASSUME TypeOK, NEW s \in Names, Set(s)
    PROVE  /\ UNCHANGED <<spec, want, start, disturbed, goneAt>>
           /\ \/ remote' = remote
              \/ /\ remote \in Settings
                 /\ remote' = [remote EXCEPT ![s] = Asked(want, s)]
           /\ remote' \in Settings \cup {Missing}
  <1>1. remote' = remote \/ (Exists /\ remote' = [remote EXCEPT ![s] = Asked(want, s)])
    BY DEF Set
  <1>2. remote \in Settings \cup {Missing} /\ want \in Specs
    BY DEF TypeOK
  <1>3. ASSUME Exists PROVE remote \in Settings
    BY <1>2, <1>3 DEF Exists
  <1>4. UNCHANGED <<spec, want, start, disturbed, goneAt>>
    BY DEF Set, history
  <1> QED
    BY <1>1, <1>2, <1>3, <1>4, AskedTyped, OneChanged

LEMMA GetRest ==
    ASSUME NEW s \in Names, Get(s)
    PROVE  UNCHANGED <<spec, remote, want, start, disturbed, goneAt>>
  BY DEF Get, history

(* The steps of update are reads and sets of the six settings.              *)
LEMMA UpdateSteps ==
    ASSUME update
    PROVE  \E s \in Names : Get(s) \/ Set(s)
  BY DEF update, Names, reconcileBucketStorageClass, reconcileBucketACL,
         reconcileBucketVersioning, reconcileBucketTags, reconcileBucketLogging,
         reconcileBucketEncryption

(* The rest of the type invariant.                                         *)
Data ==
    /\ spec \in Specs /\ want \in Specs
    /\ remote \in Settings \cup {Missing} /\ start \in Settings \cup {Missing}
    /\ disturbed \in BOOLEAN /\ goneAt \in 0..7

LEMMA TypeSplit ==
    /\ TypeOK <=> Control /\ Data
    /\ TypeOK' <=> Control' /\ Data'
  BY StepsValue DEF TypeOK, Control, Data

LEMMA TypeStep ==
    ASSUME TypeOK, [Next]_vars
    PROVE  TypeOK'
  <1>1. Control /\ Data
    BY TypeSplit
  <1>2. CASE Begin
    <2>1. Control'
      BY <1>1, <1>2 DEF Begin, Control
    <2>2. Data'
      <3>1. disturbed' \in BOOLEAN
        BY <1>2, Zenon DEF Begin
      <3>2. goneAt' \in 0..7
        BY <1>2 DEF Begin
      <3> QED
        BY <1>1, <1>2, <3>1, <3>2, Zenon DEF Begin, Data
    <2> QED
      BY <2>1, <2>2, TypeSplit
  <1>3. CASE create
    <2>1. Data'
      BY <1>1, <1>3, CreatedTyped DEF create, Data
    <2>2. Control'
      <3>1. CASE place' = "get" /\ UNCHANGED <<step, pending, result, budget>>
        BY <1>1, <3>1 DEF Control
      <3>2. CASE Spend("fault") /\ Finish("Transient")
        BY <3>2, FinishControl, FaultSpent
      <3> QED
        BY <1>3, <3>1, <3>2 DEF create
    <2> QED
      BY <2>1, <2>2, TypeSplit
  <1>4. CASE update
    <2>1. PICK s \in Names : Get(s) \/ Set(s)
      BY <1>4, UpdateSteps
    <2>2. CASE Get(s)
      BY <1>1, <2>2, GetControl, GetRest, TypeSplit DEF Data
    <2>3. CASE Set(s)
      BY <1>1, <2>3, SetControl, SetRemote, TypeSplit DEF Data
    <2> QED
      BY <2>1, <2>2, <2>3
  <1>5. CASE observeAgain
    <2>1. Data'
      BY <1>1, <1>5 DEF observeAgain, Data, history
    <2>2. Control'
      <3>1. CASE Finish("nil") /\ UNCHANGED budget
        BY <3>1, FinishControl, BudgetKept
      <3>2. CASE Spend("fault") /\ Finish("Transient")
        BY <3>2, FinishControl, FaultSpent
      <3> QED
        BY <1>5, <3>1, <3>2 DEF observeAgain
    <2> QED
      BY <2>1, <2>2, TypeSplit
  <1>6. CASE Edit
    <2>1. budget' \in [Kinds -> Nat]
      BY <1>6, SpendTyped DEF Edit, Kinds
    <2> QED
      BY <1>1, <1>6, <2>1, TypeSplit DEF Edit, Control, Data, history
  <1>7. CASE Drift
    <2>1. budget' \in [Kinds -> Nat]
      BY <1>7, SpendTyped DEF Drift, Kinds
    <2>2. remote \in Settings
      BY <1>1, <1>7 DEF Drift, Exists, Data
    <2>3. remote' \in Settings
      <3>1. PICK s \in Names : \E v \in Values[s] : remote' = [remote EXCEPT ![s] = v]
        BY <1>7, ValuesValue DEF Drift
      <3>2. PICK v \in Values[s] : remote' = [remote EXCEPT ![s] = v]
        BY <3>1
      <3> QED
        BY <2>2, <3>2, OneChanged
    <2> QED
      BY <1>1, <1>7, <2>1, <2>3, TypeSplit DEF Drift, Control, Data
  <1>8. CASE Vanish
    <2>1. budget' \in [Kinds -> Nat]
      BY <1>8, SpendTyped DEF Vanish, Kinds
    <2>2. goneAt' \in 0..7
      <3>1. goneAt' = step \/ goneAt' = 7 \/ goneAt' = goneAt
        BY <1>8, StepsValue DEF Vanish
      <3> QED
        BY <1>1, <3>1 DEF Control, Data
    <2> QED
      BY <1>1, <1>8, <2>1, <2>2, TypeSplit DEF Vanish, Control, Data
  <1>9. CASE Restart
    <2>1. budget' \in [Kinds -> Nat]
      BY <1>9, SpendTyped DEF Restart, Kinds
    <2> QED
      BY <1>1, <1>9, <2>1, TypeSplit DEF Restart, Control, Data, history
  <1>10. CASE UNCHANGED vars
    BY <1>1, <1>10, TypeSplit DEF vars, Control, Data, history
  <1> QED
    BY <1>2, <1>3, <1>4, <1>5, <1>6, <1>7, <1>8, <1>9, <1>10 DEF Next

LEMMA TypeInit ==
    ASSUME Init
    PROVE  TypeOK
  <1>1. Control
    BY ConstantAssumptions DEF Init, Control, None
  <1>2. Data
    <2>1. disturbed \in BOOLEAN
      BY Zenon DEF Init
    <2>2. goneAt \in 0..7
      BY DEF Init
    <2>3. spec \in Specs /\ want \in Specs
      BY DEF Init
    <2>4. remote \in {Missing} /\ start \in {Missing}
      BY DEF Init
    <2> QED
      BY <2>1, <2>2, <2>3, <2>4, Zenon DEF Data
  <1> QED
    BY <1>1, <1>2, TypeSplit

(* Every variable keeps its type; above all the settings of the OBS bucket   *)
(* stay settings OBS can have, whatever update sets and others change.      *)
THEOREM SettingsTyped == Spec => []TypeOK
  <1>1. Init => TypeOK
    BY TypeInit
  <1>2. TypeOK /\ [Next]_vars => TypeOK'
    BY TypeStep
  <1> QED
    BY <1>1, <1>2, PTL DEF Spec

-----------------------------------------------------------------------------
(* A pass that nobody interferes with.                                     *)

Updating == place \in {"get", "set"}

(* The OBS bucket is there throughout update.                              *)
There == Updating \/ place = "reobserve" => remote \in Settings /\ start \in Settings

(* The settings behind the step are in place, those ahead as found.          *)
Behind == Updating => \A i \in 1..6 : i < step => InPlace(remote, want, Steps[i])
Ahead  == Updating => \A i \in 1..6 : i >= step => remote[Steps[i]] = start[Steps[i]]

(* What is about to be set was found to differ.                            *)
Differs == place = "set" => ~InPlace(remote, want, Steps[step])

(* After the last step all settings are in place, until the next pass.       *)
Done ==
    place = "reobserve" \/ (place = "idle" /\ result = "nil") =>
        remote \in Settings /\ \A i \in 1..6 : InPlace(remote, want, Steps[i])

(* Every pass begins with the first step, and creates only what is missing. *)
FromTheFirst ==
    /\ place \in {"idle", "create"} => step = 1
    /\ place = "create" => remote = Missing /\ goneAt = 0

Undisturbed == ~disturbed => There /\ Behind /\ Ahead /\ Differs /\ Done

(* A pass over a bucket that vanished: from the step in which it did, only   *)
(* the one that reads the tags leads on to another, the next; and only the  *)
(* last one, with no encryption asked for, leads to the end.                *)
Vanished ==
    goneAt # 0 =>
        /\ Updating => /\ remote = Missing
                       /\ goneAt = step \/ (goneAt = 4 /\ step = 5)
        /\ place = "reobserve" => /\ remote = Missing
                                  /\ goneAt = 7 \/ (goneAt = 6 /\ want.encryption = None)
        /\ place = "idle" /\ result = "nil" =>
              goneAt = 7 \/ (goneAt = 6 /\ want.encryption = None)

PassSound == FromTheFirst /\ Undisturbed /\ Vanished

(* A pass that ends in an error owes nothing.                              *)
LEMMA FailedPass ==
    ASSUME TypeOK, NEW r \in {"Transient", "NotFound", "Rejected"}, Finish(r)
    PROVE  (FromTheFirst /\ Undisturbed /\ Vanished)'
  <1>1. place' = "idle" /\ step' = 1 /\ result' = r
    BY FinishTyped
  <1>2. FromTheFirst'
    BY <1>1 DEF FromTheFirst
  <1>3. Undisturbed'
    BY <1>1 DEF Undisturbed, There, Behind, Ahead, Differs, Done, Updating
  <1>4. Vanished'
    BY <1>1 DEF Vanished, Updating
  <1> QED
    BY <1>2, <1>3, <1>4

(* A step that ends with its setting in place, and the others as they were,  *)
(* leaves a prefix done.                                                   *)
LEMMA AdvanceUndisturbed ==
    ASSUME TypeOK, Undisturbed, Updating, Advance, ~disturbed,
           UNCHANGED <<want, start, disturbed>>,
           remote' \in Settings, InPlace(remote', want, Steps[step]),
           \A t \in Names : t # Steps[step] => remote'[t] = remote[t]
    PROVE  Undisturbed'
  <1>1. step \in 1..6 /\ Control
    BY ControlTyped DEF Control
  <1>2. \/ step = 6 /\ step' = 6 /\ place' = "reobserve"
        \/ step < 6 /\ step' = step + 1 /\ place' = "get"
    BY AdvanceTyped
  <1>3. /\ start \in Settings
        /\ \A i \in 1..6 : i < step => InPlace(remote, want, Steps[i])
        /\ \A i \in 1..6 : i >= step => remote[Steps[i]] = start[Steps[i]]
    BY DEF Undisturbed, There, Behind, Ahead
  <1>4. \A i \in 1..6 : i # step => remote'[Steps[i]] = remote[Steps[i]]
    BY <1>1, StepsApart
  <1>5. \A i \in 1..6 : i <= step => InPlace(remote', want', Steps[i])
    <2>1. \A i \in 1..6 : i < step => InPlace(remote', want', Steps[i])
      BY <1>1, <1>3, <1>4 DEF InPlace
    <2> QED
      BY <1>1, <2>1
  <1>6. \A i \in 1..6 : i > step => remote'[Steps[i]] = start'[Steps[i]]
    BY <1>1, <1>3, <1>4
  <1>7. There'
    BY <1>3 DEF There
  <1>8. Behind'
    BY <1>1, <1>2, <1>5 DEF Behind, Updating
  <1>9. Ahead'
    BY <1>1, <1>2, <1>6 DEF Ahead, Updating
  <1>10. Differs'
    BY <1>2 DEF Differs
  <1>11. Done'
    BY <1>1, <1>2, <1>5 DEF Done
  <1> QED
    BY <1>7, <1>8, <1>9, <1>10, <1>11 DEF Undisturbed

(* A step over a bucket that is gone leads on only if it takes "not found"   *)
(* for "nothing configured", and nothing is asked for.                      *)
LEMMA AdvanceVanished ==
    ASSUME TypeOK, Vanished, Updating, Advance, UNCHANGED <<want, goneAt>>,
           goneAt # 0 => /\ remote' = Missing
                         /\ Steps[step] \in NotFoundIsEmpty /\ Asked(want, Steps[step]) = None
    PROVE  Vanished'
  <1>1. CASE goneAt = 0
    BY <1>1 DEF Vanished
  <1>2. CASE goneAt # 0
    <2>1. step \in 1..6 /\ goneAt \in 0..7
      BY StepsValue DEF TypeOK
    <2>2. \/ step = 6 /\ step' = 6 /\ place' = "reobserve"
          \/ step < 6 /\ step' = step + 1 /\ place' = "get"
      BY AdvanceTyped
    <2>3. step = 4 \/ step = 6
      BY <1>2, <2>1, StepsApart, StepsValue DEF NotFoundIsEmpty
    <2>4. goneAt = step
      BY <1>2, <2>3 DEF Vanished
    <2>5. step = 6 => want.encryption = None
      BY <1>2, StepsValue, AskedValues
    <2> QED
      BY <1>2, <2>2, <2>3, <2>4, <2>5 DEF Vanished, Updating
  <1> QED
    BY <1>1, <1>2

LEMMA AdvanceFromTheFirst ==
    ASSUME TypeOK, Advance
    PROVE  FromTheFirst'
  BY AdvanceTyped DEF FromTheFirst

LEMMA GetSound ==
    ASSUME TypeOK, PassSound, NEW s \in Names, Get(s)
    PROVE  PassSound'
  <1>1. /\ Updating /\ place = "get" /\ Steps[step] = s /\ step \in 1..6
        /\ FromTheFirst /\ Undisturbed /\ Vanished
    BY StepsValue DEF Get, Updating, PassSound, TypeOK
  <1>2. UNCHANGED <<spec, remote, want, start, disturbed, goneAt>>
    BY GetRest
  <1>3. want \in Specs /\ remote \in Settings \cup {Missing}
    BY DEF TypeOK
  <1>4. ~disturbed => remote \in Settings
    BY <1>1 DEF Undisturbed, There
  <1>5. goneAt # 0 => remote = Missing
    BY <1>1 DEF Vanished
  <1>6. CASE Exists /\ TRUE \in Same(s) /\ Advance
    <2>1. remote \in Settings
      BY <1>3, <1>6 DEF Exists
    <2>2. InPlace(remote, want, s)
      BY <1>3, <1>6, <2>1, ComparesExactly
    <2>3. ~disturbed => Undisturbed'
      BY <1>1, <1>2, <1>6, <2>1, <2>2, AdvanceUndisturbed
    <2>4. disturbed => Undisturbed'
      BY <1>2 DEF Undisturbed
    <2>5. goneAt = 0
      BY <1>5, <1>6 DEF Exists
    <2>6. Vanished'
      BY <1>1, <1>2, <1>6, <2>5, AdvanceVanished
    <2> QED
      BY <1>6, <2>3, <2>4, <2>6, AdvanceFromTheFirst DEF PassSound
  <1>7. CASE ~Exists /\ s \in NotFoundIsEmpty /\ Asked(want, s) = None /\ Advance
    <2>1. remote = Missing
      BY <1>7 DEF Exists
    <2>2. disturbed
      BY <1>4, <2>1, SettingsExist
    <2>3. Undisturbed'
      BY <1>2, <2>2 DEF Undisturbed
    <2>4. Vanished'
      BY <1>1, <1>2, <1>7, <2>1, AdvanceVanished
    <2> QED
      BY <1>7, <2>3, <2>4, AdvanceFromTheFirst DEF PassSound
  <1>8. CASE /\ Exists /\ FALSE \in Same(s)
             /\ place' = "set" /\ UNCHANGED <<step, pending, result, budget>>
    <2>1. remote \in Settings
      BY <1>3, <1>8 DEF Exists
    <2>2. ~InPlace(remote, want, s)
      BY <1>3, <1>8, <2>1, ComparesExactly
    <2>3. Undisturbed'
      <3>1. Differs' /\ Done' /\ Updating'
        BY <1>1, <1>2, <1>8, <2>2 DEF Differs, Done, Updating, InPlace
      <3>2. ~disturbed => There' /\ Behind' /\ Ahead'
        BY <1>1, <1>2, <1>8, <3>1 DEF Undisturbed, There, Behind, Ahead, InPlace
      <3> QED
        BY <1>2, <3>1, <3>2 DEF Undisturbed
    <2>4. goneAt = 0
      BY <1>5, <1>8 DEF Exists
    <2>5. FromTheFirst' /\ Vanished'
      BY <1>2, <1>8, <2>4 DEF FromTheFirst, Vanished
    <2> QED
      BY <2>3, <2>5 DEF PassSound
  <1>9. CASE /\ ~Exists /\ place' = "set" /\ UNCHANGED <<step, pending, result>>
    <2>1. remote = Missing
      BY <1>9 DEF Exists
    <2>2. disturbed
      BY <1>4, <2>1, SettingsExist
    <2>3. Undisturbed' /\ FromTheFirst'
      BY <1>2, <1>9, <2>2 DEF Undisturbed, FromTheFirst
    <2>4. Vanished'
      BY <1>1, <1>2, <1>9, <2>1 DEF Vanished, Updating
    <2> QED
      BY <2>3, <2>4 DEF PassSound
  <1>10. CASE Finish("NotFound") \/ Finish("Transient")
    BY <1>10, FailedPass DEF PassSound
  <1> QED
    BY <1>6, <1>7, <1>8, <1>9, <1>10 DEF Get

LEMMA SetSound ==
    ASSUME TypeOK, PassSound, NEW s \in Names, Set(s)
    PROVE  PassSound'
  <1>1. /\ Updating /\ place = "set" /\ Steps[step] = s /\ step \in 1..6
        /\ FromTheFirst /\ Undisturbed /\ Vanished
    BY StepsValue DEF Set, Updating, PassSound, TypeOK
  <1>2. UNCHANGED <<spec, want, start, disturbed, goneAt>>
    BY SetRemote
  <1>3. want \in Specs /\ remote \in Settings \cup {Missing}
    BY DEF TypeOK
  <1>4. ~disturbed => remote \in Settings
    BY <1>1 DEF Undisturbed, There
  <1>5. goneAt # 0 => remote = Missing
    BY <1>1 DEF Vanished
  <1>6. CASE Exists /\ remote' = [remote EXCEPT ![s] = Asked(want, s)] /\ Advance
    <2>1. remote \in Settings
      BY <1>3, <1>6 DEF Exists
    <2>2. /\ remote' \in Settings /\ remote'[s] = Asked(want, s)
          /\ \A t \in Names : t # s => remote'[t] = remote[t]
      <3>1. Asked(want, s) \in Values[s]
        BY <1>3, AskedTyped
      <3> DEFINE v == Asked(want, s)
      <3> HIDE DEF v
      <3>2. /\ [remote EXCEPT ![s] = v] \in Settings /\ [remote EXCEPT ![s] = v][s] = v
            /\ \A t \in Names : t # s => [remote EXCEPT ![s] = v][t] = remote[t]
        BY <2>1, <3>1, OneChanged DEF v
      <3> QED
        BY <1>6, <3>2 DEF v
    <2>3. InPlace(remote', want, s)
      BY <2>2 DEF InPlace
    <2>4. ~disturbed => Undisturbed'
      BY <1>1, <1>2, <1>6, <2>2, <2>3, AdvanceUndisturbed
    <2>5. disturbed => Undisturbed'
      BY <1>2 DEF Undisturbed
    <2>6. goneAt = 0
      BY <1>5, <1>6 DEF Exists
    <2>7. Vanished'
      BY <1>1, <1>2, <1>6, <2>6, AdvanceVanished
    <2> QED
      BY <1>6, <2>4, <2>5, <2>7, AdvanceFromTheFirst DEF PassSound
  <1>7. CASE /\ ~Exists /\ UNCHANGED remote
             /\ s \in NotFoundIsEmpty /\ Asked(want, s) = None /\ Advance
    <2>1. remote = Missing
      BY <1>7 DEF Exists
    <2>2. disturbed
      BY <1>4, <2>1, SettingsExist
    <2>3. Undisturbed'
      BY <1>2, <2>2 DEF Undisturbed
    <2>4. Vanished'
      BY <1>1, <1>2, <1>7, <2>1, AdvanceVanished
    <2> QED
      BY <1>7, <2>3, <2>4, AdvanceFromTheFirst DEF PassSound
  <1>8. CASE Finish("NotFound") \/ Finish("Transient") \/ Finish("Rejected")
    BY <1>8, FailedPass DEF PassSound
  <1> QED
    BY <1>6, <1>7, <1>8 DEF Set

LEMMA BeginSound ==
    ASSUME TypeOK, PassSound, Begin
    PROVE  PassSound'
  <1>1. place = "idle" /\ step = 1 /\ remote \in Settings \cup {Missing}
    BY DEF Begin, PassSound, FromTheFirst, TypeOK
  <1>2. /\ step' = 1 /\ remote' = remote /\ start' = remote /\ goneAt' = 0
        /\ \/ remote \in Settings /\ place' = "get"
           \/ remote = Missing /\ place' = "create"
    BY <1>1 DEF Begin, Exists
  <1>3. FromTheFirst' /\ Vanished'
    BY <1>2 DEF FromTheFirst, Vanished
  <1>4. There' /\ Differs' /\ Done'
    BY <1>2 DEF There, Differs, Done, Updating
  <1>5. Behind' /\ Ahead'
    BY <1>2 DEF Behind, Ahead
  <1> QED
    BY <1>3, <1>4, <1>5 DEF PassSound, Undisturbed

LEMMA CreateSound ==
    ASSUME TypeOK, PassSound, create
    PROVE  PassSound'
  <1>1. CASE Finish("Transient")
    BY <1>1, FailedPass DEF PassSound
  <1>2. CASE remote' = Created(want) /\ start' = Created(want) /\ place' = "get" /\ UNCHANGED step
    <2>1. step' = 1 /\ goneAt' = 0
      BY <1>2 DEF create, PassSound, FromTheFirst
    <2>2. remote' \in Settings /\ start' = remote'
      BY <1>2, CreatedTyped DEF TypeOK
    <2>3. FromTheFirst' /\ Vanished'
      BY <1>2, <2>1 DEF FromTheFirst, Vanished
    <2>4. There' /\ Differs' /\ Done'
      BY <1>2, <2>2 DEF There, Differs, Done
    <2>5. Behind' /\ Ahead'
      BY <2>1, <2>2 DEF Behind, Ahead
    <2> QED
      BY <2>3, <2>4, <2>5 DEF PassSound, Undisturbed
  <1> QED
    BY <1>1, <1>2 DEF create

LEMMA ObserveSound ==
    ASSUME TypeOK, PassSound, observeAgain
    PROVE  PassSound'
  <1>1. CASE Finish("Transient")
    BY <1>1, FailedPass DEF PassSound
  <1>2. CASE Finish("nil")
    <2>1. /\ place = "reobserve" /\ place' = "idle" /\ step' = 1
          /\ UNCHANGED <<remote, want, disturbed, goneAt>>
      BY <1>2, FinishTyped DEF observeAgain, history
    <2>2. FromTheFirst'
      BY <2>1 DEF FromTheFirst
    <2>3. Vanished'
      BY <2>1 DEF PassSound, Vanished, Updating
    <2>4. There' /\ Behind' /\ Ahead' /\ Differs'
      BY <2>1 DEF There, Behind, Ahead, Differs, Updating
    <2>5. ~disturbed => Done'
      BY <2>1 DEF PassSound, Undisturbed, Done, InPlace
    <2> QED
      BY <2>1, <2>2, <2>3, <2>4, <2>5 DEF PassSound, Undisturbed
  <1> QED
    BY <1>1, <1>2 DEF observeAgain

LEMMA EnvironmentSound ==
    ASSUME TypeOK, PassSound, Edit \/ Drift \/ Vanish \/ Restart \/ UNCHANGED vars
    PROVE  PassSound'
  <1>1. FromTheFirst /\ Undisturbed /\ Vanished
    BY DEF PassSound
  <1>2. CASE Edit \/ UNCHANGED vars
    <2>1. UNCHANGED <<remote, place, step, want, result, start, disturbed, goneAt>>
      BY <1>2 DEF Edit, vars, history
    <2>2. FromTheFirst' /\ Vanished'
      BY <1>1, <2>1 DEF FromTheFirst, Vanished, Updating
    <2>3. ~disturbed => There' /\ Behind' /\ Ahead' /\ Differs' /\ Done'
      BY <1>1, <2>1 DEF Undisturbed, There, Behind, Ahead, Differs, Done, Updating, InPlace
    <2> QED
      BY <2>1, <2>2, <2>3 DEF PassSound, Undisturbed
  <1>3. CASE Drift
    <2>1. /\ UNCHANGED <<place, step, want, result, goneAt>> /\ disturbed'
          /\ remote # Missing
      BY <1>3 DEF Drift, Exists
    <2>2. FromTheFirst' /\ Vanished'
      BY <1>1, <2>1 DEF FromTheFirst, Vanished, Updating
    <2> QED
      BY <2>1, <2>2 DEF PassSound, Undisturbed
  <1>4. CASE Vanish
    <2>1. /\ UNCHANGED <<place, step, want, result>> /\ disturbed'
          /\ remote # Missing /\ remote' = Missing
      BY <1>4 DEF Vanish, Exists
    <2>2. /\ Updating => goneAt' = step
          /\ place = "reobserve" => goneAt' = 7
          /\ ~Updating /\ place # "reobserve" => goneAt' = goneAt
      BY <1>4, StepsValue DEF Vanish, Updating
    <2>3. FromTheFirst'
      BY <1>1, <2>1 DEF FromTheFirst
    <2>4. Vanished'
      BY <1>1, <2>1, <2>2 DEF Vanished, Updating
    <2> QED
      BY <2>1, <2>3, <2>4 DEF PassSound, Undisturbed
  <1>5. CASE Restart
    <2>1. place' = "idle" /\ step' = 1 /\ result' # "nil"
      BY <1>5 DEF Restart, None
    <2>2. FromTheFirst' /\ Vanished'
      BY <2>1 DEF FromTheFirst, Vanished, Updating
    <2>3. There' /\ Behind' /\ Ahead' /\ Differs' /\ Done'
      BY <2>1 DEF There, Behind, Ahead, Differs, Done, Updating
    <2> QED
      BY <2>2, <2>3 DEF PassSound, Undisturbed
  <1> QED
    BY <1>2, <1>3, <1>4, <1>5

LEMMA PassStep ==
    ASSUME TypeOK, PassSound, [Next]_vars
    PROVE  PassSound'
  <1>1. CASE update
    BY <1>1, UpdateSteps, GetSound, SetSound
  <1>2. CASE Begin \/ create \/ observeAgain
    BY <1>2, BeginSound, CreateSound, ObserveSound
  <1>3. CASE Edit \/ Drift \/ Vanish \/ Restart \/ UNCHANGED vars
    BY <1>3, EnvironmentSound
  <1> QED
    BY <1>1, <1>2, <1>3 DEF Next

LEMMA PassInit ==
    ASSUME Init
    PROVE  PassSound
  <1>1. place = "idle" /\ step = 1 /\ result # "nil" /\ goneAt = 0
    BY DEF Init, None
  <1>2. There /\ Behind /\ Ahead /\ Differs /\ Done
    BY <1>1 DEF There, Behind, Ahead, Differs, Done, Updating
  <1> QED
    BY <1>1, <1>2 DEF PassSound, FromTheFirst, Undisturbed, Vanished

(* The inductive invariant.                                                *)
LEMMA PassAlwaysSound == Spec => [](TypeOK /\ PassSound)
  <1>1. Init => TypeOK /\ PassSound
    BY TypeInit, PassInit
  <1>2. TypeOK /\ PassSound /\ [Next]_vars => (TypeOK /\ PassSound)'
    BY TypeStep, PassStep
  <1> QED
    BY <1>1, <1>2, PTL DEF Spec

(* While update is under way undisturbed, the settings of the steps behind   *)
(* it are in place and those ahead are as it found them.                   *)
THEOREM PrefixIsDone == Spec => []PrefixDone
  <1>1. TypeOK /\ PassSound => PrefixDone
    <2> SUFFICES ASSUME TypeOK, PassSound, place \in {"get", "set"}, ~disturbed
                 PROVE  /\ \A i \in 1..(step - 1) : InPlace(remote, want, Steps[i])
                        /\ \A i \in step..Len(Steps) : remote[Steps[i]] = start[Steps[i]]
      BY DEF PrefixDone
    <2>1. step \in 1..6 /\ Len(Steps) = 6
      BY StepsValue DEF TypeOK
    <2>2. Behind /\ Ahead /\ Updating
      BY DEF PassSound, Undisturbed, Updating
    <2> QED
      BY <2>1, <2>2 DEF Behind, Ahead
  <1> QED
    BY <1>1, PassAlwaysSound, PTL

(* A pass that returned no error and that nobody interfered with leaves an   *)
(* OBS bucket with every setting of the spec it read.                      *)
THEOREM PassEndsConforming == Spec => []PassConforms
  <1>1. TypeOK /\ PassSound => PassConforms
    BY StepsValue, SettingsExist DEF PassSound, Undisturbed, Done, PassConforms, Conforms
  <1> QED
    BY <1>1, PassAlwaysSound, PTL

(* The worker sets nothing that was as asked when it began, whichever name   *)
(* OBS uses for the class and however it lists and spells the grants.       *)
THEOREM NothingSetTwice == Spec => []SetsOnlyDifferences
  <1>1. TypeOK /\ PassSound => SetsOnlyDifferences
    <2> SUFFICES ASSUME TypeOK, PassSound, place = "set", ~disturbed
                 PROVE  ~InPlace(start, want, Steps[step])
      BY DEF SetsOnlyDifferences
    <2>1. step \in 1..6
      BY StepsValue DEF TypeOK
    <2>2. Ahead /\ Differs /\ Updating
      BY DEF PassSound, Undisturbed, Updating
    <2>3. remote[Steps[step]] = start[Steps[step]]
      BY <2>1, <2>2 DEF Ahead
    <2> QED
      BY <2>2, <2>3 DEF Differs, InPlace
  <1> QED
    BY <1>1, PassAlwaysSound, PTL

(* A pass over a bucket that vanished ends in an error, unless it vanished   *)
(* in the very last step with no encryption asked for, or after it.         *)
THEOREM VanishingIsNoticed == Spec => []MissingNoticed
  <1>1. TypeOK /\ PassSound => MissingNoticed
    <2> SUFFICES ASSUME TypeOK, PassSound, place = "idle", result = "nil", goneAt # 0
                 PROVE  \/ goneAt = Len(Steps) /\ want.encryption = None
                        \/ goneAt > Len(Steps)
      BY DEF MissingNoticed
    <2>1. goneAt = 7 \/ (goneAt = 6 /\ want.encryption = None)
      BY DEF PassSound, Vanished
    <2> QED
      BY <2>1, StepsValue
  <1> QED
    BY <1>1, PassAlwaysSound, PTL
=============================================================================
