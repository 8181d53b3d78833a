--------------------------- MODULE DecisionProofs ---------------------------
(***************************************************************************)
(* The decisions taken from grants, endpoints, Secrets and errors are right *)
(* for lists of any length, for any set of hosts, for texts of any length   *)
(* over any alphabet, and for OBS answers of any status and code.           *)
(***************************************************************************)
EXTENDS Decisions, BucketAclProofs, WellFoundedInduction

-----------------------------------------------------------------------------
(* Canned ACLs.                                                            *)

(* normalizeObsBucketGrantURI undoes the spelling: the URI of a User grant   *)
(* is left out, that of a Group grant is its last segment.                 *)
LEMMA SpelledUser ==
    ASSUME NEW i, NEW p, NEW d, NEW s \in Spellings(Signature("User", i, "", p, d))
    PROVE  signatureOf(s) = Signature("User", i, "", p, d)
  <1> DEFINE g == Signature("User", i, "", p, d)
  <1>1. g.type = "User" /\ g.id = i
    BY DEF Signature
  <1>2. \E u : s = [g EXCEPT !.uri = u]
    <2> HIDE DEF g
    <2> QED
      BY <1>1 DEF Spellings, g
  <1>3. PICK u : s = [g EXCEPT !.uri = u]
    BY <1>2
  <1>4. s.type = "User" /\ s.id = i /\ s.permission = p /\ s.delivered = d
    BY <1>3 DEF Signature
  <1> QED
    BY <1>4 DEF signatureOf, normalizeObsBucketGrantURI

LEMMA SpelledGroup ==
    ASSUME NEW i, NEW u, NEW p, NEW d, NEW s \in Spellings(Signature("Group", i, u, p, d))
    PROVE  signatureOf(s) = Signature("Group", i, u, p, d)
  <1> DEFINE g == Signature("Group", i, u, p, d)
  <1>1. g.type # "User" /\ g.uri = u
    BY DEF Signature
  <1>2. s = [g EXCEPT !.uri = <<g.uri>>] \/ s = [g EXCEPT !.uri = <<"groups", "global", g.uri>>]
    <2> HIDE DEF g
    <2> QED
      BY <1>1 DEF Spellings, g
  <1>3. /\ s.type = "Group" /\ s.id = i /\ s.permission = p /\ s.delivered = d
        /\ s.uri = <<u>> \/ s.uri = <<"groups", "global", u>>
    BY <1>1, <1>2 DEF Signature
  <1>4. s.uri # <<>> /\ s.uri[Len(s.uri)] = u
    <2>1. CASE s.uri = <<u>>
      BY <2>1
    <2>2. CASE s.uri = <<"groups", "global", u>>
      BY <2>2
    <2> QED
      BY <2>1, <2>2, <1>3
  <1> QED
    BY <1>3, <1>4 DEF signatureOf, normalizeObsBucketGrantURI

(* The signature of a grant as reported is the signature that was meant.     *)
LEMMA SpellingKeepsSignature ==
    ASSUME NEW g \in Meanings, NEW s \in Spellings(g)
    PROVE  signatureOf(s) = g
  <1>1. \A acl \in ACLs : \A h \in CannedGrants(acl, "owner") :
            h \in {ownerGrant("owner"), publicReadGrant, publicWriteGrant,
                   logDeliveryWriteGrant, logDeliveryReadACPGrant}
    BY DEF ACLs, CannedGrants
  <1>2. \/ g \in {ownerGrant("owner"), publicReadGrant, publicWriteGrant,
                  logDeliveryWriteGrant, logDeliveryReadACPGrant}
        \/ g \in {Signature("User", "stranger", "", "FULL_CONTROL", FALSE),
                  Signature("User", "owner", "", "READ", FALSE),
                  Signature("Group", "", "AllUsers", "READ", TRUE)}
    BY <1>1 DEF Meanings
  <1>3. \/ \E i, p, d : g = Signature("User", i, "", p, d)
        \/ \E i, u, p, d : g = Signature("Group", i, u, p, d)
    BY <1>2, Zenon DEF ownerGrant, publicReadGrant, publicWriteGrant,
                       logDeliveryWriteGrant, logDeliveryReadACPGrant
  <1>4. CASE \E i, p, d : g = Signature("User", i, "", p, d)
    BY <1>4, SpelledUser, Zenon
  <1>5. CASE \E i, u, p, d : g = Signature("Group", i, u, p, d)
    BY <1>5, SpelledGroup, Zenon
  <1> QED
    BY <1>3, <1>4, <1>5

Spelled == UNION {Spellings(g) : g \in Meanings}

(* The list that was meant and the list as reported correspond, grant by    *)
(* grant.                                                                  *)
SameGrants ==
    /\ meant \in Seq(Meanings) /\ reported \in Seq(Spelled)
    /\ Len(meant) = Len(reported)
    /\ \A i \in 1..Len(meant) : signatureOf(reported[i]) = meant[i]

LEMMA SameGrantsStep == SameGrants /\ [Next]_vars => SameGrants'
  <1> SUFFICES ASSUME SameGrants, [Next]_vars PROVE SameGrants'
    OBVIOUS
  <1>1. CASE Report
    <2>1. PICK g \in Meanings : /\ meant' = Append(meant, g)
                                /\ \E s \in Spellings(g) : reported' = Append(reported, s)
      BY <1>1 DEF Report
    <2>2. PICK s \in Spellings(g) : reported' = Append(reported, s)
      BY <2>1
    <2>3. s \in Spelled /\ signatureOf(s) = g
      BY SpellingKeepsSignature DEF Spelled
    <2>4. meant \in Seq(Meanings) /\ reported \in Seq(Spelled) /\ Len(meant) = Len(reported)
      BY DEF SameGrants
    <2>5. meant' \in Seq(Meanings) /\ reported' \in Seq(Spelled) /\ Len(meant') = Len(reported')
      BY <2>1, <2>2, <2>3, <2>4
    <2>6. ASSUME NEW i \in 1..Len(meant') PROVE signatureOf(reported'[i]) = meant'[i]
      <3>1. CASE i \in 1..Len(meant)
        <4>1. reported'[i] = reported[i] /\ meant'[i] = meant[i]
          BY <3>1, <2>1, <2>2, <2>4
        <4> QED
          BY <4>1, <3>1 DEF SameGrants
      <3>2. CASE i = Len(meant) + 1
        <4>1. reported'[i] = s /\ meant'[i] = g
          BY <3>2, <2>1, <2>2, <2>4
        <4> QED
          BY <4>1, <2>3
      <3> QED
        BY <3>1, <3>2, <2>1, <2>4
    <2> QED
      BY <2>5, <2>6 DEF SameGrants
  <1>2. CASE UNCHANGED grants
    BY <1>2 DEF SameGrants, grants
  <1> QED
    BY <1>1, <1>2 DEF Next, EditEndpoint, EditSecret, Fail, vars, grants

(* Each canned ACL has finitely many grants, and no two have the same.       *)
LEMMA CannedFinite ==
    ASSUME NEW acl \in ACLs, NEW o
    PROVE  IsFiniteSet(CannedGrants(acl, o))
  <1>1. \A x : IsFiniteSet({x})
    BY FS_Singleton
  <1>2. \A x, y : IsFiniteSet({x} \cup {y})
    BY <1>1, FS_AddElement
  <1>3. \A x, y, z : IsFiniteSet(({x} \cup {y}) \cup {z})
    BY <1>2, FS_AddElement
  <1>4. \A x, y, z : IsFiniteSet({x, y}) /\ IsFiniteSet({x, y, z})
    <2> TAKE x, y, z
    <2>1. {x} \cup {y} = {x, y} /\ ({x} \cup {y}) \cup {z} = {x, y, z}
      OBVIOUS
    <2>2. IsFiniteSet({x} \cup {y}) /\ IsFiniteSet(({x} \cup {y}) \cup {z})
      BY <1>2, <1>3
    <2> QED
      BY <2>1, <2>2
  <1> QED
    BY <1>1, <1>4 DEF CannedGrants, ACLs

LEMMA CannedDistinct ==
    ASSUME NEW a1 \in ACLs, NEW a2 \in ACLs, NEW o, CannedGrants(a1, o) = CannedGrants(a2, o)
    PROVE  a1 = a2
  <1> DEFINE R == publicReadGrant  W == publicWriteGrant
             L == logDeliveryWriteGrant  P == logDeliveryReadACPGrant  O == ownerGrant(o)
  <1>1. O # R /\ O # W /\ O # L /\ O # P /\ R # W /\ R # L /\ R # P /\ W # L /\ W # P /\ L # P
    BY DEF Signature, ownerGrant, publicReadGrant, publicWriteGrant,
           logDeliveryWriteGrant, logDeliveryReadACPGrant
  <1>2. /\ CannedGrants("private", o) = {O} /\ CannedGrants("public-read", o) = {O, R}
        /\ CannedGrants("public-read-write", o) = {O, R, W}
        /\ CannedGrants("log-delivery-write", o) = {O, L, P}
    BY DEF CannedGrants
  <1> HIDE DEF R, W, L, P, O
  <1>3. \A a \in ACLs : /\ (R \in CannedGrants(a, o)) <=> a \in {"public-read", "public-read-write"}
                        /\ (W \in CannedGrants(a, o)) <=> a = "public-read-write"
                        /\ (L \in CannedGrants(a, o)) <=> a = "log-delivery-write"
    BY <1>1, <1>2 DEF ACLs
  <1> QED
    BY <1>3 DEF ACLs

LEMMA SameSet == SameGrants => actualSet(reported) = ToSet(meant)
  <1> SUFFICES ASSUME SameGrants PROVE actualSet(reported) = ToSet(meant)
    OBVIOUS
  <1>1. DOMAIN meant = 1..Len(meant) /\ 1..Len(meant) = 1..Len(reported)
    BY DEF SameGrants
  <1>2. actualSet(reported) = {meant[i] : i \in 1..Len(meant)}
    BY <1>1 DEF SameGrants, actualSet
  <1> QED
    BY <1>1, <1>2 DEF ToSet

(* A list that holds each of finitely many expected grants once matches.     *)
LEMMA ExactMatches ==
    ASSUME SameGrants, NEW expected, ToSet(meant) = expected, IsInjective(meant)
    PROVE  obsBucketACLMatches(reported, expected)
  <1> DEFINE I == 1..Len(meant)
  <1>1. Len(meant) \in Nat /\ DOMAIN meant = I /\ meant \in [I -> expected]
    BY DEF SameGrants, ToSet
  <1>2. IsFiniteSet(I) /\ Cardinality(I) = Len(meant)
    <2>1. IsFiniteSet(I) /\ Cardinality(I) = IF 1 > Len(meant) THEN 0 ELSE Len(meant) - 1 + 1
      BY <1>1, FS_Interval
    <2> QED
      BY <2>1, <1>1
  <1>3. meant \in Surjection(I, expected)
    BY <1>1 DEF Surjection, ToSet
  <1>4. meant \in Injection(I, expected)
    BY <1>1 DEF Injection, IsInjective
  <1> HIDE DEF I
  <1>5. Cardinality(expected) = Len(meant)
    BY <1>2, <1>3, <1>4, FS_Surjection
  <1> QED
    BY <1>5, SameSet DEF obsBucketACLMatches, SameGrants

LEMMA SameGrantsDecide == SameGrants => FlattenExact
  <1> SUFFICES ASSUME SameGrants, NEW acl \in ACLs
               PROVE  flattenObsBucketCannedACL(owner, reported) = acl <=>
                        /\ owner # ""
                        /\ ToSet(meant) = CannedGrants(acl, owner)
                        /\ IsInjective(meant)
    BY DEF FlattenExact
  <1> DEFINE M(a) == obsBucketACLMatches(reported, CannedGrants(a, owner))
  <1>0. acl # ""
    BY DEF ACLs
  <1>1. ASSUME NEW a \in ACLs, M(a)
        PROVE  ToSet(meant) = CannedGrants(a, owner) /\ IsInjective(meant)
    <2>1. reported \in Seq(Spelled) /\ IsFiniteSet(CannedGrants(a, owner))
      BY CannedFinite DEF SameGrants
    <2>2. /\ actualSet(reported) = CannedGrants(a, owner)
          /\ \A i, j \in 1..Len(reported) :
                signatureOf(reported[i]) = signatureOf(reported[j]) => i = j
      BY <1>1, <2>1, MatchIsExact
    <2>3. \A i, j \in 1..Len(meant) : meant[i] = meant[j] => i = j
      BY <2>2 DEF SameGrants
    <2>4. DOMAIN meant = 1..Len(meant)
      BY DEF SameGrants
    <2> QED
      BY <2>2, <2>3, <2>4, SameSet DEF IsInjective
  <1>2. ASSUME flattenObsBucketCannedACL(owner, reported) = acl
        PROVE  owner # "" /\ ToSet(meant) = CannedGrants(acl, owner) /\ IsInjective(meant)
    <2>1. owner # "" /\ (\E a \in ACLs : M(a)) /\ acl = CHOOSE a \in ACLs : M(a)
      BY <1>0, <1>2 DEF flattenObsBucketCannedACL
    <2>2. M(acl)
      BY <2>1
    <2> QED
      BY <2>1, <2>2, <1>1
  <1>3. ASSUME owner # "", ToSet(meant) = CannedGrants(acl, owner), IsInjective(meant)
        PROVE  flattenObsBucketCannedACL(owner, reported) = acl
    <2>1. M(acl)
      BY <1>3, ExactMatches
    <2>2. \A a \in ACLs : M(a) => a = acl
      <3> TAKE a \in ACLs
      <3> HAVE M(a)
      <3>1. CannedGrants(a, owner) = CannedGrants(acl, owner)
        BY <1>1, <1>3
      <3> QED
        BY <3>1, CannedDistinct
    <2>3. (CHOOSE a \in ACLs : M(a)) = acl
      BY <2>1, <2>2
    <2> QED
      BY <1>3, <2>1, <2>3 DEF flattenObsBucketCannedACL
  <1> QED
    BY <1>2, <1>3

(* flattenObsBucketCannedACL is exact for every list of grants, however      *)
(* long: it names a canned ACL if and only if the list is that ACL's.       *)
THEOREM FlattenIsExact == Spec => []FlattenExact
  <1>1. Init => SameGrants
    <2> SUFFICES ASSUME Init PROVE SameGrants
      OBVIOUS
    <2>1. meant = <<>> /\ reported = <<>>
      BY DEF Init
    <2>2. meant \in Seq(Meanings) /\ reported \in Seq(Spelled)
      BY <2>1
    <2>3. Len(meant) = 0 /\ Len(reported) = 0
      BY <2>1
    <2> QED
      BY <2>2, <2>3 DEF SameGrants
  <1> QED
    BY <1>1, SameGrantsStep, SameGrantsDecide, PTL DEF Spec

-----------------------------------------------------------------------------
(* Endpoints.                                                              *)

(* An endpoint is its parts, and editing one leaves the others.             *)
LEMMA EndpointParts ==
    ASSUME NEW e \in Endpoints
    PROVE  /\ e = [pad |-> e.pad, scheme |-> e.scheme, host |-> e.host,
                   path |-> e.path, tail |-> e.tail]
           /\ e.host \in Hosts \cup {"", "malformed"}
  BY DEF Endpoints

LEMMA SameParts ==
    ASSUME NEW e \in Endpoints, NEW f \in Endpoints,
           e.pad = f.pad, e.scheme = f.scheme, e.host = f.host, e.path = f.path, e.tail = f.tail
    PROVE  e = f
  BY EndpointParts, Zenon

LEMMA EndpointEdits ==
    ASSUME NEW e \in Endpoints
    PROVE  LET p == [e EXCEPT !.pad = ""]
               s == [e EXCEPT !.scheme = "https"]
               t == [e EXCEPT !.path = ""]
           IN  /\ p \in Endpoints /\ p.pad = "" /\ p.scheme = e.scheme /\ p.host = e.host
               /\ p.path = e.path /\ p.tail = e.tail
               /\ s \in Endpoints /\ s.pad = e.pad /\ s.scheme = "https" /\ s.host = e.host
               /\ s.path = e.path /\ s.tail = e.tail
               /\ t \in Endpoints /\ t.pad = e.pad /\ t.scheme = e.scheme /\ t.host = e.host
               /\ t.path = "" /\ t.tail = e.tail
  BY DEF Endpoints

LEMMA PlainFacts ==
    ASSUME NEW s, NEW h
    PROVE  /\ Plain(s, h).pad = "" /\ Plain(s, h).scheme = s /\ Plain(s, h).host = h
           /\ Plain(s, h).path = "" /\ Plain(s, h).tail = ""
           /\ s \in {"", "https", "http"} /\ h \in Hosts \cup {"", "malformed"} =>
                 Plain(s, h) \in Endpoints
  BY DEF Plain, Endpoints

LEMMA HttpsParts ==
    ASSUME NEW h \in Hosts \cup {"", "malformed"}
    PROVE  /\ Https(h) \in Endpoints /\ Https(h).pad = "" /\ Https(h).scheme = "https"
           /\ Https(h).host = h /\ Https(h).path = "" /\ Https(h).tail = ""
  <1>1. Https(h) \in Endpoints
    BY PlainFacts DEF Https
  <1>2. /\ Https(h).pad = "" /\ Https(h).scheme = "https" /\ Https(h).host = h
        /\ Https(h).path = "" /\ Https(h).tail = ""
    BY DEF Https, Plain
  <1> QED
    BY <1>1, <1>2

(* Trimming and the defaults leave an endpoint without padding and with a    *)
(* scheme; its host is the one written, or the derived one.                 *)
LEMMA CompletedFacts ==
    ASSUME NEW e \in Endpoints
    PROVE  /\ Completed(e) \in Endpoints /\ Completed(e).pad = "" /\ Completed(e).scheme # ""
           /\ Admitted(e) => /\ Completed(e).scheme = "https" /\ Completed(e).host \in Hosts
                             /\ Completed(e).path \in {"", "/"} /\ Completed(e).tail = ""
  <1> DEFINE trimmed == [e EXCEPT !.pad = ""]
             given   == IF trimmed = Absent THEN Https(Derived) ELSE trimmed
             done    == IF given.scheme = "" THEN [given EXCEPT !.scheme = "https"] ELSE given
  <1>1. Completed(e) = done
    BY DEF Completed
  <1>2. /\ trimmed \in Endpoints /\ trimmed.pad = ""
        /\ trimmed.scheme = e.scheme /\ trimmed.host = e.host
        /\ trimmed.path = e.path /\ trimmed.tail = e.tail
    BY EndpointEdits
  <1>3. /\ Https(Derived) \in Endpoints /\ Https(Derived).pad = ""
        /\ Https(Derived).scheme = "https" /\ Https(Derived).host = Derived
        /\ Https(Derived).path = "" /\ Https(Derived).tail = ""
    BY InputAssumptions, HttpsParts
  <1> HIDE DEF trimmed
  <1>5. /\ given \in Endpoints /\ given.pad = ""
        /\ Admitted(e) => /\ given.scheme \in {"", "https"} /\ given.host \in Hosts
                          /\ given.path \in {"", "/"} /\ given.tail = ""
    <2>1. e = Absent => trimmed = Absent
      <3>1. Absent \in Endpoints /\ Absent.pad = ""
        BY PlainFacts DEF Absent
      <3> QED
        BY <1>2, <3>1, SameParts
    <2> QED
      BY <1>2, <1>3, <2>1, InputAssumptions DEF Admitted
  <1> HIDE DEF given
  <1>6. /\ done \in Endpoints /\ done.pad = "" /\ done.scheme # ""
        /\ given.scheme \in {"", "https"} => done.scheme = "https"
        /\ done.host = given.host /\ done.path = given.path /\ done.tail = given.tail
    BY <1>5, EndpointEdits
  <1> HIDE DEF done
  <1> QED
    BY <1>1, <1>5, <1>6

(* What ResolveEndpoint takes it turns into https and a host, nothing else.  *)
LEMMA ResolveFacts ==
    ASSUME NEW e \in Endpoints
    PROVE  /\ \/ ResolveEndpoint(e) = Invalid
              \/ /\ ResolveEndpoint(e) = Https(Completed(e).host) /\ Completed(e).host \in Hosts
           /\ Admitted(e) => ResolveEndpoint(e) = Https(Completed(e).host)
  <1> DEFINE u == Completed(e)
  <1>1. /\ u \in Endpoints /\ u.pad = ""
        /\ Admitted(e) => /\ u.scheme = "https" /\ u.host \in Hosts
                          /\ u.path \in {"", "/"} /\ u.tail = ""
    BY CompletedFacts
  <1>2. ResolveEndpoint(e) =
            IF u.scheme = "https" /\ u.host \in Hosts /\ u.path \in {"", "/"} /\ u.tail = ""
            THEN [u EXCEPT !.path = ""] ELSE Invalid
    BY DEF ResolveEndpoint
  <1> HIDE DEF u
  <1>3. u.scheme = "https" /\ u.tail = "" => [u EXCEPT !.path = ""] = Https(u.host)
    <2> SUFFICES ASSUME u.scheme = "https", u.tail = ""
                 PROVE  [u EXCEPT !.path = ""] = Https(u.host)
      OBVIOUS
    <2>1. /\ Https(u.host) \in Endpoints /\ Https(u.host).pad = ""
          /\ Https(u.host).scheme = "https" /\ Https(u.host).host = u.host
          /\ Https(u.host).path = "" /\ Https(u.host).tail = ""
      <3>1. u.host \in Hosts \cup {"", "malformed"}
        BY <1>1, EndpointParts
      <3> QED
        BY <3>1, HttpsParts
    <2> DEFINE t == [u EXCEPT !.path = ""]
    <2>2. /\ t \in Endpoints /\ t.pad = u.pad /\ t.scheme = u.scheme /\ t.host = u.host
          /\ t.path = "" /\ t.tail = u.tail
      BY <1>1, EndpointEdits
    <2> HIDE DEF t
    <2>3. t = Https(u.host)
      BY <1>1, <2>1, <2>2, SameParts
    <2> QED
      BY <2>3 DEF t
  <1> QED
    BY <1>1, <1>2, <1>3 DEF u

LEMMA HttpsFacts ==
    ASSUME NEW h \in Hosts
    PROVE  /\ Https(h) # Invalid /\ Https(h).host = h
           /\ ResolveEndpoint(Https(h)) = Https(h)
  <1> DEFINE u == Https(h)
  <1>1. /\ u \in Endpoints /\ u.pad = "" /\ u.scheme = "https" /\ u.host = h
        /\ u.path = "" /\ u.tail = ""
    BY HttpsParts
  <1>2. Invalid.scheme = "" /\ Absent.scheme = ""
    BY PlainFacts DEF Invalid, Absent
  <1> HIDE DEF u
  <1>3. [u EXCEPT !.pad = ""] = u /\ [u EXCEPT !.path = ""] = u
    <2> DEFINE p == [u EXCEPT !.pad = ""]
               t == [u EXCEPT !.path = ""]
    <2>1. /\ p \in Endpoints /\ p.pad = "" /\ p.scheme = u.scheme /\ p.host = u.host
          /\ p.path = u.path /\ p.tail = u.tail
          /\ t \in Endpoints /\ t.pad = u.pad /\ t.scheme = u.scheme /\ t.host = u.host
          /\ t.path = "" /\ t.tail = u.tail
      BY <1>1, EndpointEdits
    <2> HIDE DEF p, t
    <2>2. p = u /\ t = u
      BY <1>1, <2>1, SameParts
    <2> QED
      BY <2>2 DEF p, t
  <1>4. Completed(u) = u
    BY <1>1, <1>2, <1>3 DEF Completed
  <1>5. ResolveEndpoint(u) = u
    BY <1>1, <1>3, <1>4 DEF ResolveEndpoint
  <1> QED
    BY <1>1, <1>2, <1>5 DEF u

LEMMA EndpointType == Init => endpoint \in Endpoints
  <1>1. Absent \in Endpoints
    BY PlainFacts DEF Absent
  <1> QED
    BY <1>1 DEF Init

LEMMA EndpointTypeStep == endpoint \in Endpoints /\ [Next]_vars => (endpoint \in Endpoints)'
  BY DEF Next, Report, EditEndpoint, EditSecret, Fail, vars, inputs

(* No endpoint that the CRD's pattern admits is refused by ResolveEndpoint,  *)
(* whatever the hosts are.                                                 *)
THEOREM AdmittedIsResolved == Spec => []AdmittedResolves
  <1>1. endpoint \in Endpoints => AdmittedResolves
    <2> SUFFICES ASSUME endpoint \in Endpoints, Admitted(endpoint)
                 PROVE  ResolveEndpoint(endpoint) # Invalid
      BY DEF AdmittedResolves
    <2>1. /\ ResolveEndpoint(endpoint) = Https(Completed(endpoint).host)
          /\ Completed(endpoint).host \in Hosts
      BY ResolveFacts, CompletedFacts
    <2> QED
      BY <2>1, HttpsFacts
  <1> QED
    BY <1>1, EndpointType, EndpointTypeStep, PTL DEF Spec

(* The spellings of an endpoint, and only they, share a cache key, and a key *)
(* resolves to itself.                                                     *)
THEOREM SpellingsHaveOneKey == Spec => []SpellingsShareKey
  <1>1. endpoint \in Endpoints => SpellingsShareKey
    <2> SUFFICES ASSUME endpoint \in Endpoints, ResolveEndpoint(endpoint) # Invalid
                 PROVE  /\ ResolveEndpoint(ResolveEndpoint(endpoint)) = ResolveEndpoint(endpoint)
                        /\ \A e \in Endpoints :
                              ResolveEndpoint(e) # Invalid =>
                                (ResolveEndpoint(e) = ResolveEndpoint(endpoint)
                                   <=> Completed(e).host = Completed(endpoint).host)
      BY DEF SpellingsShareKey
    <2>1. \A e \in Endpoints : ResolveEndpoint(e) # Invalid =>
              /\ ResolveEndpoint(e) = Https(Completed(e).host)
              /\ Completed(e).host \in Hosts
      BY ResolveFacts
    <2>2. \A h \in Hosts : Https(h).host = h /\ ResolveEndpoint(Https(h)) = Https(h)
      BY HttpsFacts
    <2> QED
      BY <2>1, <2>2
  <1> QED
    BY <1>1, EndpointType, EndpointTypeStep, PTL DEF Spec

-----------------------------------------------------------------------------
(* Credentials.                                                            *)

(* A non-empty set of indices has a first and a last one.                   *)
LEMMA FirstAndLast ==
    ASSUME NEW n \in Nat, NEW T \in SUBSET (1..n), T # {}
    PROVE  /\ \E i \in T : \A j \in T : i <= j
           /\ \E i \in T : \A j \in T : i >= j
  <1> DEFINE R == OpToRel(<, Nat)
             U == {n - i : i \in T}
  <1>1. IsWellFoundedOn(R, Nat)
    BY NatLessThanWellFounded
  <1>2. \A a, b \in Nat : <<a, b>> \in R <=> a < b
    <2>1. R = {ss \in Nat \X Nat : ss[1] < ss[2]}
      BY Zenon DEF OpToRel
    <2> HIDE DEF R
    <2> QED
      BY <2>1
  <1>3. T \subseteq Nat /\ U \subseteq Nat /\ U # {}
    OBVIOUS
  <1> HIDE DEF R, U
  <1>4. PICK a \in T : \A j \in T : ~(<<j, a>> \in R)
    BY <1>1, <1>3, WFMin
  <1>5. \A j \in T : a <= j
    <2> TAKE j \in T
    <2>1. a \in Nat /\ j \in Nat
      BY <1>3
    <2>2. ~(j < a)
      BY <2>1, <1>2, <1>4, Zenon
    <2> QED
      BY <2>1, <2>2
  <1>6. PICK b \in U : \A j \in U : ~(<<j, b>> \in R)
    BY <1>1, <1>3, WFMin
  <1>7. PICK k \in T : b = n - k
    BY DEF U
  <1>8. \A j \in T : k >= j
    <2> TAKE j \in T
    <2>1. n - j \in U
      BY DEF U
    <2>2. ~(n - j < n - k)
      BY <1>2, <1>3, <1>6, <1>7, <2>1
    <2> QED
      BY <2>2, <1>3
  <1> QED
    BY <1>5, <1>8

Ink == Letters \cup {Space}

LEMMA TextsAreSeqs == \A t \in Texts : t \in Seq(Ink)
  BY InputAssumptions DEF Texts, BoundedSeq, SeqOf, Ink

(* Trimming a text gives a text, of letters the Secret may hold.             *)
LEMMA TrimType ==
    ASSUME NEW t \in Seq(Ink)
    PROVE  TrimSpace(t) \in Seq(Ink)
  <1>1. CASE Inked(t) = {}
    BY <1>1 DEF TrimSpace
  <1>2. CASE Inked(t) # {}
    <2> DEFINE T == Inked(t)
               a == CHOOSE i \in T : \A j \in T : i <= j
               b == CHOOSE i \in T : \A j \in T : i >= j
    <2>1. Len(t) \in Nat /\ T \in SUBSET (1..Len(t))
      BY DEF Inked
    <2>2. TrimSpace(t) = SubSeq(t, a, b)
      BY <1>2 DEF TrimSpace
    <2>3. /\ \E i \in T : \A j \in T : i <= j
          /\ \E i \in T : \A j \in T : i >= j
      BY <1>2, <2>1, FirstAndLast
    <2> HIDE DEF T
    <2>4. a \in T /\ b \in T
      BY <2>3
    <2> HIDE DEF a, b
    <2>5. a \in 1..Len(t) /\ b \in 1..Len(t)
      BY <2>1, <2>4
    <2> QED
      BY <2>2, <2>5
  <1> QED
    BY <1>1, <1>2

(* The part after the last separator, and what comes before it, can be told  *)
(* apart in what is hashed.                                                *)
LEMMA SplitLast ==
    ASSUME Nul \notin Ink,
           NEW p \in Seq(Ink \cup {Nul}), NEW q \in Seq(Ink \cup {Nul}),
           NEW x \in Seq(Ink), NEW y \in Seq(Ink),
           p \o <<Nul>> \o x = q \o <<Nul>> \o y
    PROVE  p = q /\ x = y
  <1> DEFINE h == p \o <<Nul>> \o x
             g == q \o <<Nul>> \o y
             m == Len(p)  n == Len(q)  k == Len(x)  l == Len(y)
  <1>1. m \in Nat /\ n \in Nat /\ k \in Nat /\ l \in Nat
    OBVIOUS
  <1>2. /\ Len(h) = m + 1 + k
        /\ \A i \in 1..m : h[i] = p[i]
        /\ h[m + 1] = Nul
        /\ \A i \in 1..k : h[m + 1 + i] = x[i]
    OBVIOUS
  <1>3. /\ Len(g) = n + 1 + l
        /\ \A i \in 1..n : g[i] = q[i]
        /\ g[n + 1] = Nul
        /\ \A i \in 1..l : g[n + 1 + i] = y[i]
    OBVIOUS
  <1>4. h = g
    OBVIOUS
  <1>5. /\ \A i \in 1..k : x[i] # Nul
        /\ \A i \in 1..l : y[i] # Nul
    OBVIOUS
  <1>6. /\ p = [i \in 1..m |-> p[i]] /\ q = [i \in 1..n |-> q[i]]
        /\ x = [i \in 1..k |-> x[i]] /\ y = [i \in 1..l |-> y[i]]
    OBVIOUS
  <1> HIDE DEF h, g, m, n, k, l
  <1>7. ~(m < n)
    <2> SUFFICES ASSUME m < n PROVE FALSE
      OBVIOUS
    <2>1. n - m \in 1..k /\ m + 1 + (n - m) = n + 1
      BY <1>1, <1>2, <1>3, <1>4
    <2> QED
      BY <2>1, <1>2, <1>3, <1>4, <1>5
  <1>8. ~(n < m)
    <2> SUFFICES ASSUME n < m PROVE FALSE
      OBVIOUS
    <2>1. m - n \in 1..l /\ n + 1 + (m - n) = m + 1
      BY <1>1, <1>2, <1>3, <1>4
    <2> QED
      BY <2>1, <1>2, <1>3, <1>4, <1>5
  <1>9. m = n /\ k = l
    BY <1>1, <1>2, <1>3, <1>4, <1>7, <1>8
  <1>10. (\A i \in 1..m : p[i] = q[i]) /\ (\A i \in 1..k : x[i] = y[i])
    BY <1>2, <1>3, <1>4, <1>9
  <1> QED
    BY <1>6, <1>9, <1>10

(* Hash tells any two triples of separator-free texts apart.                *)
LEMMA HashInjective ==
    ASSUME NEW c1 \in Seq(Ink), NEW c2 \in Seq(Ink), NEW c3 \in Seq(Ink),
           NEW d1 \in Seq(Ink), NEW d2 \in Seq(Ink), NEW d3 \in Seq(Ink),
           Hash(<<c1, c2, c3>>) = Hash(<<d1, d2, d3>>)
    PROVE  c1 = d1 /\ c2 = d2 /\ c3 = d3
  <1> DEFINE p == c1 \o <<Nul>> \o c2
             q == d1 \o <<Nul>> \o d2
  <1>1. Nul \notin Ink
    BY InputAssumptions DEF Ink, Nul, Space
  <1>2. p \o <<Nul>> \o c3 = q \o <<Nul>> \o d3
    BY DEF Hash
  <1>3. \A t \in Seq(Ink) : t \in Seq(Ink \cup {Nul})
    OBVIOUS
  <1>4. p \in Seq(Ink \cup {Nul}) /\ q \in Seq(Ink \cup {Nul})
    OBVIOUS
  <1>7. \A x, y \in Seq(Ink) : \A r, s \in Seq(Ink \cup {Nul}) :
            r \o <<Nul>> \o x = s \o <<Nul>> \o y => r = s /\ x = y
    BY <1>1, SplitLast, Zenon
  <1>5. p = q /\ c3 = d3
    <2> HIDE DEF p, q
    <2> QED
      BY <1>7, <1>2, <1>4, Zenon
  <1>6. c1 = d1 /\ c2 = d2
    <2>1. c1 \in Seq(Ink \cup {Nul}) /\ d1 \in Seq(Ink \cup {Nul})
      BY <1>3
    <2>2. c1 \o <<Nul>> \o c2 = d1 \o <<Nul>> \o d2
      BY <1>5
    <2> QED
      BY <1>7, <2>1, <2>2, Zenon
  <1> QED
    BY <1>5, <1>6

LEMMA SecretType == Init => secret \in Secrets
  <1>1. <<>> \in Texts
    <2>1. 0 \in 0..MaxLen /\ <<>> \in [1..0 -> Letters \cup {Space}]
      BY InputAssumptions
    <2> QED
      BY <2>1, Zenon DEF Texts, BoundedSeq, SeqOf
  <1>2. [accessKeyID |-> <<>>, secretAccessKey |-> <<>>, securityToken |-> <<>>] \in Secrets
    <2> DEFINE e == <<>>
    <2>1. e \in Texts
      BY <1>1
    <2> HIDE DEF e
    <2>2. [accessKeyID |-> e, secretAccessKey |-> e, securityToken |-> e] \in Secrets
      BY <2>1 DEF Secrets
    <2> QED
      BY <2>2 DEF e
  <1> QED
    BY <1>2 DEF Init

LEMMA SecretTypeStep == secret \in Secrets /\ [Next]_vars => (secret \in Secrets)'
  BY DEF Next, Report, EditEndpoint, EditSecret, Fail, vars, inputs

(* Credentials that are taken are complete, and no other credentials share   *)
(* their hash, for Secret values of any length over any alphabet without    *)
(* the separator.                                                          *)
THEOREM HashIsUnique == Spec => []HashTellsApart
  <1>1. secret \in Secrets => HashTellsApart
    <2> SUFFICES ASSUME secret \in Secrets, CredentialsFromSecret(secret) # <<Missing>>
                 PROVE  LET c == CredentialsFromSecret(secret)
                        IN  /\ c[1] # <<>> /\ c[2] # <<>>
                            /\ \A x, y, z \in {TrimSpace(t) : t \in Texts} :
                                  Hash(<<x, y, z>>) = Hash(c) => <<x, y, z>> = c
      BY DEF HashTellsApart
    <2> DEFINE k == TrimSpace(secret.accessKeyID)
               s == TrimSpace(secret.secretAccessKey)
               o == TrimSpace(secret.securityToken)
    <2>1. \A x \in {TrimSpace(t) : t \in Texts} : x \in Seq(Ink)
      BY TextsAreSeqs, TrimType
    <2>2. k \in Seq(Ink) /\ s \in Seq(Ink) /\ o \in Seq(Ink)
      <3>1. /\ secret.accessKeyID \in Texts /\ secret.secretAccessKey \in Texts
            /\ secret.securityToken \in Texts
        BY DEF Secrets
      <3> QED
        BY <2>1, <3>1
    <2>3. CredentialsFromSecret(secret) = <<k, s, o>> /\ k # <<>> /\ s # <<>>
      BY DEF CredentialsFromSecret
    <2>5. CredentialsFromSecret(secret)[1] = k /\ CredentialsFromSecret(secret)[2] = s
      BY <2>3
    <2> HIDE DEF k, s, o
    <2>4. ASSUME NEW x \in Seq(Ink), NEW y \in Seq(Ink), NEW z \in Seq(Ink),
                 Hash(<<x, y, z>>) = Hash(<<k, s, o>>)
          PROVE  <<x, y, z>> = <<k, s, o>>
      BY <2>2, <2>4, HashInjective
    <2> QED
      <3>1. \A x, y, z \in {TrimSpace(t) : t \in Texts} :
                Hash(<<x, y, z>>) = Hash(<<k, s, o>>) => <<x, y, z>> = <<k, s, o>>
        BY <2>1, <2>4, Zenon
      <3> DEFINE c == CredentialsFromSecret(secret)
      <3>2. c = <<k, s, o>> /\ c[1] # <<>> /\ c[2] # <<>>
        BY <2>3, <2>5
      <3> HIDE DEF c
      <3>3. \A x, y, z \in {TrimSpace(t) : t \in Texts} :
                Hash(<<x, y, z>>) = Hash(c) => <<x, y, z>> = c
        BY <3>1, <3>2, Zenon
      <3> QED
        BY <3>2, <3>3 DEF c
  <1> QED
    BY <1>1, SecretType, SecretTypeStep, PTL DEF Spec

-----------------------------------------------------------------------------
(* Errors.                                                                 *)

(* An error to which no joined error has contributed.                      *)
Plainly(e) ==
    ~e.joined /\ (e.correctable <=> isUserCorrectableBucketErrorType(e.found))

(* Errors that wrap none, ...                                              *)
LEMMA AloneFacts ==
    ASSUME NEW f
    PROVE  Alone(f).found = f /\ Plainly(Alone(f))
  BY DEF Alone, Error, Plainly

LEMMA LeafFacts ==
    /\ \A w : Leaf(w).found = Found({w}, "none", {}) /\ Plainly(Leaf(w))
    /\ \A r : StatusError(r).found = Found({}, r, {}) /\ Plainly(StatusError(r))
    /\ \A a : ObsError(a).found = Found({}, "none", {a}) /\ Plainly(ObsError(a))
  BY AloneFacts DEF Leaf, StatusError, ObsError

(* ... that wrap one, ...                                                  *)
LEMMA AroundFacts ==
    ASSUME NEW f, NEW e, ~e.joined
    PROVE  /\ Around(f, e).found = f /\ ~Around(f, e).joined
           /\ Around(f, e).correctable <=>
                 (isUserCorrectableBucketErrorType(f) \/ e.correctable)
  BY DEF Around, Error

(* ... and that join two.                                                  *)
LEMMA JoinFacts ==
    ASSUME NEW d, NEW e
    PROVE  /\ Join(d, e).found = Both(d.found, e.found)
           /\ Join(d, e).correctable <=> (d.correctable /\ e.correctable)
  BY DEF Join, Error

(* Wrapping an error changes nothing that is looked at.                     *)
LEMMA WrapFacts ==
    ASSUME NEW e, Plainly(e)
    PROVE  Wrap(e).found = e.found /\ Plainly(Wrap(e))
  BY AroundFacts DEF Wrap, Plainly

(* An error that names a resource which is not found.                       *)
LEMMA ResolutionFacts ==
    ASSUME NEW kind
    PROVE  LET e == resolutionNotFoundError(kind, StatusError("NotFound"))
           IN  e.found = Found({kind}, "NotFound", {}) /\ Plainly(e)
  <1> DEFINE d == StatusError("NotFound")
             f == Found({kind}, "NotFound", {})
             e == resolutionNotFoundError(kind, d)
  <1>1. d.found = Found({}, "NotFound", {}) /\ Plainly(d)
    BY LeafFacts
  <1>2. d.found.is = {} /\ d.found.api = "NotFound" /\ d.found.obs = {}
    BY <1>1 DEF Found
  <1>3. d.found.is \cup {kind} = {kind}
    BY <1>2
  <1>4. e = Around(f, d)
    BY <1>2, <1>3 DEF resolutionNotFoundError
  <1>5. ~isUserCorrectableBucketErrorType(d.found)
    BY <1>2 DEF isUserCorrectableBucketErrorType, Is, isNonRetryableOBSRequestError
  <1> HIDE DEF d, f, e
  <1>6. e.found = f /\ Plainly(e)
    BY <1>1, <1>4, <1>5, AroundFacts DEF Plainly
  <1> QED
    BY <1>6 DEF e, d, f

(* What is found in errors without an OBS answer.                          *)
LEMMA UnansweredFacts ==
    Unanswered.found = Found({"network"}, "none", {}) /\ Plainly(Unanswered)
  <1>1. /\ Wrap(Leaf("network")).found = Found({"network"}, "none", {})
        /\ Plainly(Wrap(Leaf("network")))
    BY LeafFacts, WrapFacts
  <1> QED
    BY <1>1, WrapFacts DEF Unanswered

LEMMA ApiFailureFacts ==
    ASSUME NEW e \in ApiFailures
    PROVE  /\ Plainly(e)
           /\ \E is \in SUBSET {"network", "canceled"}, api \in {"none", "Timeout"} :
                 e.found = Found(is, api, {})
  <1>1. CASE e = StatusError("Timeout")
    <2>1. Plainly(e) /\ e.found = Found({}, "Timeout", {})
      BY <1>1, LeafFacts
    <2> QED
      BY <2>1
  <1>2. CASE e = Unanswered
    <2>1. Plainly(e) /\ e.found = Found({"network"}, "none", {})
      BY <1>2, UnansweredFacts
    <2> QED
      BY <2>1
  <1>3. CASE e = Leaf("canceled")
    <2>1. Plainly(e) /\ e.found = Found({"canceled"}, "none", {})
      BY <1>3, LeafFacts
    <2> QED
      BY <2>1
  <1> QED
    BY <1>1, <1>2, <1>3 DEF ApiFailures

(* What the classes of BucketRules decide.                                 *)
LEMMA ClassFacts ==
    /\ Reason("Provider") = "ProviderNotReady" /\ ~Retried("Provider")
    /\ Reason("Transient") = "ReconcileFailed" /\ Retried("Transient")
    /\ Reason("Rejected") = "RequestRejected" /\ ~Retried("Rejected")
    /\ Reason("AlreadyExists") = "BucketAlreadyExists" /\ ~Retried("AlreadyExists")
    /\ Reason("AlreadyExistsKept") = "BucketAlreadyExists" /\ Retried("AlreadyExistsKept")
    /\ Reason("AlreadyExistsGone") = "ProviderNotReady" /\ Retried("AlreadyExistsGone")
    /\ Reason("NotEmpty") = "BucketNotEmpty" /\ Retried("NotEmpty")
    /\ Reason("NotFound") = "BucketNotFound" /\ Retried("NotFound")
  BY DEF Reason, Retried

(* The verdicts on an error, by what is found in it.                        *)
Agrees(e, c) ==
    /\ e.correctable <=> ~Retried(c)
    /\ Coarse(bucketReadyStatusCondition(e.found)) = Reason(c)

Correctable == {"ProviderConfigNotFound", "CredentialsSecretNotFound", "MissingCredentials",
                "InvalidEndpoint"}

LEMMA ProviderAgrees ==
    ASSUME NEW e, Plainly(e), NEW w \in Correctable, NEW api, e.found = Found({w}, api, {})
    PROVE  Agrees(e, "Provider")
  <1>1. e.found.is = {w}
    BY DEF Found
  <1>2. isUserCorrectableBucketErrorType(e.found)
    BY <1>1 DEF isUserCorrectableBucketErrorType, Is, Correctable
  <1>3. Coarse(bucketReadyStatusCondition(e.found)) = "ProviderNotReady"
    BY <1>1 DEF bucketReadyStatusCondition, Is, Correctable, Coarse
  <1> QED
    BY <1>2, <1>3, ClassFacts DEF Agrees, Plainly

(* An error in which nothing of note is found is retried.                   *)
LEMMA TransientAgrees ==
    ASSUME NEW e, Plainly(e), NEW is, is \cap (Correctable \cup {"BucketAlreadyExists"}) = {},
           NEW api, api # "NotFound", e.found = Found(is, api, {})
    PROVE  Agrees(e, "Transient")
  <1>1. e.found.is = is /\ e.found.api = api /\ e.found.obs = {}
    BY DEF Found
  <1>2. ~isUserCorrectableBucketErrorType(e.found)
    BY <1>1 DEF isUserCorrectableBucketErrorType, Is, isNonRetryableOBSRequestError, Correctable
  <1>3. bucketReadyStatusCondition(e.found) = "ReconcileFailed"
    BY <1>1 DEF bucketReadyStatusCondition, Is, IsNotFound, Correctable, isBucketNotEmpty,
                isBucketNotFound, isNonRetryableOBSRequestError
  <1> QED
    BY <1>2, <1>3, ClassFacts DEF Agrees, Plainly, Coarse

(* An answer of OBS is taken by its meaning, whatever its status.           *)
LEMMA AnswerAgrees ==
    ASSUME NEW a \in Answers
    PROVE  Agrees(Wrap(ObsError(a)), Meaning(a))
  <1> DEFINE e == Wrap(ObsError(a))
  <1> SUFFICES Agrees(e, Meaning(a))
    OBVIOUS
  <1>1. e.found = Found({}, "none", {a}) /\ Plainly(e)
    BY LeafFacts, WrapFacts
  <1> HIDE DEF e
  <1>2. e.found.is = {} /\ e.found.api = "none" /\ e.found.obs = {a}
    BY <1>1 DEF Found
  <1>3. /\ a.status \in Nat
        /\ a.code = "NoSuchBucket" => a.status = 404
        /\ a.code = "BucketNotEmpty" => a.status = 409
    <2>1. CASE a \in [status : Statuses, code : Codes]
      <3>1. a.status \in Statuses /\ a.code \in Codes
        BY <2>1
      <3> QED
        BY <3>1, AnswerAssumption
    <2>2. CASE a \in [status : {404}, code : {"NoSuchBucket"}]
      BY <2>2
    <2>3. CASE a \in [status : {409}, code : Conflicting \cup {"BucketNotEmpty"}]
      <3>1. a.status = 409 /\ a.code \in Conflicting \cup {"BucketNotEmpty"}
        BY <2>3
      <3> QED
        BY <3>1 DEF Conflicting
    <2> QED
      BY <2>1, <2>2, <2>3 DEF Answers
  <1> DEFINE final == a.status \in 400..499 \ {404, 408, 409, 429}
  <1>4. /\ isNonRetryableOBSRequestError(e.found) <=> final
        /\ isBucketNotEmpty(e.found) <=> (a.code = "BucketNotEmpty")
        /\ isBucketNotFound(e.found) <=> (a.status = 404 \/ a.code = "NoSuchBucket")
    BY <1>2 DEF isNonRetryableOBSRequestError, isBucketNotEmpty, isBucketNotFound
  <1>5. isUserCorrectableBucketErrorType(e.found) <=> final
    BY <1>2, <1>4 DEF isUserCorrectableBucketErrorType, Is
  <1>6. bucketReadyStatusCondition(e.found) =
           IF a.code = "BucketNotEmpty" THEN "BucketNotEmpty"
           ELSE IF a.status = 404 \/ a.code = "NoSuchBucket" THEN "BucketNotFound"
           ELSE IF final THEN "RequestRejected" ELSE "ReconcileFailed"
    BY <1>2, <1>4 DEF bucketReadyStatusCondition, Is, IsNotFound
  <1>7. CASE a.code = "BucketNotEmpty"
    BY <1>1, <1>3, <1>5, <1>6, <1>7, ClassFacts DEF Agrees, Meaning, Plainly, Coarse
  <1>8. CASE a.code # "BucketNotEmpty" /\ a.status = 404
    BY <1>1, <1>5, <1>6, <1>8, ClassFacts DEF Agrees, Meaning, Plainly, Coarse
  <1>9. CASE a.code # "BucketNotEmpty" /\ a.status # 404 /\ final
    <2>1. Meaning(a) = "Rejected"
      BY <1>3, <1>9 DEF Meaning
    <2> QED
      BY <1>1, <1>3, <1>5, <1>6, <1>9, <2>1, ClassFacts DEF Agrees, Plainly, Coarse
  <1>10. CASE a.code # "BucketNotEmpty" /\ a.status # 404 /\ ~final
    <2>1. Meaning(a) = "Transient"
      BY <1>3, <1>10 DEF Meaning
    <2> QED
      BY <1>1, <1>3, <1>5, <1>6, <1>10, <2>1, ClassFacts DEF Agrees, Plainly, Coarse
  <1> QED
    BY <1>7, <1>8, <1>9, <1>10

(* A conflict on create.                                                   *)
LEMMA ConflictAgrees ==
    /\ Agrees(Conflict, "AlreadyExists")
    /\ Conflict.found = Found({"BucketAlreadyExists"}, "none", {})
    /\ Conflict.correctable
  <1>1. Conflict.found = Found({"BucketAlreadyExists"}, "none", {}) /\ Plainly(Conflict)
    BY LeafFacts, WrapFacts DEF Conflict
  <1>2. /\ Conflict.found.is = {"BucketAlreadyExists"}
        /\ Conflict.found.api = "none" /\ Conflict.found.obs = {}
    BY <1>1 DEF Found
  <1>3. isUserCorrectableBucketErrorType(Conflict.found)
    BY <1>2 DEF isUserCorrectableBucketErrorType, Is
  <1>4. bucketReadyStatusCondition(Conflict.found) = "BucketAlreadyExists"
    BY <1>2 DEF bucketReadyStatusCondition, Is, IsNotFound
  <1> QED
    BY <1>1, <1>3, <1>4, ClassFacts DEF Agrees, Plainly, Coarse

(* The conflict joined with a failure that another attempt may cure: the     *)
(* parts that a user must correct do not hide it.                           *)
LEMMA JoinedAgrees ==
    ASSUME NEW e, ~e.correctable, NEW is, is \cap Correctable = {}, NEW api,
           e.found = Found(is, api, {})
    PROVE  Agrees(Join(Conflict, e),
                  IF api = "NotFound" THEN "AlreadyExistsGone" ELSE "AlreadyExistsKept")
  <1> DEFINE j == Join(Conflict, e)
             c == IF api = "NotFound" THEN "AlreadyExistsGone" ELSE "AlreadyExistsKept"
  <1> SUFFICES Agrees(j, c)
    OBVIOUS
  <1>1. /\ j.found = Both(Conflict.found, e.found)
        /\ j.correctable <=> (Conflict.correctable /\ e.correctable)
    BY JoinFacts
  <1>2. ~j.correctable
    BY <1>1
  <1>3. /\ e.found.is = is /\ e.found.api = api /\ e.found.obs = {}
        /\ Conflict.found.is = {"BucketAlreadyExists"}
        /\ Conflict.found.api = "none" /\ Conflict.found.obs = {}
    BY ConflictAgrees DEF Found
  <1>4. /\ j.found.is = {"BucketAlreadyExists"} \cup is
        /\ j.found.api = api /\ j.found.obs = {}
    BY <1>1, <1>3 DEF Both, Found
  <1> HIDE DEF j
  <1>5. bucketReadyStatusCondition(j.found) =
           IF api = "NotFound" THEN "ProviderConfigNotFound" ELSE "BucketAlreadyExists"
    BY <1>4 DEF bucketReadyStatusCondition, Is, IsNotFound, Correctable
  <1> QED
    BY <1>2, <1>5, ClassFacts DEF Agrees, Coarse

-----------------------------------------------------------------------------
(* The sites.                                                              *)

(* Every error agrees with its class, as the Bucket controller reads it, the *)
(* one of a conflict is the conflict, and the conditions name what is wrong. *)
ErrorsSound ==
    /\ OfBucket => Agrees(err, class)
    /\ site = "conflict" => err = Conflict
    /\ ProviderReasonsAgree

(* What an unusable ProviderConfig is called by both conditions.            *)
LEMMA Complaints ==
    /\ \A api : bucketReadyStatusCondition(Found({"ProviderConfigNotFound"}, api, {}))
                  = Complaint("config")
    /\ \A api : LET f == Found({"CredentialsSecretNotFound"}, api, {})
                IN  /\ bucketReadyStatusCondition(f) = Complaint("secret")
                    /\ providerConfigReadyCondition(f) = Complaint("secret")
    /\ LET f == Found({"MissingCredentials"}, "none", {})
       IN  /\ bucketReadyStatusCondition(f) = Complaint("credentials")
           /\ providerConfigReadyCondition(f) = Complaint("credentials")
    /\ LET f == Found({"InvalidEndpoint"}, "none", {})
       IN  /\ bucketReadyStatusCondition(f) = Complaint("endpoint")
           /\ providerConfigReadyCondition(f) = Complaint("endpoint")
  BY DEF Found, bucketReadyStatusCondition, providerConfigReadyCondition, Is, IsNotFound, Complaint

(* Nothing that tells what is wrong: a client that was not built.          *)
LEMMA BuildComplaint ==
    ASSUME NEW f, NEW is, is \subseteq {"network", "canceled", "build"}, NEW api,
           api \in {"none", "Timeout"}, f = Found(is, api, {})
    PROVE  /\ providerConfigReadyCondition(f) = Complaint("resolve")
           /\ providerConfigReadyCondition(f) = Complaint("interrupted")
  <1>1. f.is = is /\ f.api = api
    BY DEF Found
  <1> QED
    BY <1>1 DEF providerConfigReadyCondition, Is, IsNotFound, Complaint

(* Errors of resolveBucketClient.                                          *)
LEMMA ResolveStep ==
    ASSUME ResolveFails
    PROVE  ErrorsSound'
  <1> DEFINE N(kind) == resolutionNotFoundError(kind, StatusError("NotFound"))
  <1>1. ASSUME NEW e, Arises("config", e, "Provider"), Agrees(e, "Provider"),
               bucketReadyStatusCondition(e.found) = Complaint("config")
        PROVE  ErrorsSound'
    BY <1>1 DEF Arises, ErrorsSound, OfBucket, ProviderReasonsAgree
  <1>2. ASSUME NEW s \in {"secret", "credentials", "endpoint"}, NEW e, Arises(s, e, "Provider"),
               Agrees(e, "Provider"), bucketReadyStatusCondition(e.found) = Complaint(s),
               providerConfigReadyCondition(e.found) = Complaint(s)
        PROVE  ErrorsSound'
    BY <1>2 DEF Arises, ErrorsSound, OfBucket, ProviderReasonsAgree
  <1>3. ASSUME NEW e, Plainly(e), NEW is, is \subseteq {"network", "canceled", "build"}, NEW api,
               api \in {"none", "Timeout"}, e.found = Found(is, api, {}),
               Arises("resolve", e, "Transient")
        PROVE  ErrorsSound'
    <2>1. Agrees(e, "Transient")
      BY <1>3, TransientAgrees DEF Correctable
    <2>2. providerConfigReadyCondition(e.found) = Complaint("resolve")
      BY <1>3, BuildComplaint
    <2> QED
      BY <1>3, <2>1, <2>2 DEF Arises, ErrorsSound, OfBucket, ProviderReasonsAgree
  <1>4. ASSUME NEW kind \in Correctable
        PROVE  /\ N(kind).found = Found({kind}, "NotFound", {}) /\ Agrees(N(kind), "Provider")
               /\ Wrap(Leaf(kind)).found = Found({kind}, "none", {})
               /\ Agrees(Wrap(Leaf(kind)), "Provider")
    <2>1. N(kind).found = Found({kind}, "NotFound", {}) /\ Plainly(N(kind))
      BY ResolutionFacts
    <2>2. Wrap(Leaf(kind)).found = Found({kind}, "none", {}) /\ Plainly(Wrap(Leaf(kind)))
      BY LeafFacts, WrapFacts
    <2> HIDE DEF N
    <2> QED
      BY <2>1, <2>2, ProviderAgrees
  <1>5. CASE Arises("config", N("ProviderConfigNotFound"), "Provider")
    <2> HIDE DEF N
    <2> QED
      BY <1>1, <1>4, <1>5, Complaints DEF Correctable
  <1>6. CASE Arises("secret", N("CredentialsSecretNotFound"), "Provider")
    <2> HIDE DEF N
    <2> QED
      BY <1>2, <1>4, <1>6, Complaints DEF Correctable
  <1>7. CASE Arises("credentials", Wrap(Leaf("MissingCredentials")), "Provider")
    BY <1>2, <1>4, <1>7, Complaints DEF Correctable
  <1>8. CASE Arises("endpoint", Wrap(Leaf("InvalidEndpoint")), "Provider")
    BY <1>2, <1>4, <1>8, Complaints DEF Correctable
  <1>9. ASSUME NEW e \in ApiFailures \cup {Wrap(Leaf("build"))}, Arises("resolve", e, "Transient")
        PROVE  ErrorsSound'
    <2>1. CASE e = Wrap(Leaf("build"))
      <3>1. e.found = Found({"build"}, "none", {}) /\ Plainly(e)
        BY <2>1, LeafFacts, WrapFacts
      <3> QED
        BY <1>3, <1>9, <3>1
    <2>2. CASE e \in ApiFailures
      <3>1. Plainly(e)
        BY <2>2, ApiFailureFacts
      <3>2. PICK is \in SUBSET {"network", "canceled"} :
               \E api \in {"none", "Timeout"} : e.found = Found(is, api, {})
        BY <2>2, ApiFailureFacts
      <3>3. PICK api \in {"none", "Timeout"} : e.found = Found(is, api, {})
        BY <3>2
      <3>4. is \subseteq {"network", "canceled", "build"}
        BY <3>2
      <3> QED
        BY <1>3, <1>9, <3>1, <3>3, <3>4
    <2> QED
      BY <1>9, <2>1, <2>2
  <1> QED
    BY <1>5, <1>6, <1>7, <1>8, <1>9 DEF ResolveFails

(* Errors of the calls to OBS.                                             *)
LEMMA CallStep ==
    ASSUME CallFails \/ PurgeFails \/ CreateFails
    PROVE  ErrorsSound'
  <1> DEFINE Sites == {"observe", "update", "delete", "create"}
  <1>1. ASSUME NEW s \in Sites, NEW e, NEW c, Arises(s, e, c), Agrees(e, c)
        PROVE  ErrorsSound'
    BY <1>1 DEF Arises, ErrorsSound, OfBucket, ProviderReasonsAgree
  <1>2. ASSUME NEW e, Plainly(e), NEW w \in {"network", "canceled", "objects"},
               e.found = Found({w}, "none", {})
        PROVE  Agrees(e, "Transient")
    <2>1. {w} \cap (Correctable \cup {"BucketAlreadyExists"}) = {}
      BY DEF Correctable
    <2> QED
      BY <1>2, <2>1, TransientAgrees
  <1>3. Agrees(Wrap(Unanswered), "Transient")
    BY <1>2, UnansweredFacts, WrapFacts
  <1>4. ASSUME Arises("conflict", Conflict, "AlreadyExists") PROVE ErrorsSound'
    BY <1>4, ConflictAgrees DEF Arises, ErrorsSound, OfBucket, ProviderReasonsAgree
  <1>5. CASE CallFails
    <2>1. PICK s \in {"observe", "update", "delete"} :
             \/ Arises(s, Wrap(Unanswered), "Transient")
             \/ \E a \in Answers : Arises(s, Wrap(ObsError(a)), Meaning(a))
      BY <1>5 DEF CallFails
    <2> QED
      BY <1>1, <1>3, <2>1, AnswerAgrees
  <1>6. CASE PurgeFails
    <2>1. PICK w \in {"canceled", "objects"} : Arises("delete", Leaf(w), "Transient")
      BY <1>6 DEF PurgeFails
    <2>2. Agrees(Leaf(w), "Transient")
      BY <1>2, LeafFacts
    <2> QED
      BY <1>1, <2>1, <2>2
  <1>7. CASE CreateFails
    <2>1. \/ Arises("create", Wrap(Unanswered), "Transient")
          \/ \E a \in Answers : Arises("create", Wrap(ObsError(a)), Meaning(a))
          \/ Arises("conflict", Conflict, "AlreadyExists")
      BY <1>7 DEF CreateFails
    <2> QED
      BY <1>1, <1>3, <1>4, <2>1, AnswerAgrees
  <1> QED
    BY <1>5, <1>6, <1>7

(* The finalizer that cannot be removed.                                   *)
LEMMA RemoveStep ==
    ASSUME ErrorsSound, RemoveFails
    PROVE  ErrorsSound'
  <1>1. err = Conflict
    BY DEF ErrorsSound, RemoveFails
  <1>2. ASSUME NEW d, NEW is, is \cap (Correctable \cup {"BucketAlreadyExists"}) = {}, NEW api,
               Plainly(d), d.found = Found(is, api, {})
        PROVE  Agrees(Join(Conflict, Wrap(d)),
                      IF api = "NotFound" THEN "AlreadyExistsGone" ELSE "AlreadyExistsKept")
    <2>1. Wrap(d).found = Found(is, api, {}) /\ Plainly(Wrap(d))
      BY <1>2, WrapFacts
    <2>2. Wrap(d).found.is = is /\ Wrap(d).found.obs = {}
      BY <2>1 DEF Found
    <2>3. ~isUserCorrectableBucketErrorType(Wrap(d).found)
      BY <1>2, <2>2
         DEF isUserCorrectableBucketErrorType, Is, isNonRetryableOBSRequestError, Correctable
    <2>4. ~Wrap(d).correctable
      BY <2>1, <2>3 DEF Plainly
    <2>5. is \cap Correctable = {}
      BY <1>2
    <2> QED
      BY <2>1, <2>4, <2>5, JoinedAgrees
  <1>3. ASSUME NEW e \in ApiFailures \cup {StatusError("Invalid")}
        PROVE  Agrees(Join(Conflict, Wrap(e)), "AlreadyExistsKept")
    <2>1. ASSUME NEW is, is \subseteq {"network", "canceled"}, NEW api,
                 api \in {"none", "Timeout", "Invalid"}, Plainly(e), e.found = Found(is, api, {})
          PROVE  Agrees(Join(Conflict, Wrap(e)), "AlreadyExistsKept")
      <3>1. is \cap (Correctable \cup {"BucketAlreadyExists"}) = {}
        BY <2>1 DEF Correctable
      <3>2. Agrees(Join(Conflict, Wrap(e)),
                   IF api = "NotFound" THEN "AlreadyExistsGone" ELSE "AlreadyExistsKept")
        BY <1>2, <2>1, <3>1
      <3> QED
        BY <2>1, <3>2
    <2>2. CASE e \in ApiFailures
      <3>1. Plainly(e)
        BY <2>2, ApiFailureFacts
      <3>2. PICK is \in SUBSET {"network", "canceled"} :
               \E api \in {"none", "Timeout"} : e.found = Found(is, api, {})
        BY <2>2, ApiFailureFacts
      <3>3. PICK api \in {"none", "Timeout"} : e.found = Found(is, api, {})
        BY <3>2
      <3> QED
        BY <2>1, <3>1, <3>2, <3>3
    <2>3. CASE e = StatusError("Invalid")
      <3>1. e.found = Found({}, "Invalid", {}) /\ Plainly(e)
        BY <2>3, LeafFacts
      <3> QED
        BY <2>1, <3>1
    <2> QED
      BY <1>3, <2>2, <2>3
  <1>4. Agrees(Join(Conflict, Wrap(StatusError("NotFound"))), "AlreadyExistsGone")
    <2> DEFINE e == StatusError("NotFound")
    <2>1. e.found = Found({}, "NotFound", {}) /\ Plainly(e)
      BY LeafFacts
    <2>2. Agrees(Join(Conflict, Wrap(e)),
                 IF "NotFound" = "NotFound" THEN "AlreadyExistsGone" ELSE "AlreadyExistsKept")
      BY <1>2, <2>1
    <2> QED
      BY <2>2
  <1>5. ASSUME NEW e, NEW c, Arises("remove", e, c), Agrees(e, c) PROVE ErrorsSound'
    BY <1>5 DEF Arises, ErrorsSound, OfBucket, ProviderReasonsAgree
  <1> QED
    BY <1>1, <1>3, <1>4, <1>5 DEF RemoveFails

(* A validation that is interrupted.                                       *)
LEMMA InterruptStep ==
    ASSUME Arises("interrupted", Leaf("canceled"), "none")
    PROVE  ErrorsSound'
  <1>1. Leaf("canceled").found = Found({"canceled"}, "none", {})
    BY LeafFacts
  <1>2. providerConfigReadyCondition(Leaf("canceled").found) = Complaint("interrupted")
    BY <1>1, BuildComplaint
  <1> QED
    BY <1>2 DEF Arises, ErrorsSound, OfBucket, ProviderReasonsAgree

(* A validation that fails, whatever OBS answered.                         *)
LEMMA ValidateStep ==
    ASSUME NEW e \in {Unanswered} \cup {ObsError(a) : a \in Answers},
           Arises("validate", Join(Leaf("ValidationFailed"), e), "none")
    PROVE  ErrorsSound'
  <1>2. \E is \in SUBSET {"network"} : \E obs : e.found = Found(is, "none", obs)
    <2>1. CASE e = Unanswered
      BY <2>1, UnansweredFacts
    <2>2. CASE e \in {ObsError(a) : a \in Answers}
      <3>1. PICK a \in Answers : e = ObsError(a)
        BY <2>2
      <3>2. e.found = Found({}, "none", {a})
        BY <3>1, LeafFacts
      <3> QED
        BY <3>2
    <2> QED
      BY <2>1, <2>2
  <1>3. PICK is \in SUBSET {"network"} : \E obs : e.found = Found(is, "none", obs)
    BY <1>2
  <1>4. e.found.is = is /\ e.found.api = "none"
    BY <1>3 DEF Found
  <1> DEFINE d == Leaf("ValidationFailed")
             j == Join(d, e)
  <1>5. d.found.is = {"ValidationFailed"} /\ d.found.api = "none"
    <2>1. d.found = Found({"ValidationFailed"}, "none", {})
      BY LeafFacts
    <2> HIDE DEF d
    <2> QED
      BY <2>1 DEF Found
  <1>6. j.found = Both(d.found, e.found)
    BY JoinFacts
  <1>7. j.found.is = {"ValidationFailed"} \cup is /\ j.found.api = "none"
    BY <1>4, <1>5, <1>6 DEF Both, Found
  <1> HIDE DEF j, d
  <1>8. providerConfigReadyCondition(j.found) = Complaint("validate")
    BY <1>3, <1>7 DEF providerConfigReadyCondition, Is, IsNotFound, Complaint
  <1>9. site' = "validate" /\ err' = j
    BY DEF Arises, j, d
  <1> QED
    BY <1>8, <1>9 DEF ErrorsSound, OfBucket, ProviderReasonsAgree

(* Every error agrees with its class.                                      *)
LEMMA ErrorsStep == ErrorsSound /\ [Next]_vars => ErrorsSound'
  <1> SUFFICES ASSUME ErrorsSound, [Next]_vars PROVE ErrorsSound'
    OBVIOUS
  <1>1. CASE UNCHANGED failure
    BY <1>1 DEF failure, ErrorsSound, OfBucket, ProviderReasonsAgree
  <1>2. CASE Handled
    BY <1>2 DEF Handled, Arises, ErrorsSound, OfBucket, ProviderReasonsAgree
  <1>3. CASE Fail
    BY <1>2, <1>3, ResolveStep, CallStep, RemoveStep, InterruptStep, ValidateStep
       DEF Fail, ValidateFails
  <1> QED
    BY <1>1, <1>3 DEF Next, Report, EditEndpoint, EditSecret, vars, failure

LEMMA ErrorsInit == Init => ErrorsSound
  BY DEF Init, ErrorsSound, OfBucket, ProviderReasonsAgree

(* The recursion over an error tree retries exactly what BucketRules says is *)
(* retried, for answers of OBS with any status and any code.                *)
THEOREM RetriesAsClassified == Spec => []RetriesAgree
  <1>1. ErrorsSound => RetriesAgree
    BY DEF ErrorsSound, RetriesAgree, Agrees
  <1> QED
    BY <1>1, ErrorsInit, ErrorsStep, PTL DEF Spec

(* The condition gives the reason of the error's class, also for an error    *)
(* that joins several.                                                     *)
THEOREM ReasonsAsClassified == Spec => []ReasonsAgree
  <1>1. ErrorsSound => ReasonsAgree
    BY DEF ErrorsSound, ReasonsAgree, Agrees
  <1> QED
    BY <1>1, ErrorsInit, ErrorsStep, PTL DEF Spec

(* Both conditions name what is wrong with a ProviderConfig, each failing    *)
(* step by a reason of its own, for answers of OBS with any status and code. *)
THEOREM ProviderReasonsAsClassified == Spec => []ProviderReasonsAgree
  <1>1. ErrorsSound => ProviderReasonsAgree
    BY DEF ErrorsSound
  <1> QED
    BY <1>1, ErrorsInit, ErrorsStep, PTL DEF Spec
=============================================================================
