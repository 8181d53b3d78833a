------------------------------ MODULE BucketAcl ------------------------------
(***************************************************************************)
(* Comparing what OBS reports with what a Bucket asks for, where the two   *)
(* are spelled differently: canned ACLs, which OBS reports as a list of     *)
(* grants, and storage classes, which have two names                       *)
(* (bucket_controller.go, from obsBucketGrantSignature on).                *)
(*                                                                         *)
(* A grant is a record; its uri is the sequence of its path segments.       *)
(***************************************************************************)
EXTENDS Naturals, Sequences, FiniteSets

ACLs == {"private", "public-read", "public-read-write", "log-delivery-write"}

(* Mutant of normalizeObsBucketGrantURI: the URI is compared as it comes.    *)
uriAsIs(type, uri) == IF uri = <<>> THEN "" ELSE uri[1]

normalizeObsBucketGrantURI(type, uri) ==
    IF type = "User" \/ uri = <<>> THEN "" ELSE uri[Len(uri)]

(* obsBucketGrantSignature: what makes two grants the same.                 *)
Signature(type, id, uri, permission, delivered) ==
    [type |-> type, id |-> id, uri |-> uri, permission |-> permission, delivered |-> delivered]

signatureOf(g) ==
    Signature(g.type, g.id, normalizeObsBucketGrantURI(g.type, g.uri), g.permission, g.delivered)

ownerGrant(owner)       == Signature("User", owner, "", "FULL_CONTROL", FALSE)
publicReadGrant         == Signature("Group", "", "AllUsers", "READ", FALSE)
publicWriteGrant        == Signature("Group", "", "AllUsers", "WRITE", FALSE)
logDeliveryWriteGrant   == Signature("Group", "", "LogDelivery", "WRITE", FALSE)
logDeliveryReadACPGrant == Signature("Group", "", "LogDelivery", "READ_ACP", FALSE)

(* The grants each canned ACL stands for.                                  *)
CannedGrants(acl, owner) ==
    CASE acl = "private"            -> {ownerGrant(owner)}
      [] acl = "public-read"        -> {ownerGrant(owner), publicReadGrant}
      [] acl = "public-read-write"  -> {ownerGrant(owner), publicReadGrant, publicWriteGrant}
      [] acl = "log-delivery-write" ->
            {ownerGrant(owner), logDeliveryWriteGrant, logDeliveryReadACPGrant}

(* The set of signatures in a list of grants.                              *)
actualSet(actual) == {signatureOf(actual[i]) : i \in 1..Len(actual)}

(* Mutants of obsBucketACLMatches: the lengths are not compared; the other   *)
(* inclusion is tested.                                                    *)
matchesAnyLength(actual, expected) == expected \subseteq actualSet(actual)
matchesBackwards(actual, expected) ==
    Len(actual) = Cardinality(expected) /\ actualSet(actual) \subseteq expected

(* The expected grants are distinct, so they are a set.                     *)
obsBucketACLMatches(actual, expected) ==
    /\ Len(actual) = Cardinality(expected)
    /\ expected \subseteq actualSet(actual)

(* The canned ACL a list of grants amounts to, or "" (ok = false).           *)
flattenObsBucketCannedACL(owner, grants) ==
    IF owner # "" /\ \E acl \in ACLs : obsBucketACLMatches(grants, CannedGrants(acl, owner))
    THEN CHOOSE acl \in ACLs : obsBucketACLMatches(grants, CannedGrants(acl, owner))
    ELSE ""

(* Mutant of normalizeStorageClass: only one of the two aliases is known.    *)
normalizeWarmOnly(class) == IF class = "STANDARD_IA" THEN "WARM" ELSE class

normalizeStorageClass(class) ==
    CASE class = "STANDARD_IA" -> "WARM"
      [] class = "GLACIER"     -> "COLD"
      [] OTHER                 -> class

(* Defaults, for a field that is not set.                                  *)
bucketStorageClass(class) == IF class = "" THEN "STANDARD" ELSE class
bucketACL(acl)            == IF acl = "" THEN "private" ELSE acl
=============================================================================
