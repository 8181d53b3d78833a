------------------------------ MODULE Decisions ------------------------------
(***************************************************************************)
(* Decisions that the controllers and the resolver take from data of others: *)
(* the grants OBS reports (BucketAcl), the endpoint and the Secret users    *)
(* write (ProviderInputs), the errors of calls (BucketErrors).  They share  *)
(* no state; a behaviour explores one of them.                             *)
(***************************************************************************)
EXTENDS BucketAcl, ProviderInputs, BucketErrors

CONSTANT MaxGrants  \* bound: grants in a list

ASSUME GrantsAssumption == MaxGrants \in Nat

VARIABLES
    about,     \* what is explored
    owner,     \* the owner in a GetBucketAcl answer
    meant,     \* the signatures of its grants
    reported,  \* the grants as spelled in the answer
    endpoint,  \* spec.endpoint of a ProviderConfig
    secret     \* the data of a Secret

grants == <<owner, meant, reported>>
inputs == <<endpoint, secret>>
vars   == <<about, owner, meant, reported, endpoint, secret, site, err, class>>

Meanings ==
    (UNION {CannedGrants(acl, "owner") : acl \in ACLs}) \cup
    {Signature("User", "stranger", "", "FULL_CONTROL", FALSE),
     Signature("User", "owner", "", "READ", FALSE),
     Signature("Group", "", "AllUsers", "READ", TRUE)}

(* OBS spells the grant: the owner of a User grant is in its id, whatever    *)
(* the URI says; a group's URI comes in full or as its last segment only.   *)
Spellings(g) ==
    IF g.type = "User" THEN {[g EXCEPT !.uri = <<>>], [g EXCEPT !.uri = <<"users", g.id>>]}
                       ELSE {[g EXCEPT !.uri = <<@>>], [g EXCEPT !.uri = <<"groups", "global", @>>]}

Init ==
    /\ about \in {"grants", "endpoint", "secret", "failure"}
    /\ owner \in {"owner", ""} /\ meant = <<>> /\ reported = <<>>
    /\ about # "grants" => owner = "owner"
    /\ endpoint = Absent
    /\ secret = [accessKeyID |-> <<>>, secretAccessKey |-> <<>>, securityToken |-> <<>>]
    /\ site = "none" /\ err = Leaf("nil") /\ class = "nil"

Report ==
    /\ about = "grants" /\ Len(meant) < MaxGrants
    /\ \E g \in Meanings :
          /\ meant' = Append(meant, g)
          /\ \E spelled \in Spellings(g) : reported' = Append(reported, spelled)
    /\ UNCHANGED <<about, owner, inputs, failure>>

EditEndpoint ==
    /\ about = "endpoint" /\ endpoint' \in Endpoints
    /\ UNCHANGED <<about, grants, secret, failure>>

EditSecret ==
    /\ about = "secret" /\ secret' \in Secrets
    /\ UNCHANGED <<about, grants, endpoint, failure>>

Fail ==
    /\ about = "failure"
    /\ \/ ResolveFails \/ CallFails \/ PurgeFails \/ CreateFails \/ RemoveFails
       \/ ValidateFails \/ Handled
    /\ UNCHANGED <<about, grants, inputs>>

Next == Report \/ EditEndpoint \/ EditSecret \/ Fail

Spec == Init /\ [][Next]_vars

-----------------------------------------------------------------------------
(* Properties, beside those of BucketErrors.                               *)

(* flattenObsBucketCannedACL names a canned ACL exactly when the list holds *)
(* each of its grants once and nothing else, in whatever order and spelling *)
(* and also when a list of the right length repeats a grant: a duplicate    *)
(* never stands in for a missing one.                                      *)
FlattenExact ==
    \A acl \in ACLs :
        flattenObsBucketCannedACL(owner, reported) = acl <=>
            /\ owner # ""
            /\ ToSet(meant) = CannedGrants(acl, owner)
            /\ IsInjective(meant)

(* ResolveEndpoint takes every endpoint the CRD lets in, so that no stored  *)
(* ProviderConfig is ever reported as InvalidEndpoint.                     *)
AdmittedResolves == Admitted(endpoint) => ResolveEndpoint(endpoint) # Invalid

(* All spellings of one endpoint (white space, scheme left out, trailing     *)
(* slash, derived from the region or written out) resolve to one cache key,  *)
(* endpoints of different hosts never do, and the result resolves to itself: *)
(* an edit of the spelling does not replace a client, an edit of the host    *)
(* does.                                                                   *)
SpellingsShareKey ==
    LET r == ResolveEndpoint(endpoint)
    IN  r # Invalid =>
          /\ ResolveEndpoint(r) = r
          /\ \A e \in Endpoints :
                ResolveEndpoint(e) # Invalid =>
                    (ResolveEndpoint(e) = r <=> Completed(e).host = Completed(endpoint).host)

(* Credentials that are taken have both required values, however the Secret  *)
(* pads them, and their hash belongs to no other credentials: a change of    *)
(* any of the three values, and only that, changes the cache key.  (For      *)
(* values without NUL, the separator; no letter of Texts is one.)           *)
HashTellsApart ==
    LET c == CredentialsFromSecret(secret)
    IN  c # <<Missing>> =>
          /\ c[1] # <<>> /\ c[2] # <<>>
          /\ \A x, y, z \in {TrimSpace(t) : t \in Texts} :
                Hash(<<x, y, z>>) = Hash(c) => <<x, y, z>> = c
=============================================================================
