---------------------------- MODULE ProviderInputs ----------------------------
(***************************************************************************)
(* What the resolver makes of a ProviderConfig's endpoint and of a Secret's *)
(* data: the parts of the cache key.  ProviderCache takes the outcome as a  *)
(* version or a failure; here it is computed.  Texts whose boundaries       *)
(* matter (trimming, hashing) are sequences, a URL is its parts.            *)
(***************************************************************************)
EXTENDS Integers, Sequences, SequencesExt

CONSTANTS
    Hosts,      \* hosts, with or without a port, that url.Parse takes
    Derived,    \* the host derived from the region, one of Hosts
    Letters,    \* letters of Secret values
    MaxLen      \* bound on the length of a Secret's value

-----------------------------------------------------------------------------
(* Endpoints.                                                              *)

Endpoints == [pad : {"", " "}, scheme : {"", "https", "http"}, host : Hosts \cup {"", "malformed"},
              path : {"", "/", "/path"}, tail : {"", "?query", "#fragment"}]

(* An endpoint of a scheme and a host only.                                *)
Plain(scheme, host) ==
    [pad |-> "", scheme |-> scheme, host |-> host, path |-> "", tail |-> ""]

Absent      == Plain("", "")
Https(host) == Plain("https", host)
Invalid     == Plain("", "ErrInvalidEndpoint")

(* The CRD's pattern: optional https://, a host, an optional slash; or no   *)
(* endpoint at all.                                                        *)
Admitted(e) ==
    \/ e = Absent
    \/ /\ e.pad = "" /\ e.tail = ""
       /\ e.scheme \in {"", "https"} /\ e.host \in Hosts /\ e.path \in {"", "/"}

(* TrimSpace, then the default, then the default scheme.                    *)
Completed(e) ==
    LET trimmed == [e EXCEPT !.pad = ""]
        given   == IF trimmed = Absent THEN Https(Derived) ELSE trimmed
    IN  IF given.scheme = "" THEN [given EXCEPT !.scheme = "https"] ELSE given

(* Mutants of ResolveEndpoint: the scheme is not completed; the trailing     *)
(* slash is kept.                                                          *)
ResolveSchemed(e) ==
    IF e = Absent THEN Https(Derived)
    ELSE IF e.scheme = "https" /\ e.host \in Hosts THEN Https(e.host) ELSE Invalid
ResolveWithSlash(e) ==
    LET u == Completed(e)
    IN  IF u.scheme = "https" /\ u.host \in Hosts /\ u.path \in {"", "/"} /\ u.tail = ""
        THEN u ELSE Invalid

ResolveEndpoint(e) ==
    LET u == Completed(e)
    IN  IF u.scheme = "https" /\ u.host \in Hosts /\ u.path \in {"", "/"} /\ u.tail = ""
        THEN [u EXCEPT !.path = ""] ELSE Invalid

-----------------------------------------------------------------------------
(* Credentials.                                                            *)

Nul   == 0
Space == 1

Texts == BoundedSeq(Letters \cup {Space}, MaxLen)

Secrets == [accessKeyID : Texts, secretAccessKey : Texts, securityToken : Texts]

Inked(t) == {i \in DOMAIN t : t[i] # Space}

TrimSpace(t) ==
    IF Inked(t) = {} THEN <<>>
    ELSE SubSeq(t, CHOOSE i \in Inked(t) : \A j \in Inked(t) : i <= j,
                   CHOOSE i \in Inked(t) : \A j \in Inked(t) : i >= j)

Missing == "ErrMissingCredentials"

(* Mutant of CredentialsFromSecret: the required keys are checked before     *)
(* they are trimmed.                                                       *)
CredentialsUntrimmed(s) ==
    IF s.accessKeyID = <<>> \/ s.secretAccessKey = <<>> THEN <<Missing>>
    ELSE <<TrimSpace(s.accessKeyID), TrimSpace(s.secretAccessKey), TrimSpace(s.securityToken)>>

CredentialsFromSecret(s) ==
    LET c == <<TrimSpace(s.accessKeyID), TrimSpace(s.secretAccessKey), TrimSpace(s.securityToken)>>
    IN  IF c[1] = <<>> \/ c[2] = <<>> THEN <<Missing>> ELSE c

(* Mutant of Hash: the values follow each other without a separator.         *)
HashUnseparated(c) == c[1] \o c[2] \o c[3]

(* SHA-256 is taken as collision-free: what is hashed stands for the hash.   *)
Hash(c) == c[1] \o <<Nul>> \o c[2] \o <<Nul>> \o c[3]

ASSUME InputAssumptions ==
    Derived \in Hosts /\ {Nul, Space} \cap Letters = {} /\ MaxLen \in Nat
=============================================================================
