----------------------------- MODULE BucketErrors -----------------------------
(***************************************************************************)
(* Errors as the code builds them, trees of wrapped and joined errors, and *)
(* what the controllers decide on them: whether a Bucket's failure is       *)
(* retried and which reason the conditions give.  BucketRules and           *)
(* ProviderConfigController use classes of errors instead; here the two     *)
(* are shown to agree.                                                     *)
(*                                                                         *)
(* An error stands for what the code's walks over its tree come to, worked *)
(* out from the walks over the errors it wraps: what errors.Is and         *)
(* errors.As find, whether it joins several errors, and whether            *)
(* isUserCorrectableBucketError holds.                                     *)
(***************************************************************************)
EXTENDS BucketRules

CONSTANTS
    Statuses,  \* HTTP statuses of OBS error answers
    Codes      \* codes of OBS error answers that the code does not look at

Conflicting == {"BucketAlreadyExists", "BucketAlreadyOwnedByYou"}

ASSUME AnswerAssumption ==
    /\ Statuses \subseteq Nat
    /\ Codes \cap (Conflicting \cup {"NoSuchBucket", "BucketNotEmpty"}) = {}

VARIABLES
    site,   \* where the error came up
    err,    \* the error
    class   \* its class in BucketRules

failure == <<site, err, class>>

-----------------------------------------------------------------------------
(* What the walks find: all that errors.Is would (is), the reason of the      *)
(* first Kubernetes status error (api, "none" without one) and the answer in *)
(* the first OBS error (obs, empty without one).                           *)
Found(is, api, obs) == [is |-> is, api |-> api, obs |-> obs]

(* In joined errors the walk goes from left to right.                       *)
Both(f, g) ==
    Found(f.is \cup g.is,
          IF f.api # "none" THEN f.api ELSE g.api,
          IF f.obs # {} THEN f.obs ELSE g.obs)

Is(f, sentinel) == sentinel \in f.is

(* Mutant of IsNotFound: any 404 in the error, also one of OBS.              *)
IsNotFoundAnywhere(f) == f.api = "NotFound" \/ \E a \in f.obs : a.status = 404

IsNotFound(f) == f.api = "NotFound"

isBucketNotFound(f) == \E a \in f.obs : a.status = 404 \/ a.code = "NoSuchBucket"

isBucketNotEmpty(f) == \E a \in f.obs : a.code = "BucketNotEmpty"

isCreateBucketConflict(f) == \E a \in f.obs : a.status = 409 \/ a.code \in Conflicting

isNonRetryableOBSRequestError(f) ==
    \E a \in f.obs : a.status \in 400..499 \ {404, 408, 409, 429}

isUserCorrectableBucketErrorType(f) ==
    \/ \E s \in {"ProviderConfigNotFound", "CredentialsSecretNotFound", "MissingCredentials",
                 "InvalidEndpoint", "BucketAlreadyExists"} : Is(f, s)
    \/ isNonRetryableOBSRequestError(f)

-----------------------------------------------------------------------------
(* Errors.                                                                 *)

Error(found, joined, correctable) ==
    [found |-> found, joined |-> joined, correctable |-> correctable]

(* An error that wraps none.                                               *)
Alone(f) == Error(f, FALSE, isUserCorrectableBucketErrorType(f))

Leaf(what)          == Alone(Found({what}, "none", {}))
StatusError(reason) == Alone(Found({}, reason, {}))
ObsError(a)         == Alone(Found({}, "none", {a}))

(* An error around e: correctable by itself or by what it wraps, unless that *)
(* is a joined error, which decides alone.                                 *)
Around(f, e) ==
    Error(f, FALSE, IF e.joined THEN e.correctable
                    ELSE isUserCorrectableBucketErrorType(f) \/ e.correctable)

Wrap(e) == Around(e.found, e)

resolutionNotFoundError(kind, e) ==
    Around(Found(e.found.is \cup {kind}, e.found.api, e.found.obs), e)

(* Mutant of Join: a joined error counts as whatever one of its parts is.    *)
JoinSomewhere(d, e) ==
    LET f == Both(d.found, e.found) IN Error(f, TRUE, isUserCorrectableBucketErrorType(f))

(* A joined error is correctable when all its parts are.                    *)
Join(d, e) == Error(Both(d.found, e.found), TRUE, d.correctable /\ e.correctable)

-----------------------------------------------------------------------------
(* Conditions.  The cases are tried in order.                              *)
bucketReadyStatusCondition(f) ==
    IF Is(f, "ProviderConfigNotFound") THEN "ProviderConfigNotFound"
    ELSE IF Is(f, "CredentialsSecretNotFound") THEN "CredentialsSecretNotFound"
    ELSE IF IsNotFound(f) THEN "ProviderConfigNotFound"
    ELSE IF Is(f, "MissingCredentials") THEN "CredentialsSecretInvalid"
    ELSE IF Is(f, "InvalidEndpoint") THEN "InvalidEndpoint"
    ELSE IF Is(f, "BucketAlreadyExists") THEN "BucketAlreadyExists"
    ELSE IF isBucketNotEmpty(f) THEN "BucketNotEmpty"
    ELSE IF isBucketNotFound(f) THEN "BucketNotFound"
    ELSE IF isNonRetryableOBSRequestError(f) THEN "RequestRejected"
    ELSE "ReconcileFailed"

(* Mutant of providerConfigReadyCondition: a 404 of OBS is a missing Secret. *)
readyConditionByStatus(f) ==
    IF Is(f, "CredentialsSecretNotFound") \/ IsNotFoundAnywhere(f) THEN "CredentialsSecretNotFound"
    ELSE IF Is(f, "ValidationFailed") THEN "ClientValidationFailed"
    ELSE "ClientBuildFailed"

providerConfigReadyCondition(f) ==
    IF Is(f, "CredentialsSecretNotFound") \/ IsNotFound(f) THEN "CredentialsSecretNotFound"
    ELSE IF Is(f, "MissingCredentials") THEN "CredentialsSecretInvalid"
    ELSE IF Is(f, "InvalidEndpoint") THEN "InvalidEndpoint"
    ELSE IF Is(f, "ValidationFailed") THEN "ClientValidationFailed"
    ELSE "ClientBuildFailed"

-----------------------------------------------------------------------------
(* The errors that come up at each site.                                   *)

(* Error answers of OBS: some codes go with one status.                     *)
Answers ==
    [status : Statuses, code : Codes]
    \cup [status : {404}, code : {"NoSuchBucket"}]
    \cup [status : {409}, code : Conflicting \cup {"BucketNotEmpty"}]

(* No answer at all: an error of the network library.                       *)
Unanswered == Wrap(Wrap(Leaf("network")))

(* Failures of Kubernetes calls.  Unlike those to OBS they carry the context, *)
(* and may end with it.                                                    *)
ApiFailures == {StatusError("Timeout"), Unanswered, Leaf("canceled")}

(* What an answer amounts to, by its meaning: the bucket has objects or is   *)
(* gone; another attempt may do (the server is at fault, slow, busy with a   *)
(* conflicting request or throttling); or the request will never do.        *)
Meaning(a) ==
    IF a.code = "BucketNotEmpty" THEN "NotEmpty"
    ELSE IF a.status = 404 THEN "NotFound"
    ELSE IF a.status < 400 \/ a.status >= 500 \/ a.status \in {408, 409, 429} THEN "Transient"
    ELSE "Rejected"

Arises(s, e, c) == site' = s /\ err' = e /\ class' = c

(* resolveBucketClient: the ProviderConfig is missing (which the            *)
(* ProviderConfig controller does not come across, as it holds the object), *)
(* its Secret is, the Secret lacks credentials, the endpoint is not one, or *)
(* a read or the construction of the client fails.                         *)
ResolveFails ==
    /\ site = "none"
    /\ LET NotFound(kind) == resolutionNotFoundError(kind, StatusError("NotFound")) IN
       \/ Arises("config", NotFound("ProviderConfigNotFound"), "Provider")
       \/ Arises("secret", NotFound("CredentialsSecretNotFound"), "Provider")
       \/ Arises("credentials", Wrap(Leaf("MissingCredentials")), "Provider")
       \/ Arises("endpoint", Wrap(Leaf("InvalidEndpoint")), "Provider")
       \/ \E e \in ApiFailures \cup {Wrap(Leaf("build"))} : Arises("resolve", e, "Transient")

(* A call to OBS other than CreateBucket, or the listing of a page: the error *)
(* is wrapped; "not found" is no error when observing.                      *)
CallFails ==
    /\ site = "none"
    /\ \E s \in {"observe", "update", "delete"} :
       \/ Arises(s, Wrap(Unanswered), "Transient")
       \/ \E a \in Answers :
             /\ s = "observe" => ~isBucketNotFound(ObsError(a).found)
             /\ Arises(s, Wrap(ObsError(a)), Meaning(a))

(* deleteAllBucketObjects ends with the context, or with objects that OBS    *)
(* did not delete, of whose errors it only tells the number.                *)
PurgeFails ==
    site = "none" /\ \E w \in {"canceled", "objects"} : Arises("delete", Leaf(w), "Transient")

(* A conflict on create replaces the answer by errBucketAlreadyExists.      *)
Conflict == Wrap(Leaf("BucketAlreadyExists"))

CreateFails ==
    /\ site = "none"
    /\ \/ Arises("create", Wrap(Unanswered), "Transient")
       \/ \E a \in Answers :
             IF isCreateBucketConflict(ObsError(a).found)
             THEN Arises("conflict", Conflict, "AlreadyExists")
             ELSE Arises("create", Wrap(ObsError(a)), Meaning(a))

(* The removal of the finalizer after a conflict fails too.                 *)
RemoveFails ==
    /\ site = "conflict"
    /\ \/ \E e \in ApiFailures \cup {StatusError("Invalid")} :
             Arises("remove", Join(err, Wrap(e)), "AlreadyExistsKept")
       \/ Arises("remove", Join(err, Wrap(StatusError("NotFound"))), "AlreadyExistsGone")

(* validateProviderClient: the context's end is returned as it is; with an   *)
(* error of ListBuckets, fmt.Errorf joins errProviderValidationFailed.      *)
ValidateFails ==
    /\ site = "none"
    /\ \/ Arises("interrupted", Leaf("canceled"), "none")
       \/ \E e \in {Unanswered} \cup {ObsError(a) : a \in Answers} :
             Arises("validate", Join(Leaf("ValidationFailed"), e), "none")

Handled == site # "none" /\ Arises("none", Leaf("nil"), "nil")

-----------------------------------------------------------------------------
(* Properties.                                                             *)

(* The sites of the Bucket reconciler.                                     *)
OfBucket == site \notin {"none", "validate", "interrupted"}

(* For every error the Bucket reconciler can build, the recursion over the   *)
(* error tree retries exactly the classes BucketRules retries: in particular *)
(* a joined error with one part that another attempt may cure.             *)
RetriesAgree == OfBucket => (err.correctable <=> ~Retried(class))

(* Reasons about the ProviderConfig or its credentials are one in           *)
(* BucketRules.                                                            *)
Coarse(reason) ==
    IF reason \in {"ProviderConfigNotFound", "CredentialsSecretNotFound",
                   "CredentialsSecretInvalid", "InvalidEndpoint"}
    THEN "ProviderNotReady" ELSE reason

(* ... and the condition gives the reason of that class, although errors.As  *)
(* and errors.Is look into all parts of a joined error.                    *)
ReasonsAgree == OfBucket => Coarse(bucketReadyStatusCondition(err.found)) = Reason(class)

(* What is wrong, for each site at which a ProviderConfig turns out unusable. *)
Complaint(s) ==
    CASE s = "config"      -> "ProviderConfigNotFound"
      [] s = "secret"      -> "CredentialsSecretNotFound"
      [] s = "credentials" -> "CredentialsSecretInvalid"
      [] s = "endpoint"    -> "InvalidEndpoint"
      [] s = "validate"    -> "ClientValidationFailed"
      [] OTHER             -> "ClientBuildFailed"

(* Both conditions name what is wrong with a ProviderConfig, each site by a  *)
(* reason of its own: a failed validation, whatever OBS answered to it, is   *)
(* not taken for a missing Secret, a missing ProviderConfig not for a        *)
(* missing Secret, and what was only interrupted not for denied credentials. *)
ProviderReasonsAgree ==
    /\ site \in {"config", "secret", "credentials", "endpoint"} =>
          bucketReadyStatusCondition(err.found) = Complaint(site)
    /\ site \in {"secret", "credentials", "endpoint", "resolve", "interrupted", "validate"} =>
          providerConfigReadyCondition(err.found) = Complaint(site)
=============================================================================
