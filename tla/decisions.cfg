SPECIFICATION Spec
CONSTANTS
    MaxGrants = 4
    Hosts = {"derived", "other"}
    Derived = "derived"
    Letters = {2, 3}
    MaxLen = 2
    Statuses = {0, 399, 400, 401, 403, 404, 405, 408, 409, 412, 429, 499, 500, 503}
    Codes = {"", "InvalidArgument", "AccessDenied"}
CHECK_DEADLOCK FALSE
INVARIANTS FlattenExact AdmittedResolves SpellingsShareKey HashTellsApart
INVARIANTS RetriesAgree ReasonsAgree ProviderReasonsAgree
