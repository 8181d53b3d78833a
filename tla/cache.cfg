SPECIFICATION Spec
CONSTANTS
    Configs = {p1}
    Versions = {v1, v2}
    Absent = Absent
    Clients = {c1, c2, c3}
    None = None
    Reconcilers = {bucket, providerconfig}
    Validators = {providerconfig}
SYMMETRY Interchangeable
INVARIANTS TypeOK NoLeak ClosedOnce CachedOpen UsesOwnInputs
