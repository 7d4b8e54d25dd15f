CONSTANTS
    Clients = {c1, c2, c3}
    Anonymous = {}
    NoClient = NoClient
SPECIFICATION LockSpec
INVARIANTS
    ReleaseChecksHolder
