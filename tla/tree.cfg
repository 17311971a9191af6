CONSTANTS
    base = base
    pool = pool
    data = data
    one = one
    two = two
    vault = vault
    bare = bare
    inner = inner
    deep = deep
    Base = base
    Node <- Nodes
    Parent <- Parents
    Position <- ByName
    Include = {data, one, vault}
    Exclude = {two}
    NoSnaps = {bare}
    Encrypted = {vault, bare, inner, deep}
    ForceOverwrite = {data}
    Parallelisms = {1, 2, 3}
    MaxFaults = 2
SPECIFICATION FairSpec
INVARIANTS
    TypeOK
    NothingPlainBelowEncrypted
    FirstRunDelivers
PROPERTIES
    LeavesArrive
