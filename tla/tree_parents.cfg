CONSTANTS
    base = base
    pool = pool
    data = data
    one = one
    two = two
    vault = vault
    bare = bare
    inner = inner
    deep = deep
    Base = base
    Node <- Nodes
    Parent <- Parents
    Position <- ByName
    Include = {data, one, vault}
    Exclude = {two}
    NoSnaps = {bare}
    Encrypted = {vault, bare, inner, deep}
    ForceOverwrite = {}
    Parallelisms = {2}
    MaxFaults = 0
SPECIFICATION FairSpec
PROPERTIES
    EverythingArrives
