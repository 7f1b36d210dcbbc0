CONSTANTS
    None = None  NoFile = NoFile  Torn = Torn  Flipped = Flipped  Junk = Junk
    Clients = {c1, c2}  Keys = {k1}  Texts = {t1}  Dirs = {d1, d2, d3, d4}
    Ops = {"generate", "put"}  InitMarker = "absent"  MaxRetries = 0  MemCap = 0
    Faults = {"crash", "write", "damage", "purge"}  MaxFaults = 1
SPECIFICATION Spec
INVARIANT CacheSound
PROPERTY EntriesImmutable
SYMMETRY Symmetry
