CONSTANTS
    None = None  NoFile = NoFile  Torn = Torn  Flipped = Flipped  Junk = Junk
    Clients = {c1, c2}  Keys = {k1}  Texts = {t1, t2}  Dirs = {d1, d2, d3, d4}
    Ops = {"generate"}  InitMarker = "ok"  MaxRetries = 1  MemCap = 1
    Faults = {"damage", "purge"}  MaxFaults = 1
SPECIFICATION FairSpec
INVARIANT OneAnswer
PROPERTY CallsEnd
