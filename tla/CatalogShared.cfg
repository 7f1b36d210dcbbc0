CONSTANTS
    None = None
    Apps = {a1, a2}  Upgraders = {u1, u2}  Resources = {r1}  Files = {f1, f2, f3}
    Migrations = 2  InitCatalogs = {"none", "old"}
    Faults = {"crash", "error", "late", "busy"}  MaxFaults = 2
SPECIFICATION FairSpec
INVARIANTS OpenedComplete CommitsKept
PROPERTIES StatesKept OpensEnd
