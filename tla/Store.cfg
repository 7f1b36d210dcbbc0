CONSTANTS
    c1 = c1  c2 = c2  r1 = r1  r2 = r2  s1 = s1  s2 = s2  p1 = p1  p2 = p2
    u1 = u1  u2 = u2  t1 = t1  t2 = t2  e1 = e1  i1 = i1  i2 = i2  f1 = f1  f2 = f2
    None = None  NoText = NoText
    Clients = {c1, c2}  Resources = {r1, r2}  Sources = {s1, s2}  Reps = {p1, p2}
    Units = {u1, u2}  Texts = {t1, t2, NoText}  Spaces = {e1}  Idents = {i1, i2}
    Facets = {f1, f2}  Batches <- TableBatches  MaxTokens = 5  RaceTokens = 3
SPECIFICATION MCSpec
INVARIANTS StoreSound CallsSerial
PROPERTIES StepsLawful ImplementsPublication
