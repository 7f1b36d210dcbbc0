CONSTANTS
    w1 = w1  w2 = w2  r1 = r1  s1 = s1  top = top  ocr = ocr  cap = cap  a = a  b = b
    x = x  y = y  lex = lex  dense = dense  g1 = g1  g2 = g2  raw1 = raw1  raw2 = raw2  m1 = m1  m2 = m2
    None = None  Resources = {r1}  Sources = {s1}  Slots = {top, ocr, cap}
    Revisions = {a, b}  Materials = {x, y}  Forms = {lex, dense}  Generations = {g1, g2}
    Raws = {raw1, raw2}  Metas = {m1, m2}
    Workers = {w1, w2}  Templates <- RaceTemplates  Imports <- RaceImports
    MaxRetries = 1  MaxTokens = 3
SPECIFICATION Spec
INVARIANT GraphsConsistent
PROPERTIES OldWorkRejected WritesSpare AnswersTrue JobsAdvance
SYMMETRY Symmetry
CHECK_DEADLOCK FALSE
