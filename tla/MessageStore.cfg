CONSTANTS
  p1 = p1
  p2 = p2
  c1 = c1
  c2 = c2
  m1 = m1
  m2 = m2
  m3 = m3
  k1 = k1
  None = None
  Processes = {p1, p2}
  Conversations = {c1, c2}
  Messages = {m1, m2, m3}
  ConvOf <- MCConvOf
  UuidMessages = {m1, m3}
  ValidMessages = {m1, m2}
  LockKeys = {k1}
  HashText <- MCHashText
  MaxMinted = 5
  MaxPublishes = 3
  MaxFailures = 1
  MaxOutages = 2
SPECIFICATION Spec
SYMMETRY MCSymmetry
INVARIANTS TypeOK SeqGapFree StoredOnce 
PROPERTY ImplementsLog
CHECK_DEADLOCK FALSE
