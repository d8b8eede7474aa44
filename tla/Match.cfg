SPECIFICATION FairSpec
CONSTANTS
  c1 = c1  c2 = c2  c3 = c3  s1 = s1  s2 = s2
  None = None
  Callers = {c1, c2, c3}
  Sigs = {s1, s2}
  Sig <- SharedSig
  Expected <- Answers
  Inspected = {c2, c3}
  MaxOwed = 2
INVARIANTS Room NoBlank
PROPERTY Freed
CHECK_DEADLOCK FALSE
