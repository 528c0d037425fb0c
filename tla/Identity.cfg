SPECIFICATION Spec
CONSTANTS
  p1 = p1
  p2 = p2
  c1 = c1
  c2 = c2
  g1 = g1
  g2 = g2
  Procs = {p1, p2}
  Online = {p1}
  Conns = {c1, c2}
  Groups = {g1, g2}
  NoFile = NoFile
  Partial = Partial
  NoKey = NoKey
  MaxFiles = 3
  MaxKeys = 2
  Requests <- MCRequests
  MaxRequests = 2
SYMMETRY ConnSymmetry
INVARIANT LostOnlyByRace
INVARIANT ReloadKeepsKeys
INVARIANT AnswerCarriesUpdate
INVARIANT StaleOnlyAfterFailure
INVARIANT LastRecordDecides
