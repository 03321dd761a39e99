CONSTANTS
  p1 = p1
  p2 = p2
  p3 = p3
  Procs = {p1, p2}
  Online <- TwoCpus
  Requests <- SomeNumbers
  FirmwareBits = 4
  PfBit = 8
  WordSize = 16
SPECIFICATION FairSpec
INVARIANTS OnlyOpensRace AnswerIsCurrent
PROPERTIES QueryReturns
