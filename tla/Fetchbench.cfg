CONSTANTS
  p1 = p1
  p2 = p2
  cpu0 = cpu0
  cpu1 = cpu1
  Procs = {p1, p2}
  Cpus = {cpu0, cpu1}
  Intel = TRUE
  RegBits = {"ip", "next"}
  PfBits = {"ip", "next"}
  Stride = "ip"
  Values <- TestValues
  Pinned = {p1}
  Tester = p1
  Reps = 2
SPECIFICATION TestSpec
INVARIANTS KeepLearningAsNamed FlushAsNamed
