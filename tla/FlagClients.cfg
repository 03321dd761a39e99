CONSTANTS
  cpu0 = cpu0
  cpu1 = cpu1
  cpu2 = cpu2
  core0 = core0
  core1 = core1
  t1 = t1
  t2 = t2
  Idle = Idle
  Cpus = {cpu0, cpu1, cpu2}
  Cores = {core0, core1}
  CoreOf <- MixedCoreOf
  Tasks = {t1, t2}
  PfBits = {"pf1", "pf2"}
  Entries = {"write_ktls", "write"}
  Callbacks = {"servername", "cert"}
  Direct <- DirectCalls
  MaxDepth = 3
SPECIFICATION ClientsSpec
INVARIANTS SecretsProtected FlagRestored PermanentlyDisabled
SYMMETRY TaskSymmetry
