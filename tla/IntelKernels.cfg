CONSTANTS
  cpu0 = cpu0
  cpu1 = cpu1
  cpu2 = cpu2
  core0 = core0
  core1 = core1
  t1 = t1
  t2 = t2
  Idle = Idle
  Cpus = {cpu0, cpu1}
  Cores = {core0, core1}
  CoreOf <- PlainCoreOf
  BootCpu = cpu0
  Tasks = {t1, t2}
  InitTask = t1
  MsrBits = {"pf"}
  PfBits = {"pf"}
  Preemptible = TRUE
SPECIFICATION MCSpec
INVARIANTS MaskAccurate PlainKernelProtects
PROPERTIES PrctlReturns PlainKernelImplementsPolicy
