CONSTANTS
  cpu0 = cpu0
  cpu1 = cpu1
  t1 = t1
  t2 = t2
  Idle = Idle
  Cpus = {cpu0, cpu1}
  BootCpu = cpu0
  Tasks = {t1, t2}
  InitTask = t1
  RegBits = {"pf1", "pf2", "other"}
  PfBits = {"pf1", "pf2"}
  Preemptible = TRUE
SPECIFICATION MCSpec
INVARIANT RegisterObeysFlag
PROPERTY PlainKernelImplementsPolicy
