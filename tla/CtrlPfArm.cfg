CONSTANTS
  p1 = p1
  p2 = p2
  cpu0 = cpu0
  cpu1 = cpu1
  Procs = {p1, p2}
  Cpus = {cpu0, cpu1}
  Intel = FALSE
  RegBits = {"ip", "other"}
  PfBits = {"ip"}
  Values = {}
  Pinned = {p1}
SPECIFICATION Spec
INVARIANT StateHeld
PROPERTIES KeepsOtherBits
