SPECIFICATION Spec
CONSTANTS
  Pod = {a, b}
  Probe = probe
  NoOne = none
  MaxProbes = 1
  MaxFaults = 1
SYMMETRY MCSymmetry
CHECK_DEADLOCK FALSE
INVARIANTS RentedPodStands ProbeKeepsOff FailureNotShielded
