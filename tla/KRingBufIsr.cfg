SPECIFICATION Spec
CONSTANTS
  Byte = {b1, b2}
  Capacity = 3
  Fail = Fail
  Ok = Ok
  Smp = TRUE
  RmwAtomic = TRUE
  InitMasked = TRUE
INVARIANT RingInv
PROPERTY FifoRefinement
