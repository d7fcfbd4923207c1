SPECIFICATION Spec
CONSTANTS
  Byte = {b1, b2}
  Capacity = 2
  Fail = Fail
  Ok = Ok
  Smp = TRUE
  RmwAtomic = FALSE
  InitMasked = FALSE
INVARIANT AccessInBounds
