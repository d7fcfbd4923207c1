SPECIFICATION Spec
CONSTANTS
  WordSize = 4
  BeepTicks = 1
  ToastTicks = 2
  MaxInputs = 3
INVARIANT OneActPerPress
INVARIANT ScreenSound
PROPERTY EverythingEnds
