SPECIFICATION Spec
CONSTANT
  Inputs <- Every
INVARIANT BracesAsIndentedElsewhere
PROPERTY Finishes
INVARIANT TreeSound
