SPECIFICATION Spec
CONSTANTS
  Cards = {c1, c2}
  None = none
INVARIANT NextStartOnly
