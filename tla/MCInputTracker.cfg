CONSTANTS
  a = a
  b = b
  Button = {a, b}
  MaxInputs = 4
SYMMETRY Symmetry
SPECIFICATION Spec
INVARIANTS HeldIsHeld AllReleased CenterArrives
