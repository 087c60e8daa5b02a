SPECIFICATION Spec
CONSTANTS
  Frame = 2
  Randoms <- MCRandoms
  Senders = {d1}
  MaxNow = 5
  MaxStarts = 3
  MaxDigits = 2
INVARIANTS NotAhead KeepsUp
PROPERTIES NeverBack AudioAdvances
