SPECIFICATION Spec
CONSTANTS
  Participants = {p1, p2}
  Worlds = {{"timeout"}}
INVARIANTS
  Agreement
CHECK_DEADLOCK FALSE
