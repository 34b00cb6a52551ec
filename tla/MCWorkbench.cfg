\* Two cases and two chains of awaits at a time.
CONSTANTS
  Cases = {c1, c2}
  Slots = {s1, s2}
  None = None
  Scenarios <- MCScenarios
SPECIFICATION Spec
INVARIANTS ScreenIsTrue
PROPERTIES ChangesAreBasedOnTheScreen
SYMMETRY Symmetric
