CONSTANTS
  Handles = {h1, h2, h3}
  Resources = {r1, r2, r3, r4}
  Null = Null
  CloseMayFail = TRUE
SPECIFICATION Spec
INVARIANTS SingleOwner NoDangling NothingLost
