CONSTANTS
  Handles = {h1, h2}
  Resources = {r1, r2}
  Null = Null
  CloseMayFail = TRUE
SPECIFICATION Spec
INVARIANT CloseErrorsKnown
