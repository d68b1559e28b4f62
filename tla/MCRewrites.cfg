\* The metadata a row holds already is written again.
CONSTANTS
  a1 = a1
  a2 = a2
  j1 = j1
  j2 = j2
  j3 = j3
  Assets = {a1}
  Jobs = {j1, j2, j3}
  MaxVersion = 1
  RetryLimit <- NoInitialRetry
  Outcomes = {TRUE}
SPECIFICATION Spec
PROPERTY RewritesOnlyChanges
CONSTRAINT UntilRepeated
