\* Two assets, three jobs, two versions, every fault.
CONSTANTS
  a1 = a1
  a2 = a2
  j1 = j1
  j2 = j2
  j3 = j3
  Assets = {a1, a2}
  Jobs = {j1, j2, j3}
  MaxVersion = 2
  RetryLimit <- NoInitialRetry
  Outcomes = {TRUE, FALSE}
SPECIFICATION Spec
INVARIANTS TypeOK NeverForgotten OneJob
PROPERTIES NoRegression ImplementsMirror
CONSTRAINT UntilRepeated
SYMMETRY Symmetry
