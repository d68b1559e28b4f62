\* One asset: the metadata converges.  Nothing remains of a job that is over, so
\* three identifiers serve an endless chain of update jobs.
CONSTANTS
  a1 = a1
  a2 = a2
  j1 = j1
  j2 = j2
  j3 = j3
  Assets = {a1}
  Jobs = {j1, j2, j3}
  MaxVersion = 2
  RetryLimit <- NoInitialRetry
  Outcomes = {TRUE}
SPECIFICATION FairSpec
PROPERTY Converges
CONSTRAINT UntilRepeated
