\* Three contexts, two onClose handlers at a time, every fault.
CONSTANTS
  c1 = c1
  c2 = c2
  c3 = c3
  h1 = h1
  h2 = h2
  Contexts = {c1, c2, c3}
  Handlers = {h1, h2}
SPECIFICATION FairSpec
INVARIANTS TypeOK OneFetch NeverCutOff ListensWhenReady
PROPERTIES Serves Dies
CHECK_DEADLOCK FALSE
