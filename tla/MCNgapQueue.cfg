SPECIFICATION Spec
CONSTANTS
  NgAP = {m1, m2, m3}
  MAX_QUEUE = 4
  None = None
INVARIANT TypeOK
PROPERTY ImplementsFifo
