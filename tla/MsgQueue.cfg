CONSTANTS
  Tasks = {t1, t2}
  Items = {a, b}
  max_items = 2
  NoTask = NoTask
  NoItem = NoItem
SYMMETRY Symmetry
SPECIFICATION Spec
INVARIANTS
  RingConsistent
PROPERTY ImplementsFifo
