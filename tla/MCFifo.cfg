SPECIFICATION Spec
CONSTANTS Length = 3
          IdxSize = 6
          Item = {a, b}
          NoItem = NoItem
INVARIANTS FifoInv
PROPERTIES ImplementsQueue
