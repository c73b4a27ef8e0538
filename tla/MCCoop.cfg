SPECIFICATION Spec
CONSTANTS
  t1 = t1
  t2 = t2
  t3 = t3
  Main = Main
  Loop = Loop
  Tasks <- MCTasks
  Programs <- MCPrograms
  Capacities <- MCCapacities
INVARIANTS
  OneLoop
  CalledInOrder
PROPERTIES
  EndsUnlessBuried
CHECK_DEADLOCK FALSE
