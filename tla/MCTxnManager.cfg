CONSTANTS
  MaxXid = 3
  MaxCid = 1
  Guards = {g1, g2}
SPECIFICATION Spec
INVARIANTS SnapshotsSound VacuumSafe
PROPERTIES HorizonMonotone ImplementsSI
SYMMETRY GuardSymmetry
CHECK_DEADLOCK FALSE
