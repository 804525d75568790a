SPECIFICATION Spec
CONSTANTS
  Packages <- Formulas
  Needs <- Dependencies
  Plan <- MixedPlan
  Clash <- Overlapping
  MaxSurprises = 2
INVARIANTS
  AccountedOnce
  RemovalIsSeen
  OwnerInOrder
  TargetHitOnce
PROPERTIES
  NoDependentStranded
  RefusalIsEarned
  StopHolds
