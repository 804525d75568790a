SPECIFICATION Spec
CONSTANTS
  Packages <- Formulas
  Needs = {}
  Plan <- PackagePlan
  Clash = {}
  MaxSurprises = 0
INVARIANTS
  RemovedMeansGone
