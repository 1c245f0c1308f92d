CONSTANTS
  Plans <- MCPlans
SPECIFICATION Spec
INVARIANTS ReportIsTrue AllOrNothingBeforeSweep
PROPERTIES CollectionEnds
