\* An action with the default maxAttempts, loaded again after a restart.
CONSTANTS
  MaxAttempts <- Unlimited
  GenBound = 2
  DisturbBound = 3
  Disturbances = {"fail", "crash"}
SPECIFICATION Spec
INVARIANT KeepsTrying
CHECK_DEADLOCK FALSE
