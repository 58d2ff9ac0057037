CONSTANTS
  Files = 2
  MaxRuns = 3
  MaxChanges = 2
  MaxFaults = 1
SPECIFICATION Spec
INVARIANTS
  ScriptsKeepTheirWord
  UntouchedSecretsOpenTheVolumes
  ResetRecovers
  MigrationsHold
CHECK_DEADLOCK FALSE
