SPECIFICATION FairRecovery
CONSTANTS
  MinFailures = 3
  Grace = 3
  Cooldown = 3
  MaxSlips = 3
PROPERTIES
  RestartJustified AttemptsSpaced HungWorkerRecovers
