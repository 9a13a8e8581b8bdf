\* Setups that fail, crash or overlap a live command that loads the profile.
SPECIFICATION ExchangeSpec
CONSTANTS
  Sets = {"a", "b", "plain"}
  PemSets = {"b", "plain"}
  PlainSets = {"plain"}
  Sources <- MCSources
  MaxSetups = 2
  MaxFaults = 2
  MaxCrashes = 1
  Failures <- MCFailures
  MaxCommands = 1
INVARIANTS
  SetupIsAtomic
  OldFilesSurvive
  InstalledProfileWorks
  OneIdentityPerCommand
  StageIsTruthful
CHECK_DEADLOCK FALSE
