\* Two setups with copied files and two failing file operations, no command.
SPECIFICATION ExchangeSpec
CONSTANTS
  Sets = {"a", "b"}
  PemSets = {}
  PlainSets = {}
  Sources <- CopiedSources
  MaxSetups = 2
  MaxFaults = 2
  MaxCrashes = 0
  Failures = {}
  MaxCommands = 0
INVARIANT RollbackKeepsOld
CHECK_DEADLOCK FALSE
