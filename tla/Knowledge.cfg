SPECIFICATION KnowledgeSpec
CONSTANTS
  Trees <- MCTrees
  Report <- MCReport
  Texts <- MCTexts
  Tools = {"scaffold", "reconcile", "generate"}
  Faults = 3
  Clients = {c1, c2}  Tasks = {t1}  MaxGenerations = 3  MaxLate = 1  MaxCancels = 1  MaxFaults = 1
INVARIANTS
  PlanningIsSound
  ToolsConverge
  CurrentIsTrue
  LocalWorkIsKept
  ContractsAreFrozen
  PacksAreTrue
  WorkIsVerified
  GenerationsTakeTurns
  AttachedIsCurrent
PROPERTIES
  HistoryIsKept
  PendingRunStarts
CHECK_DEADLOCK FALSE
