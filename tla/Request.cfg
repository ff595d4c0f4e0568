SPECIFICATION RequestSpec
CONSTANTS
  DataState <- MCDataState
  Milestones <- MCMilestones
  Plans <- MCPlans
  Seed = "task"
  MaxSize = 2
  RetryCap = 2
  Budget = 1
INVARIANTS CarriersAreSound ConclusionsAreWhole ChainIsCurrent RecordIsSound
PROPERTY RequestEnds
