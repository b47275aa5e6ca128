\* A turn of one event, an adoption that may be let in without a fence; writes and
\* fence reads fail, the runner is lost, stuck or out of reach, any replica dies,
\* heartbeats come late.
CONSTANTS
  Owner = owner
  Adopter = {a1}
  MaxEvents = 1
  Unfenced = {a1}
  StoreFaults = TRUE
  RunnerFaults = TRUE
SPECIFICATION FairSpec
CHECK_DEADLOCK FALSE
INVARIANTS TypeOK HarvestIsWhole BilledOnce
PROPERTIES LiveTurnNotSettled TurnEnds
