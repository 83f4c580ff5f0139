SPECIFICATION TurnSpec
CONSTANTS
  Runs = {r1, r2}
  Transports = {"websocket"}
  MaxActiveRuns = 1
  MaxTerminal = 1
INVARIANTS EndedNotActive
CHECK_DEADLOCK FALSE
