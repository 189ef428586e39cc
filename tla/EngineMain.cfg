CONSTANTS
  Signum = {"SIGINT", "SIGTERM"}
  Uncatchable = {}
  Disposition = {"SIG_DFL", "SIG_IGN", "request_stop"}
  Guard = {"SIGINT", "SIGTERM"}
  Argv <- MCArgv
  MaxSignals = 3
SPECIFICATION engineSpec
INVARIANTS WorkersAreCovered ThreadsUseLiveAgents SignalNotLost MainLeavesNothing
