CONSTANTS
  Signum = {"SIGINT", "SIGTERM", "SIGKILL"}
  Uncatchable = {"SIGKILL"}
  Disposition = {"SIG_DFL", "SIG_IGN", "request_stop"}
  Guard = {g1, g2, g3}
  g1 = g1
  g2 = g2
  g3 = g3
SPECIFICATION guardSpec
INVARIANT HandlerIsInnermost
