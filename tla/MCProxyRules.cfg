SPECIFICATION Spec
CONSTANTS
  Requests = {r1, r2, r3}
  Names = {web, ssh}
  Ports = {p1, p2, p3}
  Foreign = {p3}
  Torn = Torn
  NoPort = NoPort
  Free = Free
  Other = Other
  Tokens = {t1, t2}
  Kinds = {"create", "delete", "token", "reload", "edit"}
  Serial = TRUE
INVARIANTS HandleIsLive  ServedIsListed
PROPERTIES AcknowledgedIsOnDisk
CHECK_DEADLOCK FALSE
SYMMETRY Symmetry
