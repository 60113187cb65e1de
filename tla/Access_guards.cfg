SPECIFICATION Spec
CONSTANTS
  ann = ann
  Requests = {r1}
  Users = {ann}
  Tokens = {k1}
  Owner <- MCOwner
  Granted = {"member", "captain"}
  SessionLifetime = 1
  Callers = {caller}
  Keys = {caller, address}
  limit = 2
  period = 2
  MaxTime = 3
  MaxCount = 3
INVARIANTS
  TypeOK
  Entitled
  LogoutIsFinal
  LimitHolds
