\* Two members of one department or of none.
SPECIFICATION PermissionSpec
CONSTANTS
  Users = {u1, u2}
  Departments = {d1}
  NULL = NULL
  MaxClearance = 1
  MaxVersion = 2
  Requests = {r1, r2}
CHECK_DEADLOCK FALSE
INVARIANTS
  WritePermissionIsDecided
