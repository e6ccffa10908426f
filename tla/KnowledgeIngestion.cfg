SPECIFICATION Spec
CONSTANTS
  Upload = {u1, u2, u3}
  Content = {a, b}
  Engineer = {e1, e2}
  Revision = {r1, r2}
  None = None
INVARIANTS
  Deduplicated
  ActiveWasApproved
SYMMETRY Alike
CHECK_DEADLOCK FALSE
