SPECIFICATION Spec
CONSTANTS
  a1 = a1
  a2 = a2
  c1 = c1
  c2 = c2
  None = None
  Agents = {a1, a2}
  Customers = {c1, c2}
  Emails = {e1}
SYMMETRY DirectorySymmetry
INVARIANTS
  DuplicatesNeedARace
PROPERTY
  WritesAreLegal
\* The system stops when every agent waits to create one more customer.
CHECK_DEADLOCK FALSE
