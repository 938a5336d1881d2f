SPECIFICATION Spec
CONSTANTS
  n1 = n1
  m1 = m1
  m2 = m2
  src1 = src1
  src2 = src2
  src3 = src3
  shared = shared
  p1 = p1
  p2 = p2
  Names = {n1}
  Packages <- OneTool
  Signed <- Published
  Grants <- OneApproval
  Procs = {p1, p2}
  NoTool = NoTool
  NoGrant = NoGrant
SYMMETRY Requests
INVARIANT
  GrantMatchesApproval
