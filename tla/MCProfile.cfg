SPECIFICATION Spec
CONSTANTS
  Requests = {r1, r2, r3}
  Arns = {a1, a2}
  Models <- MCModels
  Fallback <- MCFallback
  NoArn = NoArn
  Torn = Torn
  NoRequest = NoRequest
SYMMETRY Symmetry
INVARIANTS Whole NeverForgets
