SPECIFICATION Spec
CONSTANTS
  Requests = {r1, r2}
  Arns = {a1, a2}
  Models <- MCModels
  Fallback <- MCFallback
  NoArn = NoArn
  Torn = Torn
  NoRequest = NoRequest
SYMMETRY Symmetry
PROPERTY CachedForTTL
