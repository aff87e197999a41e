\* Rotations, revocations and signed deliveries that overlap.
SPECIFICATION Spec
CONSTANTS
  r1 = r1
  r2 = r2
  r3 = r3
  None = None
  Requests = {r1, r2, r3}
  OfferedUrls <- MCOfferedUrls
  GRACE = 1
  MaxTime = 2
  MaxSecrets = 3
SYMMETRY MCSymmetry
INVARIANTS
  OneSecretWhileActive
  LiveSecretExplained
  SecretsFade
CHECK_DEADLOCK FALSE
