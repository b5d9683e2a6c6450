SPECIFICATION Spec
CONSTANTS
  Keys = {k1, k2}
  Issuer = "did:web:datasitr.com"
  OtherIssuer = "did:web:other"
  MaxTime = 2
  Mistakes = {"second_entry"}
SYMMETRY Symmetry
INVARIANTS
  RevokedIsNeverTrusted
CHECK_DEADLOCK FALSE
