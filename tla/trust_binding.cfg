SPECIFICATION Spec
CONSTANTS
  Keys = {k1, k2}
  Issuer = "did:web:datasitr.com"
  OtherIssuer = "did:web:other"
  MaxTime = 2
  Mistakes = {"wrong_pem"}
SYMMETRY Symmetry
INVARIANTS
  MatchedMethodNamesTheKey
CHECK_DEADLOCK FALSE
