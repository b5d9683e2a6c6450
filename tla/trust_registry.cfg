SPECIFICATION Spec
CONSTANTS
  Keys = {k1, k2}
  Issuer = "did:web:datasitr.com"
  OtherIssuer = "did:web:other"
  MaxTime = 3
  Mistakes = {}
SYMMETRY Symmetry
INVARIANTS
  TypeOK
  AcceptedIsAsIssued
  RevokedIsNeverTrusted
  AcceptedKeyWasInForce
  HistoryStaysVerifiable
  MatchedMethodNamesTheKey
CHECK_DEADLOCK FALSE
