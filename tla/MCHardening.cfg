CONSTANTS
  c1 = c1
  c2 = c2
  KeyId = {k1, k2}
  KeyWindow <- Windows
  KeyTime = {0, 1}
  FirstStatus = {"ACTIVE"}
  MaxKeys = 2
  MaxStateVersion = 3
  ChangeObject = {"policy", "tools"}
  ChangeRequest <- Requests
  NoDigest = NoDigest
  MaxSigned = 3
  Subject = {e1}
  MaxEnvelopes = 1
  BatchId = {b1, b2}
  AnchorId = {a1}
  AnchorTime = {0, 1}
  MaxBatches = 3
  MaxAnswers = 3
SPECIFICATION OneSideSpec
SYMMETRY Interchangeable
CHECK_DEADLOCK FALSE
INVARIANTS CryptoTypeOK ChainIsIntact AnchorsAreLinked
PROPERTIES RefusalIsFinal RetirementSparesThePast ChainsImplementLogs
