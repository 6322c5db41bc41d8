SPECIFICATION FairSpec
CONSTANTS
  c1 = c1
  c2 = c2
  k1 = k1
  k2 = k2
  b1 = b1
  b2 = b2
  Client = {c1, c2}
  Key = {k1, k2}
  Body = {b1, b2}
  KeyOf <- LiveKeyOf
  BodyOf <- MCBodyOf
  Sends <- LiveSends
  Fingerprint <- MCFingerprint
  Invalid = {}
  Rejected = {b2}
  MaxTries = 3
  Nobody = Nobody
PROPERTIES EveryCallEnds
CHECK_DEADLOCK FALSE
