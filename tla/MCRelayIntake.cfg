SPECIFICATION Spec
CONSTANTS
  c1 = c1
  c2 = c2
  k1 = k1
  k2 = k2
  b1 = b1
  b2 = b2
  Client = {c1, c2}
  Key = {k1}
  Body = {b1, b2}
  KeyOf <- MCKeyOf
  BodyOf <- MCBodyOf
  Sends <- MCSends
  Fingerprint <- MCFingerprint
  Invalid = {}
  Rejected = {}
  MaxTries = 2
  Nobody = Nobody
INVARIANTS IntakeTypeOK AnswersOwnRequest ConflictIsReal UniqueIndexIsIdle NoTwinTicket
CHECK_DEADLOCK FALSE
