SPECIFICATION FairSpec
CONSTANTS
  Kinds = {"token", "approle", "client", "password"}
  Lease = 14
  MaxLife = 20
  MinAuthInterval = 2
  ExpiredRetryInterval = 5
  Buffer = 1
  MaxLag = 2
  MaxCall = 2
INVARIANTS
  TypeOK
  BelievedExpiryIsReal
  ValidWhileHealthy
  OutageBounded
PROPERTIES
  LoginRecovers
