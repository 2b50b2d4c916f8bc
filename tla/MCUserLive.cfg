SPECIFICATION FairSpec
CONSTANTS
  Users = {u1}
  Roles = {r1}
  Dbs = {a, b}
  SecretNames = {n1, n2}
  Templates = {raw}
  Passwords = {p1, p2, p3, p4, p5}
  Specs <- MCSpecs
  NoUser = NoUser
  NoRole = NoRole
  NoSecret = NoSecret
  NoPassword = NoPassword
  MaxUid = 1
  MaxEdits = 1
  MaxMeddles = 1
  MaxFaults = 1
  MaxCrashes = 1
  MaxOutages = 1
  MaxTroubles = 1
  Lags = {TRUE, FALSE}
INVARIANTS TypeOK CredentialsWork AccessAsSpecified NothingLeftBehind
PROPERTIES EventuallySettled
\* the system rests when every DatabaseUser is settled
CHECK_DEADLOCK FALSE
