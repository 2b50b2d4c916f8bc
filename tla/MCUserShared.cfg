SPECIFICATION Spec
CONSTANTS
  Users = {u1, u2}
  Roles = {r1, r2}
  Dbs = {a}
  SecretNames = {n1}
  Templates = {raw}
  Passwords = {p1, p2, p3, p4, p5}
  Specs <- MCSharedSpecs
  NoUser = NoUser
  NoRole = NoRole
  NoSecret = NoSecret
  NoPassword = NoPassword
  MaxUid = 1
  MaxEdits = 1
  MaxMeddles = 0
  MaxFaults = 0
  MaxCrashes = 0
  MaxOutages = 0
  MaxTroubles = 1
  Lags = {FALSE}
SYMMETRY MCSymmetry
 
PROPERTIES ForeignSecretKept
\* the system rests when every DatabaseUser is settled
CHECK_DEADLOCK FALSE
