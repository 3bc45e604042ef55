SPECIFICATION Spec
CONSTANTS
  Names = {ann, bob}
  Passwords = {p, q}
  NoAccount = NoAccount
  Commands = {c1, c2}
  MaxRuns = 2
  MaxClock = 1
  Budget <- EachHazard
INVARIANTS
  TypeOK
  ListIsWhole
  NothingForgotten
  SignInIsCurrent
SYMMETRY Alike
\* A behaviour ends when MaxRuns commands have ended.
CHECK_DEADLOCK FALSE
