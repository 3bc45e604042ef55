SPECIFICATION Spec
CONSTANTS
  Users = {ann, bob}
  Nobody = Nobody
  Files = {photo}
  Contents = {v1, v2}
  Large = {v2}
  Calls = {c1, c2}
  Lifetime = 1
  MaxClock = 2
  MaxTokens = 2
  MaxCalls = 3
  Budget = 2
INVARIANTS
  TypeOK
  SkippedWasHeld
  SealedForOwner
  TokensEnd
SYMMETRY Alike
\* A behaviour ends when MaxCalls calls have been made.
CHECK_DEADLOCK FALSE
