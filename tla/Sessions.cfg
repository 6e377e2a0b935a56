SPECIFICATION Spec
CONSTANTS
  r1 = r1
  r2 = r2
  r3 = r3
  k1 = k1
  k2 = k2
  k3 = k3
  s1 = s1
  p1 = p1
  p2 = p2
  None = None
  Requests = {r1, r2, r3}
  Keys = {k1, k2, k3}
  Passwords = {p1, p2}
  OpenSessions = {s1}
  Kinds <- AllKinds
  MaxFaults = 1
  MaximumAttempts = 2
  Initial = p1
SYMMETRY SessionsSymmetry
INVARIANTS
  SessionsMatchPassword
  KeyTakesEffectOnce
  WrongPasswordsBounded
PROPERTIES
  RevokedSessionsInert
