CONSTANTS
  s1 = s1  s2 = s2  s3 = s3
  direct = direct  gateway = gateway  Null = Null
  Sessions = {s1, s2, s3}
  Jobs = {j1, j2}
  Routes = {direct, gateway}
  BoundTo <- Binding
  MaxConsecutiveFailures = 2
  CooldownMs = 2
  MaxStreak = 2
  MaxTime = 3
SPECIFICATION Spec
PROPERTIES
  BenchServedInFull
