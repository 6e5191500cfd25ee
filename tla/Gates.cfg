SPECIFICATION Spec
CONSTANTS
  a = a
  b = b
  c = c
  p = p
  q = q
  Object = {a, b, c}
  Provider = {p, q}
  ProviderOf <- MCProviderOf
  Filtered = {}
  Deep = {a, c}
  Critical = {c}
  Stabilisation = 2
  Cooldown = 1
  MapSize = 1
  Chatty = {b}
  MaxChanges = 3
  MaxRestarts = 1
INVARIANT TypeOK
INVARIANT MapBounded
PROPERTY StableBeforeCreated
