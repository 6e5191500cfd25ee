SPECIFICATION FairSpec
CONSTANTS
  a = a
  b = b
  c = c
  p = p
  q = q
  Object = {a, b, c}
  Provider = {p, q}
  ProviderOf <- MCProviderOf
  Filtered = {c}
  Deep = {a}
  Critical = {}
  Stabilisation = 2
  Cooldown = 2
  MapSize = 2
  Chatty = {}
  MaxChanges = 4
  MaxRestarts = 1
PROPERTY PersistentFindingCreated
