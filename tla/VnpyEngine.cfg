SPECIFICATION Spec
CONSTANTS
  Refs = {d1, d2, d3}
  Absent = Absent
  MaxSize = 1
  Feeds = {f1}
  Api = api
  Dog = dog
  Traders = {f1, api}
  Targets = {0}
  MaxFailures = 1
INVARIANTS
  StoredIsNet
  HeldIsNet
CONSTRAINT Sure
SYMMETRY Dicts
