SPECIFICATION Spec
CONSTANTS
  Refs = {d1, d2}
  Absent = Absent
  MaxSize = 0
  Feeds = {f1}
  Api = api
  Dog = dog
  Traders = {f1}
  Targets = {}
  MaxFailures = 2
PROPERTIES
  RestartIsEarned
  Heals
