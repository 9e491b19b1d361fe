SPECIFICATION Spec
CONSTANTS
  c1 = c1
  c2 = c2
  ann = ann
  bob = bob
  Nobody = Nobody
  NoTab = NoTab
  Calls = {c1}
  Keepers = {c1}
  People = {ann, bob}
  Friends = {ann}
  Tabs = {t1, t2}
  Suggested <- MCSuggested
  Wanted <- MCWanted
PROPERTY NeverClosesForeignTab
