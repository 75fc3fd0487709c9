SPECIFICATION Spec
CONSTANTS
  tab1 = tab1
  tab2 = tab2
  c1 = c1
  c2 = c2
  uri1 = uri1
  uri2 = uri2
  u1 = u1
  u2 = u2
  k1 = k1
  k2 = k2
  k3 = k3
  s1 = s1
  s2 = s2
  code1 = code1
  code2 = code2
  ch1 = ch1
  x = x
  None = None
  Tabs = {tab1, tab2}
  Clients = {c1, c2}
  Redirects = {uri1, uri2}
  Registered <- OwnRedirect
  Links <- OneGoodOneBad
  Challenges = {ch1}
  States = {x}
  Users = {u1, u2}
  Keys = {k1, k2, k3}
  KeysOf <- FirstMayReplace
  Codes = {code1}
  Sessions = {s1, s2}
  ConsentTTL = 0
  SessionTTL = 1
  CodeTTL = 2
  MaxNow = 1
  StoreMayFail = TRUE
SYMMETRY Symmetry
INVARIANTS
  TypeOK
  ContinuesAsShown
PROPERTIES
  SwitchIsFinal
  ApprovedAsShown
  RestsOnAcceptedKeys
  FeedsTokenEndpoint
