SPECIFICATION Spec
CONSTANTS
  c1 = c1
  c2 = c2
  u1 = u1
  u2 = u2
  code1 = code1
  code2 = code2
  t1 = t1
  t2 = t2
  t3 = t3
  t4 = t4
  t5 = t5
  t6 = t6
  r1 = r1
  r2 = r2
  v1 = v1
  v2 = v2
  uri1 = uri1
  uri2 = uri2
  Stranger = Stranger
  Absent = Absent
  None = None
  Clients = {c1, c2}
  PublicClients = {c1}
  Codes = {code1}
  TokenIds = {t1, t2, t3, t4, t5}
  Requests = {r1, r2}
  Users = {u1, u2}
  Redirects = {uri1}
  Verifiers = {v1, v2}
  BadVerifiers = {v2}
  StoreMayFail = FALSE
  MaxNow = 0
  CodeTTL = 1
  AccessTTL = 1
  RefreshTTL = 1
SYMMETRY Symmetry
INVARIANTS
  OneLiveRefreshPerGrant
  BoundToGrant
PROPERTIES
  ImplementsRefreshRight
