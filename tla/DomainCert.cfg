SPECIFICATION MCSpec
CONSTANTS
  r1 = r1
  r2 = r2
  r3 = r3
  d1 = d1
  d2 = d2
  d3 = d3
  o1 = o1
  o2 = o2
  o3 = o3
  v1 = v1
  v2 = v2
  l1 = l1
  l2 = l2
  ali = ali
  huawei = huawei
  cloudflare = cloudflare
  c1 = c1
  p1 = p1
  p2 = p2
  Part = {"races", "days"}
  Req = {r1, r2}
  Domain = {d1}
  Edited = {d1}
  Cdn = {ali}
  Proxy = {cloudflare}
  DayNamed = {ali}
  Life = 8
  Guess = 7
  Renew = 4
  Warn = 1
  Grace = 2
  Week = 3
  IssueLimit = 2
  MaxDay = 8
  MaxCerts = 2
  MaxFails = 5
  Origin = {o1}
  MaxRequests = 3
  Value = {v1}
  Ttl = {l1}
  T = {"ali"}
  Types = {"CNAME"}
  MaxId = 3
  Service = {"ali"}
  Known = {TRUE}
  Pem = {c1}
  Cached = Cached
  Alike = {}
  Port = {p1}
  Address = {}
  Plain = Plain
  None = None
SYMMETRY RequestSymmetry
  
PROPERTIES RowIsProvisioned NoSecondIssue
CHECK_DEADLOCK FALSE
