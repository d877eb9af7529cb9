SPECIFICATION MCSpec
CONSTANTS
  r1 = r1
  r2 = r2
  r3 = r3
  d1 = d1
  d2 = d2
  d3 = d3
  o1 = o1
  o2 = o2
  o3 = o3
  v1 = v1
  v2 = v2
  l1 = l1
  l2 = l2
  ali = ali
  huawei = huawei
  cloudflare = cloudflare
  c1 = c1
  p1 = p1
  p2 = p2
  Part = {"deploy", "rules", "headers"}
  Req = {r1, r2}
  Domain = {d1, d2, d3}
  Edited = {}
  Cdn = {ali}
  Proxy = {cloudflare}
  DayNamed = {ali}
  Life = 8
  Guess = 7
  Renew = 4
  Warn = 1
  Grace = 2
  Week = 3
  IssueLimit = 2
  MaxDay = 8
  MaxCerts = 2
  MaxFails = 5
  Origin = {o1, o2, o3}
  MaxRequests = 3
  Value = {v1}
  Ttl = {l1}
  T = {"ali"}
  Types = {"CNAME"}
  MaxId = 3
  Service = {"ali", "tencent", "huawei", "ucloud"}
  Known = {TRUE, FALSE}
  Pem = {c1}
  Cached = Cached
  Alike = {d1, d2}
  Port = {p1, p2}
  Address = {o3}
  Plain = Plain
  None = None
SYMMETRY SupplierSymmetry
INVARIANT SuppliersInv
PROPERTIES SuccessIsDone RetrySucceeds RulesStay SuccessIsConfigured
CHECK_DEADLOCK FALSE
