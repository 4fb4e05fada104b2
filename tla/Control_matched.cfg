SPECIFICATION FocusSpec
CONSTANTS
  a = a  b = b  c = c  x = x  y = y  px = px  ext = ext  k1 = k1  o1 = o1  o2 = o2  i1 = i1
  p1 = p1  p2 = p2  A = A  B = B  s1 = s1  s2 = s2  b1 = b1  r1 = r1
  t1 = t1  t2 = t2  t3 = t3  h1 = h1  h2 = h2  d1 = d1  d2 = d2
  Services = {a, b, c}  Proposed = {px}  External = ext
  Catalogs <- MCCatalogs  Asks <- MCAsks  Keys = {k1}  Owners = {o1, o2}  Integrators = {i1}
  MaxPlans = 2
  Projects = {p1, p2}  Contents = {A, B}  Wired = {A}  Scanners = {s1, s2}  Builders = {b1}
  Readers = {r1}  MaxEdits = 1  MaxRevisions = 2
  Turns = {t1, t2, t3}  Threads = {h1, h2}  NoThread = NoThread
  MaxEvents = 4
  Files = {"file"}  Workers = {d1, d2}  MaxAttempts = 1  MaxReviews = 2  MaxDeliveries = 2  MaxFaults = 1
INVARIANT MatchedIsObserved
CONSTRAINT TwoAtOnce
SYMMETRY Alike
CHECK_DEADLOCK FALSE
