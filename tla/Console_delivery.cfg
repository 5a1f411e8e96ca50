SPECIFICATION ServicesSpec
CONSTANTS
    c1 = c1  c2 = c2  l1 = l1  l2 = l2  v1 = v1  v2 = v2
    a = a  b = b  d = d  e = e
    Command = {a, b}
    Digest = {d, e}
    None = None  Other = Other
    f1 = f1  f2 = f2  k1 = k1  k2 = k2  m1 = m1  m2 = m2
    n1 = n1  n2 = n2  u1 = u1  u2 = u2  u3 = u3  q1 = q1  q2 = q2
    s1 = s1  s2 = s2  o1 = o1  o2 = o2
    F = F  A = A  B = B  C = C  x = x  y = y
    MaxSubmits = 3
    MaxFaults = 2
INVARIANTS CommandsTrue TurnsSafe
PROPERTIES ReceiptsFinal PreviewSafe DeliverySafe StoreSafe 
CHECK_DEADLOCK FALSE
