SPECIFICATION Spec
CONSTANTS
  n1 = n1
  n2 = n2
  k1 = k1
  k2 = k2
  u1 = u1
  u2 = u2
  u3 = u3
  t1 = t1
  t2 = t2
  None = None
  Names = {n1, n2}
  Tickets = {k1, k2}
  UIDs = {u1, u2}
  Threads = {t1, t2}
  LostReplies = FALSE
SYMMETRY Symmetry
INVARIANTS
  OneConsumerPerTicket
