SPECIFICATION ASpec
CONSTANTS
  u1 = u1  u2 = u2  u3 = u3  u4 = u4  u5 = u5
  a = a  b = b  c = c
  Users <- MCUsers
  First = u1
  Emails <- MCEmails
  Primary = a
  Book <- MCBook
  Workers = {w1, w2}
  MaxOps = 4
CHECK_DEADLOCK FALSE
INVARIANTS Registered Forwarded ContactsMeet
PROPERTIES RequestsEnd
