SPECIFICATION Spec
CONSTANTS
  t1 = t1  t2 = t2
  admin = admin  ana = ana
  old = old  new = new
  Threads <- TwoThreads
  Emails <- MCEmails
  Passwords <- OnePassword
  Admin = admin
  AdminPassword = old
  AccessTTL = 1
  RefreshTTL = 2
  MaxTime = 1
  MaxUsers = 2
  MaxTokens = 3
CONSTRAINT Exclusive
SYMMETRY Symmetry
INVARIANT AtMostOneValid
CHECK_DEADLOCK FALSE
