SPECIFICATION Spec
CONSTANTS
  t1 = t1  t2 = t2
  admin = admin  ana = ana
  old = old  new = new
  Threads <- TwoThreads
  Emails <- MCEmails
  Passwords <- MCPasswords
  Admin = admin
  AdminPassword = old
  AccessTTL = 1
  RefreshTTL = 2
  MaxTime = 1
  MaxUsers = 3
  MaxTokens = 2
INVARIANT EmailUnique
CHECK_DEADLOCK FALSE
