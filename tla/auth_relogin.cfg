SPECIFICATION Spec
CONSTANTS
  t1 = t1  t2 = t2
  admin = admin  ana = ana
  old = old  new = new
  Threads <- OneThread
  Emails <- MCEmails
  Passwords <- MCPasswords
  Admin = admin
  AdminPassword = old
  AccessTTL = 1
  RefreshTTL = 2
  MaxTime = 1
  MaxUsers = 2
  MaxTokens = 2
PROPERTY LoginSucceeds
CHECK_DEADLOCK FALSE
