SPECIFICATION Spec
CONSTANTS
  t1 = t1  t2 = t2
  admin = admin  ana = ana
  old = old  new = new
  Threads <- TwoThreads
  Emails <- MCEmails
  Passwords <- OnePassword
  Admin = admin
  AdminPassword = old
  AccessTTL = 2
  RefreshTTL = 3
  MaxTime = 2
  MaxUsers = 3
  MaxTokens = 2
SYMMETRY Symmetry
PROPERTIES LoggedOutStaysOut AdmitsOwner LoginEndsOthers RefinesSessions
CHECK_DEADLOCK FALSE
