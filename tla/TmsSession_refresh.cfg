SPECIFICATION FairSpec
CONSTANTS
  t1 = t1
  t2 = t2
  t3 = t3
  u1 = u1
  u2 = u2
  Tasks = {t1}
  Users = {u1}
  CaptchaUsers = {u1}
  MaxAttempts = 3
  NoUser = NoUser
PROPERTIES
  RefreshResolves
