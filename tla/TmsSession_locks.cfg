SPECIFICATION FairSpec
CONSTANTS
  t1 = t1
  t2 = t2
  t3 = t3
  u1 = u1
  u2 = u2
  Tasks = {t1, t2}
  Users = {u1, u2}
  CaptchaUsers = {u1, u2}
  MaxAttempts = 2
  NoUser = NoUser
INVARIANTS
  LocksFollowTasks
  OneOnTheWire
PROPERTIES
  OnlySelfWaitBlocks
