SPECIFICATION FairSpec
CONSTANTS
  s1 = s1
  s2 = s2
  t1 = t1
  t2 = t2
  t3 = t3
  r1 = r1
  r2 = r2
  r3 = r3
  None = None
  Slots = {s1}
  Senders = {t1, t2}
  Readers = {r1}
  ReadTimeout = 1
  SendBudget = 1
  StopWait = 3
  TricklingPeer = TRUE
  MayFail = {"sender_task"}
  MaxLeaving = 1
  MaxStreaming = 1
INVARIANTS
  CountsExact
PROPERTIES
  EndingReleasesSlot
  
