SPECIFICATION Spec
CONSTANTS
  s1 = s1
  s2 = s2
  t1 = t1
  t2 = t2
  t3 = t3
  r1 = r1
  r2 = r2
  r3 = r3
  None = None
  Slots = {s1, s2}
  Senders = {t1, t2}
  Readers = {r1, r2, r3}
  ReadTimeout = 1
  SendBudget = 2
  StopWait = 4
  TricklingPeer = FALSE
  MayFail = {"client_task", "pcm_buf", "ring_buf", "preview"}
  MaxLeaving = 2
  MaxStreaming = 3
SYMMETRY Symmetry
INVARIANTS
  SenderWithinSession
  RingHasOneConsumer
  PlayFindsReader
  CountsExact
