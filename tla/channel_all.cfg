SPECIFICATION FairSpec
CONSTANTS
  Channels <- AllChannels
  Platform = "linux"
  Subscribers = {s1}
  Threads = {t1, t2}
  Readers = {t2}
  Writers = {t1}
  MaxValue = 2
  Accuracy = 2
  MaxOps = 3
  None = None
  s1 = s1
  t1 = t1
  t2 = t2
PROPERTIES Mirror Quiesces
CHECK_DEADLOCK FALSE
