SPECIFICATION FairSpec
CONSTANTS
  Channels <- DrivenPolled
  Platform = "windows"
  Subscribers = {s1, s2}
  Threads = {t1}
  Readers = {}
  Writers = {}
  MaxValue = 3
  Accuracy = 2
  MaxOps = 4
  None = None
  s1 = s1
  s2 = s2
  t1 = t1
INVARIANTS FirstNotice NoMissedChange NoDanglingIterator
PROPERTY ChangeNotified
