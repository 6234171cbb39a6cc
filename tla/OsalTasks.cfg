\* Two tasks, three buffers: a task can have two messages with one of the other
\* task between them.  The interrupt keeps the most urgent task busy.
SPECIFICATION FairSpec
CONSTANTS
  m1 = m1
  m2 = m2
  m3 = m3
  evF = evF
  tasksCnt = 2
  Flags = {evF}
  SYS_EVENT_MSG = SYS_EVENT_MSG
  Msgs = {m1, m2, m3}
  TASK_NO_TASK = TASK_NO_TASK
  IsrEvents <- IsrFirst
  Fronts = {TRUE, FALSE}
INVARIANTS HeadersTellQueued NoLostWakeup
PROPERTIES EventsNotErased ImplementsMailboxes DeliveredUnlessStarved
