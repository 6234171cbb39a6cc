\* The first scan may choose a network; the code asks for three.
SPECIFICATION FairSpec
CONSTANTS
  NUM_DISC_ATTEMPTS = 0
  MAX_RESUME_RETRY = 1
  CounterSize = 2
  MessagesLost = FALSE
INVARIANTS AlwaysTrying NoStrayReset NoLostNotice ForgetsNetwork
PROPERTIES KeepsTrying LeaveHonoured
