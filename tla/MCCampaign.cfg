CONSTANTS
  Slots = 2
  MaxProcesses = 3
  Requests <- MCRequests
  Faults = {"crash", "io"}
SPECIFICATION Spec
INVARIANTS TypeOK PassAtOne CountedOnce
PROPERTIES PublishedIsFinal CampaignEnds
CHECK_DEADLOCK FALSE
