SPECIFICATION PaneSpec
CONSTANTS
  MaxLinks = 2
  MaxPaneUpsets = 1
  MaxMeetings = 1
PROPERTY PaneLocatedAgain
CHECK_DEADLOCK FALSE
