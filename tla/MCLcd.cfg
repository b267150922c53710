SPECIFICATION LcdSpec
CONSTANTS
  Line = 3
  Visible = 2
  Bottom = 5
  Lengths = {1, 2, 3, 5, 7}
  Times = {0, 150, 65536}
  Width = 65536
  MaxCalls = 3
INVARIANTS ScreenShowsText DriverKnowsDisplay
CHECK_DEADLOCK FALSE
