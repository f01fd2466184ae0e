CONSTANTS
  Text = Text
  NoAnswer = NoAnswer
  None = None
  Missing = Missing
SPECIFICATION CallSpec
INVARIANTS
  ReadsBack
  DevicesAsDescribed
  
  SignalsInBounds
CHECK_DEADLOCK FALSE
