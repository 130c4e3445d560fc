\* Two phones; shutdown at any moment; every token and header up to the bounds.
CONSTANTS
  Conns = {c1, c2}
  MaxText = 1
  MaxOut = 1
  Letters = {"x", "y"}
  Foreign = {"u"}
  MaxToken = 3
  MaxHeader = 5
SPECIFICATION Spec
INVARIANTS TypeOK PhoneEndReachesHub PhoneSpeaksInOrder
  OnlyTheToken
PROPERTIES SignalStops GoneForgotten
CHECK_DEADLOCK FALSE
