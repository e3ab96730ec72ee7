CONSTANTS
  Consoles = {"o1","o2"}
  Tasks = {"t1", "t2"}
  Sources = {"s2"}
  Opportunities = {"p"}
  Candidates = {"k", "m"}
  Discovered = {"m"}
  SourceOf <- MCSourceOf
  States = {"on", "off"}
  Live = "on"
  Texts = {"x", "y"}
  NewText = "x"
  ListLimit = 1
  Absent = Absent
  Closed = Closed
  NewSource = NewSource
  MaxClicks = 2
SPECIFICATION FairSpec
INVARIANTS TypeOK BusyIsOwned OwnChangesShown
PROPERTIES QuickChangeKeepsText FormClosesOnlyWhenStored ButtonsComeBack
CHECK_DEADLOCK FALSE
