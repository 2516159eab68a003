\* Two projects, two wizards, two changes of the file, one stop.
SPECIFICATION FairSpec
CONSTANTS
  None = None
  Broken = Broken
  p1 = p1
  p2 = p2
  b1 = b1
  b2 = b2
  g1 = g1
  g2 = g2
  Wizards = {w1, w2}
  Projects = {p1, p2}
  Bots = {b1, b2}
  Groups = {g1, g2}
  Jobs <- MCJobs
  FirstDocs <- MCFirstDocs
  HandDocs <- MCHandDocs
  MaxWrites = 2
  MaxStops = 1
CHECK_DEADLOCK FALSE
INVARIANTS
  WizardsKeepItValid
  PollersAreManaged
PROPERTIES
  EditsAreServed
