CONSTANTS
  s1 = s1  s2 = s2  s3 = s3  s4 = s4
  rack = rack  h1 = h1  h2 = h2
  c1 = c1  l1 = l1  l2 = l2  l3 = l3  l4 = l4  l5 = l5
  web = web  db = db
  None = None
  Assets = {s1, s2, s3, s4, rack, h1, h2}
  Groups = {1, 2, 3}
  Circuits = {c1}
  Links = {l1, l2, l3, l4, l5}
  Services = {web, db}
  MaxNamed = 3
  MaxCut = 2
  Budget = 4
  MaxHops = 3
  SupplyDepthLimit = 4
  Rank <- MCRank
  Topologies <- MCTopologies
SPECIFICATION PowerSpec
CHECK_DEADLOCK FALSE
INVARIANTS EngineIsExact LossNeverImproves CutSaysWhatTheEngineSays PicturesAreExact PowerTellsOneStory
