\* The chain of documents behind a repair, re-issued, edited and overtaken.
CONSTANTS
  own = own  sole = sole  team = team  external = external  stranger = stranger
  check1 = check1  check2 = check2
  None = None
  Risky = {"workflow"}
  OwnRepos = {own}
  Day = 1
  Second = 1
  Half = 8
  Scenes <- MCScenes
  run = run1  otherRun = run2  issue = issue1  otherIssue = issue2
  main = main1  branch = branch1  operator = operator1
  Passing = {1, 2, 4}
  Touches <- MCTouches
  Lifetime = 2
  Unbudgeted = 14
  MaxMoves = 1
  MaxIssues = 1
  MaxSlips = 1
  MaxClock = 2
SPECIFICATION MCSpec
INVARIANTS MutationRestsOnOneHead NoDocumentWidensThePolicy AuthorityRunsOut ProperChainIsAuthorized
CHECK_DEADLOCK FALSE
