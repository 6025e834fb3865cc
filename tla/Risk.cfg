SPECIFICATION MCSpec
CONSTANTS
  r1 = r1
  r2 = r2
  u1 = u1
  u2 = u2
  nobody = nobody
  t1 = t1
  t2 = t2
  clean = clean
  medium = medium
  high = high
  blank = blank
  Requests <- TwoRequests
  Users <- TwoUsers
  NoUser <- nobody
  RuleColors <- AllColors
  TaskIds <- TwoTasks
  ScreenRequests <- TwoRequests
  Subjects = {"N3", "N5"}
  MaxHits = 3
  Limits = {4, 6}
  Amounts = {4, 5, 7}
  LastDay = 11
  TermDays = 2
  MediumMin = 1
  HighMin = 2
  UltraMin = 3
INVARIANTS
  SerialRedNotReleased
  SerialCardSettles
  OverlapLawful
  HitNotLost
  OverdueIsOwed
PROPERTIES
  SerialDispositionKept
  OnlyClearedPartyPasses
  RescreenSettles
  ListedPartnerShows
  PassedPapersComplete
SYMMETRY Symmetry
