\* A question that refers to a turn before.
SPECIFICATION QueriesSpec
CONSTANTS
  Chunks = {1, 2, 3}
  DocumentOf <- Documents3
  TextOf <- Texts3
  PathSeq <- Paths3
  Opinions <- Opinions3
  TopKs = {2}
  CandidateKs = {3}
  MaxWorldChanges = 0
  Values = {1, 2}
  MaxConditions = 1
  Noticed <- Noticed2
  FilterSelections <- Filters1
  Histories <- Histories3
  NameOf <- Names4
  KindOf <- Kinds4
  TitleOf <- Titles2
  Relations <- Relations3
  Mentions <- Mentions4
  Limits = {2, 3}
  SeedLimit = 2
  PathLimit = 2
  Users = {u1}
  Departments = {d1}
  NULL = NULL
  MaxClearance = 0
  MaxVersion = 1
  Requests = {r1}
CHECK_DEADLOCK FALSE
PROPERTY EarlierConditionsStayOut
