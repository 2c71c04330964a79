\* Two requests at a time; three runs, so that an answer can rest on another
\* through a third, and a turn in the middle can fail or be hidden.  Two pages
\* of a browser without locks, two people, two requests.
SPECIFICATION PartSpec
CONSTANTS
  Calls = {c1, c2}
  Logins = {l1}
  Requests = {q1, q2, q3}
  Bodies = {b1, b2}
  Body = b1
  Sources = {s1}
  None = None
  MaxRuns = 3
  HistoryTurns = 2
  Pages = {c1, c2}
  People = {c1, c2}
  Fetches = {f1}
  HasLocks = FALSE
  MaxSessions = 2
  MaxSignOuts = 1
  MaxAtOnce = 2
SYMMETRY Symmetry
CONSTRAINT QuestionsAreAlike
CHECK_DEADLOCK FALSE
INVARIANTS
  VisibleAnswersRestOnReadableSources
  ContextHasNoGaps
  ShownAnswersAreTheirs
PROPERTIES
  ConversationSpec
  PagesKeepTheirSession
