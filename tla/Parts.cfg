SPECIFICATION Spec
CONSTANTS
  MaxItems = 3  MaxCalls = 2  MaxEvents = 3  MaxChunk = 2  Ladder <- MCLadder
  KnowledgePoints = {"p", "q", "r", "s"}  Templated = {"p", "s"}  Alphabetic <- MCAlphabetic  GapDays = 2  WeekDays = 1
  MaxShown = 2  MaxMistakes = 4  LastDay = 3
  Numbers = {"DB_MAX_CONNECTIONS", "TOKEN_TTL_DAYS"}  Signed = {"TOKEN_TTL_DAYS"}
  Default <- MCDefault  Written = {"-1", "0", "2"}  NumberOf <- MCNumberOf
  NoNumber = NoNumber  Absent = Absent  Ladders <- MCLadders  DefaultLadder <- MCDefaultLadder
  Mailboxes = {"ann", "bob"}  Passwords = {"secret", "letmein1"}  Short = "abc"
  Callers = {"turn", "command"}  Descriptors <- MCDescriptors  MaxOffered = 3
  Services = {"storage", "memory"}  Unknown <- MCUnknown
CHECK_DEADLOCK FALSE
INVARIANTS ProbeAgrees RoundIsWhole SameBill ReplayCarriesReasoning WeakestFirst RunsWhatWasCalled
PROPERTIES NoOneIsTakenOver MissedOnlyWhileLoading
