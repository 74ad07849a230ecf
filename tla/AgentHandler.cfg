SPECIFICATION Spec
CONSTANTS
  pin = pin
  pout = pout
  s1 = s1
  Sessions = {s1}
  Paths = {pin, pout}
  Readable = {pin, pout}
  Writable = {pin}
  RemoteWritable = {pout}
  Sizes = {1, 6}
  Turns = 1
  MaxNotes = 1
  MaxRounds = 1
  MaxRetries = 1
  CallLimit = 2
  MaxCompressions = 1
  Trigger = 8
  Target = 6
  Recent = 4
  SummaryMax = 1
  ToolMax = 2
  MaxWrite = 2
  Plans <- MCPlans
  MaxRequests = 2
INVARIANTS TypeOK HistoryIsAnswers FitsOrMinimal CallsAnswered LoopBounded
 
CHECK_DEADLOCK FALSE
