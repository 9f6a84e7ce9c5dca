SPECIFICATION WebSpec
CONSTANTS
    Apps = {"a", "b"}
    JobIds = {"j", "k"}
    JobOf <- MCJobOf
    Searches <- MCSearches
    Filters = {"all", "interview_sent"}
    FirstRows <- MCFirstRows
    MaxMoves = 2
    MaxBulk = 1
    NoRow = NoRow
    Applicants = 2
    Undecided = {1}
    Files = {"f"}
    PageSizes = {1}
    MaxDrafts = 1
    MaxSends = 2
    MaxRequests = 3
    People = {"p", "q"}
    MaxRows = 2
    MaxCalls = 3
    Thresholds = {60, 70}
    Templates = {"t1", "t2"}
    Periods = {"7", "30"}
    MaxSaves = 2
    MaxPeriods = 3
    Unset = Unset
    MaxAttempts = 2
    MaxAsked = 1
    MaxQuestions = 2
    MaxVisits = 4
    Dates = {0, 2}
    MaxTime = 3
    MaxWrites = 2
    Numbers = {0, 50}
    Lists <- MCLists
    MaxCreates = 2
    MaxTemplates = 4
    MaxErrands = 3
    Jobs = {1, 2}
    Closings = {1}
    MaxChanges = 2
    MaxClicks = 2
    Resumes = {"f", "g"}
    MaxUploads = 2
    MaxSubmits = 2
    NoFile = NoFile
    MaxStarts = 2
    MaxOpens = 2
    Mishaps = {"call"}
    Countdown = 2
    RoomLength = 2
    MaxWire = 2
    MaxTalks = 1
INVARIANT WebTypeOK
INVARIANT ShownIsTrueUnlessRaced
PROPERTY PushedBackOnlyByStaleRow
INVARIANT DraftGoesToItsAudience
INVARIANT OneCopyUnlessAnswerLost
INVARIANT TwiceOnlyIfAnswerLost
INVARIANT ListIsTrue
INVARIANT SavedIsStored
INVARIANT TranscriptsAreComplete
INVARIANT NobodyIsLeftBehind
PROPERTY ChangesAreMeant
INVARIANT AnswersAreTrue
INVARIANT ResumeIsTheOneNamed
INVARIANT SubmittedFits
INVARIANT TemplatesAreListed
INVARIANT JobListIsCurrent
INVARIANT NoReentry
INVARIANT CountdownIsTheAgents
INVARIANT EndsOnce
CHECK_DEADLOCK FALSE
