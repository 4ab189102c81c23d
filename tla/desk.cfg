SPECIFICATION DeskSpec
CONSTANTS
    Topics <- TwoTopics
    ImportOrder <- SkillsLast
    ReadPlans <- WorkerAndPage
    Readers = {r1}
    Editors = {e1, e2}
    NoEntry = NoEntry
    MaxWrites = 3
    MaxFaults = 2
    Posts <- DeskPosts
    MaxBirths = 2
    Requests = {q1, q2}
    Marked = {"interview", "ready", "note"}
    MaxEvents = 3
    MaxFails = 1
    PdfRequests = {p1, p2, p3}
    MaxPdfFaults = 2
    Users = {u1, u2}
    Me = u1
    Sizes = {1, 2}
    MaxRows = 2
    Histories <- MCHistories
    Replies <- MCReplies
    Rankings <- MCRankings
    Readings <- MCReadings
    Now = 4
    Terms <- ListTerms
    Searchable <- ListSearchable
    Stacks <- ListStacks
    Searches <- ListSearches
    JobPages <- ListJobPages
    Postings <- ListPostings
    Tasks <- TextTasks
    Lower <- TextLower
    Short <- TwoLetters
    Dotted <- WithDot
    Kinds <- TechGroups
    Today = 20
INVARIANTS
    
    
    BoardAgrees
    PathHasItsFile
    
    
    
PROPERTIES
    StaleHasACause
    CacheConverges
CHECK_DEADLOCK FALSE
