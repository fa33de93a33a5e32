CONSTANTS
    p = p
    q = q
    t1 = t1
    t2 = t2
    None = None
    Blank = Blank
    Queries = {p, q}
    Tasks = {t1, t2}
    MAX_CLIENT_CACHE = 3
    MaxHaste = 1
    MaxEvents = 2
SPECIFICATION SearchFairSpec
INVARIANTS SearchTypeOK ArchivedStayHidden EntriesAreAnswers TableIsAnswerUpToCap
PROPERTY SpinnerGoesAway
