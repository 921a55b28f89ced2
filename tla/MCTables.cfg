CONSTANTS
    m1 = m1
    m2 = m2
    Messages <- MCMessages
    Recent <- MCRecent
    Scenes <- MCScenes
    t0 = t0
    t1 = t1
    t2 = t2
    Texts = {t0, t1, t2}
    Media = {}
    Times <- MCTimes
    NULL = NULL
    RevokedLabel = RevokedLabel
    DeletedLabel = DeletedLabel
    LIDHandlers = {d1}
    PollOptions = {t0, t1}
    LIDFeeds <- MCLIDFeeds
    Groups = {g1, g2}
    GroupHandlers = {d1}
    Subjects = {n1}
    NoName = NoName
    MaxChanges = 2
    c1 = c1
    CallIds = {c1}
    NoCallId = NoCallId
    CallTypes = {"call_log", "terminate"}
    CallTimes = {1, 2}
    CallSources = {"node", "patches", "history"}
    CallFeeds <- MCCallFeeds
    MaxCallRows = 3
SPECIFICATION TablesSpec
INVARIANTS TablesTypeOK CountedIsUnread CountsOnce FlagsFollowPhone MergedAsUnsplit HandlerSplitsNoMore OneRowPerCall
PROPERTIES CleanupSparesRecent RefreshIsExact PruneSparesActive NamesAreKept
CHECK_DEADLOCK FALSE
