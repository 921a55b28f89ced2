CONSTANTS
    Newest = 4
    Kind <- MCKind
    Subject <- MCSubject
    Count = 2
    MaxRequests = 2
    MaxAnswers = 2
    Deliveries = {"notification", "content"}
    BackfillHandlers = {d1}
    AccountNames = {a1, a2}
    AccountCommands = {e1, e2}
    StoreCommands = {s1}
    NoAccount = NoAccount
    NoFile = NoFile
    w1 = w1
    w2 = w2
    k1 = k1
    t0 = t0
    t1 = t1
    pic = pic
    u1 = u1
    Keys = {k1}
    Texts = {t0, t1}
    Media = {pic, u1}
    Times <- MCTimes
    Feeds <- MCFeeds
    Workers = {w1, w2}
    NoJob = NoJob
    NULL = NULL
    RevokedLabel = RevokedLabel
    DeletedLabel = DeletedLabel
    SentText = t0
    EditedText = t1
    Uploads <- MCUploads
    SendTimes = {1, 2}
SPECIFICATION CommandsSpec
INVARIANTS
    CommandsTypeOK TombstoneHidesContent NewestEditWins
    RedeliveryIsHarmless LocalPathHasFile RecordedAsAccepted
    PhoneHasLastWord VoteJoinsPoll ConfigIsSerial
PROPERTIES DeletionIsPermanent NothingAskedTwice BackfillTerminates KeepsPromise
CHECK_DEADLOCK FALSE
