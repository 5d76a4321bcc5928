\* Every reply and every request, beside a pipeline that may redeliver.
SPECIFICATION VisSpec
CONSTANTS
    Uploads = {u1}
    Replies <- MCReplies
    Queries <- MCQueries
    Today <- MCToday
    MaxAnalyses = 2
INVARIANTS
    VisTypeOK
    OneAnalysisPerResponse
    ChartsAgree
    NothingVanishes
    ChartsKeepToRequest
    DefaultWindowShowsData
    CompletedIsReady
