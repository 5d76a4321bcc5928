\* What the comment on resolveWindow says of the default window and of a request
\* with only one end.
SPECIFICATION VisSpec
CONSTANTS
    Uploads = {u1}
    Replies <- MCReplies
    Queries <- MCQueries
    Today <- MCToday
    MaxAnalyses = 1
INVARIANT WindowAsDocumented
