\* Three fetchers and four messages: a post can find two sleepers, a signalled
\* one and an expired one at a time.
SPECIFICATION Spec
CONSTANTS
    Fetchers = {f1, f2, f3}
    NoMsg = NoMsg
    MaxPosts = 4
INVARIANTS
    NoLostWakeup
    InOrderExactlyOnce
PROPERTY EveryMessageDelivered
