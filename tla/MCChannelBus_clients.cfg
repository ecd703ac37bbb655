\* A browser and a widget on one channel.  The queue and the ring hold two of
\* four events, so both overflow and lag happen.
SPECIFICATION BusFairSpec
CONSTANTS
    Channels = {home}
    Home = home
    Browsers = {ui}
    Widgets = {w}
    Dispatchers = {}
    Watches <- MCWatches
    Kinds = {"turn_ended"}
    Durable = {}
    Shows <- MCShows
    Closing = "turn_ended"
    Lapsed = "replay_lapsed"
    Shutdown = "shutdown"
    NoCursor = NoCursor
    QueueMax = 2
    ReplayMax = 2
    MaxEvents = 4
    MaxRestarts = 1
    MaxBreaks = 1
INVARIANT OverflowTold
PROPERTY NeverGoesBack
PROPERTY EventuallyKnown
CHECK_DEADLOCK FALSE
