\* One renderer dispatcher over two channels that share its queue.
SPECIFICATION BusSpec
CONSTANTS
    Channels = {home, other}
    Home = home
    Browsers = {}
    Widgets = {}
    Dispatchers = {slack}
    Watches <- MCWatches
    Kinds = {"new_message", "turn_started", "turn_ended"}
    Durable = {"new_message"}
    Shows <- MCShows
    Closing = "turn_ended"
    Lapsed = "replay_lapsed"
    Shutdown = "shutdown"
    NoCursor = NoCursor
    QueueMax = 2
    ReplayMax = 3
    MaxEvents = 3
    MaxRestarts = 1
    MaxBreaks = 1
INVARIANT ContextsFollowTurns
CHECK_DEADLOCK FALSE
