\* One process after the other lists the keywords of the same news item.
SPECIFICATION Spec
CONSTANTS
    Processes = {"p1"}
    Emitters = {"e1"}
    Candidates = {"news"}
    Orders = {"o1", "o2"}
    Watched = {"news"}
    DEBOUNCE_WINDOW = 1
    Subscribers = {}
    server <- MCServer
    max_queue_size = 1
    MaxEvents = 2
    MaxTime = 2
    MaxFailures = 0
INVARIANT
    OneRowPerWindow
CHECK_DEADLOCK FALSE
