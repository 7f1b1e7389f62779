\* A deployment, which overlaps two processes, two overlapping emitters, two candidates
\* of which one is watched, and one subscriber with room for two envelopes.  What is
\* detected at one instant is within the window, and an instant later it is not.
SPECIFICATION FairSpec
CONSTANTS
    Processes = {"p1", "p2"}
    Emitters = {"e1", "e2"}
    Candidates = {"watched", "other"}
    Orders = {"o1"}
    Watched = {"watched"}
    DEBOUNCE_WINDOW = 0
    Subscribers = {"s1"}
    server <- MCServer
    max_queue_size = 2
    MaxEvents = 2
    MaxTime = 1
    MaxFailures = 1
INVARIANTS
    TypeOK
    DebounceHolds
    OneRefreshPerListener
    MarksAgree
    SubscribersStayCurrent
    UpdateFollowsEvent
PROPERTY
    NotifiedIsAnswered
