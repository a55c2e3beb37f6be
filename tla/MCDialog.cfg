SPECIFICATION Spec
CONSTANTS
    Widget = {"w", "buttonBox"}
    Reactions <- MCReactions
    Events <- MCEvents
    MaxReactions = 2
CHECK_DEADLOCK FALSE
INVARIANTS
    ViewShowsIntent
    EventReachesItsHandler
PROPERTY
    CommandsDeliveredOnce
