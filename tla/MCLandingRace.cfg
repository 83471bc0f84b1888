SPECIFICATION Spec
CONSTANTS
    Orders = {"o1", "o2"}
    Routes = {"jito_bundle", "rpc", "sender"}
    Bundle = "jito_bundle"
    Tipped = {"o1", "o2"}
    Forks = TRUE
INVARIANTS
    RouteBooks
    FilledIsConfirmed
CHECK_DEADLOCK FALSE
