CONSTANTS
    Request = {1}
    MaxGroup = 2
    MaxObject = 1
SPECIFICATION FetchSpec
INVARIANTS FetchExact
PROPERTIES FetchCompletes
CHECK_DEADLOCK FALSE
