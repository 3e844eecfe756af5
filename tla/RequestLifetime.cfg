\* The embedder's handle is the one initial reference; BkPerformRequest runs
\* once, so it hands out at most one controller, released before or after
\* the transfer completes.
CONSTANTS
    InitRefCount = 1
    MaxControllers = 1
SPECIFICATION Spec
PROPERTY
    RefinesRequestHolders
\* The request is deleted once every reference is released: nothing is
\* left to run.
CHECK_DEADLOCK FALSE
