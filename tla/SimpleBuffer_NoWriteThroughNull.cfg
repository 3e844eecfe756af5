\* An empty and a non-empty copy, and enough malloc calls for fills that
\* succeed and fail in any order; checks that no copy goes through nullptr.
CONSTANTS
    Sizes = {0, 4}
    MaxAllocs = 5
SPECIFICATION Spec
INVARIANT NoWriteThroughNull
