\* DocumentLifecycle with both values of the SlimmingPaintV2 flag and up to
\* three nested CheckNoTransitionScopes.
CONSTANTS
    MaxScopeDepth = 3
SPECIFICATION Spec
INVARIANT CompositingOnlyWithoutSPV2
PROPERTIES
    RefinesLifecyclePhases
    MutationWindowsClosed
