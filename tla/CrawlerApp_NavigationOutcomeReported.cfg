\* Two exit codes (the initial one and another), one http(s) URL and one
\* other scheme.
CONSTANTS
    AppModes = {"BK_APP_MAINTHREAD_MODE"}
    Codes = {0, 1}
    InitExitCode = 0
    URLs = {"https", "file"}
SPECIFICATION Spec
INVARIANT
    NavigationOutcomeReported
CHECK_DEADLOCK FALSE
