----------------------------- MODULE CrawlerApp -----------------------------
(***************************************************************************)
(* The crawler embedding API on the Apple main-thread application          *)
(* (blinkit/crawler/crawler_impl.cpp, blinkit/app/apple_app.cpp).          *)
(*                                                                         *)
(* The embedder creates the app (AppImpl::CreateInstance), creates a       *)
(* crawler (BkCreateCrawler), starts a navigation (BkRunCrawler) and calls *)
(* RunAndFinalize, which spins the CoreFoundation run loop until Exit()    *)
(* stops it, then deletes the app and returns the exit code.  The work of  *)
(* a navigation runs as tasks on that run loop: an HTTPLoaderTask fetches  *)
(* the main resource and hands the response to                             *)
(* CrawlerImpl::ProcessRequestComplete; when the load ends the frame's     *)
(* client is told through DispatchDidFinishLoad.  The embedder's own code  *)
(* runs in the callbacks (DocumentReady, RequestComplete), so it may       *)
(* destroy the crawler or exit the app from inside a task.                 *)
(*                                                                         *)
(* Modelling choices.                                                      *)
(*  - The DocumentLoader's own steps are DocumentLoader.tla; here a load   *)
(*    is one request task and one completion task with either outcome.     *)
(*  - CFRunLoopStop stops the current activation of the run loop; each    *)
(*    CFRunLoopRun starts with a cleared stopped flag, so an Exit before   *)
(*    RunAndFinalize stores its code but does not stop the later loop.    *)
(*    The main run loop carries the task runner's source, so CFRunLoopRun  *)
(*    returns only once stopped.                                           *)
(*  - The embedder picks the app mode.  CreateTaskRunner builds a runner  *)
(*    only for BK_APP_MAINTHREAD_MODE; for another mode its NOTREACHED()   *)
(*    is compiled out (release build) and the app keeps a null runner.     *)
(*    The loader posts a navigation's tasks through GetTaskRunner().       *)
(*  - BkRunCrawler's assert is compiled out (release build).               *)
(***************************************************************************)
EXTENDS Integers

CONSTANTS
  AppModes,       \* modes the embedder passes to CreateInstance
  Codes,          \* exit codes the embedder passes to Exit
  InitExitCode,   \* m_exitCode before any Exit (set in app_impl.h)
  URLs            \* URLs the embedder passes to BkRunCrawler

ASSUME AppModes \subseteq {"BK_APP_MAINTHREAD_MODE", "BK_APP_BACKGROUND_MODE"}
ASSUME InitExitCode \in Codes /\ URLs \subseteq {"http", "https", "file"}

VARIABLES
  app,            \* "none", "created", "running" (inside CFRunLoopRun), "deleted"
  taskRunner,     \* m_taskRunner: "MainThreadTaskRunner" or "null"
  exitCode,       \* m_exitCode
  stopped,        \* the main run loop's stopped flag
  returned,       \* the value RunAndFinalize returned, -1 before it returns
  crawler,        \* "none", "alive", "destroyed" (the CrawlerImpl)
  hook,           \* the BkCrawlerClient has a RequestComplete callback
  nav,            \* the navigation: "idle", "requesting", "held", "loading",
                  \*   "committed", "finished", "failed"
  runResult,      \* BkRunCrawler's last result
  reported        \* the outcome of the current navigation reached the client

vars == <<app, taskRunner, exitCode, stopped, returned, crawler, hook, nav,
          runResult, reported>>

AppAlive == app \in {"created", "running"}

(* A task runs: the app is inside CFRunLoopRun and the loop is not stopped. *)
TaskRuns == app = "running" /\ ~stopped

Init ==
  /\ app = "none"
  /\ taskRunner = "null"
  /\ exitCode = InitExitCode
  /\ stopped = FALSE
  /\ returned = -1
  /\ crawler = "none"
  /\ hook = FALSE
  /\ nav = "idle"
  /\ runResult = "none"
  /\ reported = FALSE

(* CreateTaskRunner(appMode): a MainThreadTaskRunner for the main-thread *)
(* mode; any other mode hits NOTREACHED() and returns nullptr.            *)
CreateTaskRunner(mode) ==
  IF mode = "BK_APP_MAINTHREAD_MODE" THEN "MainThreadTaskRunner" ELSE "null"

(* AppleApp's constructor: AppImpl's, then m_taskRunner(CreateTaskRunner). *)
AppleApp(mode) ==
  /\ app' = "created"
  /\ taskRunner' = CreateTaskRunner(mode)

(* GetTaskRunner: the runner the loader posts a navigation's tasks to. *)
GetTaskRunner == taskRunner

(* CreateInstance(mode, client): new AppleApp. *)
CreateInstance ==
  /\ app = "none"
  /\ \E mode \in AppModes : AppleApp(mode)
  /\ UNCHANGED <<exitCode, stopped, returned, crawler, hook,
                 nav, runResult, reported>>

(* RunAndFinalize enters CFRunLoopRun, with a fresh stopped flag. *)
RunAndFinalize ==
  /\ app = "created"
  /\ app' = "running"
  /\ stopped' = FALSE
  /\ UNCHANGED <<taskRunner, exitCode, returned, crawler, hook,
                 nav, runResult, reported>>

(* CFRunLoopRun returns once stopped; RunAndFinalize reads m_exitCode,    *)
(* deletes the app and returns the code.                                  *)
RunLoopReturns ==
  /\ app = "running"
  /\ stopped
  /\ stopped' = FALSE
  /\ returned' = exitCode
  /\ app' = "deleted"
  /\ UNCHANGED <<taskRunner, exitCode, crawler, hook, nav, runResult,
                 reported>>

(* Exit(code): m_exitCode = code; CFRunLoopStop(CFRunLoopGetCurrent()),   *)
(* which stops the loop only while RunAndFinalize is inside it.           *)
Exit(code) ==
  /\ AppAlive
  /\ exitCode' = code
  /\ stopped' = (stopped \/ app = "running")
  /\ UNCHANGED <<app, taskRunner, returned, crawler, hook, nav, runResult, reported>>

(* CrawlerImpl's constructor: LocalFrame::Create and Init.  The client    *)
(* may or may not install a RequestComplete callback.                      *)
CrawlerImpl ==
  /\ crawler' = "alive"
  /\ hook' \in BOOLEAN

(* BkCreateCrawler: new CrawlerImpl on the embedder's client. *)
BkCreateCrawler ==
  /\ crawler = "none"
  /\ CrawlerImpl
  /\ UNCHANGED <<app, taskRunner, exitCode, stopped, returned, nav,
                 runResult, reported>>

(* Run(URL): a non-http(s) URL returns BK_ERR_URI; otherwise the frame     *)
(* loader starts the navigation, which supersedes any current one and     *)
(* posts its request task, and BK_ERR_SUCCESS is returned.                 *)
Run(url) ==
  IF url \in {"http", "https"}
  THEN /\ nav' = "requesting"
       /\ reported' = FALSE
       /\ runResult' = "BK_ERR_SUCCESS"
  ELSE /\ runResult' = "BK_ERR_URI"
       /\ UNCHANGED <<nav, reported>>

(* BkRunCrawler: crawler->Run(URL).  StartNavigation reaches the app     *)
(* (AppImpl::Get(), its task runner), so it is only called while one is   *)
(* alive.                                                                 *)
BkRunCrawler ==
  /\ AppAlive
  /\ crawler = "alive"
  /\ \E url \in URLs : Run(url)
  /\ UNCHANGED <<app, taskRunner, exitCode, stopped, returned, crawler,
                 hook>>

(* CrawlerImpl's destructor: the frame detach is compiled out, so the      *)
(* navigation and its tasks carry on (what they then touch is not         *)
(* modelled).                                                             *)
DeleteCrawler == crawler' = "destroyed"

(* BkDestroyCrawler: delete crawler. *)
BkDestroyCrawler ==
  /\ crawler = "alive"
  /\ DeleteCrawler
  /\ UNCHANGED <<app, taskRunner, exitCode, stopped, returned, hook, nav,
                 runResult, reported>>

(* The HTTPLoaderTask runs and calls m_crawler.ProcessRequestComplete:    *)
(* with a RequestComplete callback the client gets the controller and     *)
(* the load waits for it; otherwise controller->ContinueWorking().        *)
ProcessRequestComplete ==
  /\ TaskRuns
  /\ nav = "requesting"
  /\ nav' = IF hook THEN "held" ELSE "loading"
  /\ UNCHANGED <<app, taskRunner, exitCode, stopped, returned, crawler,
                 hook, runResult, reported>>

(* The client calls ContinueWorking on the controller it was given. *)
ContinueWorking ==
  /\ TaskRuns
  /\ nav = "held"
  /\ nav' = "loading"
  /\ UNCHANGED <<app, taskRunner, exitCode, stopped, returned, crawler,
                 hook, runResult, reported>>

(* The provisional load commits, or fails before committing.  A            *)
(* provisional failure reaches the frame client's failure hook, which      *)
(* CrawlerImpl no longer forwards to the client (its LoadFailed            *)
(* forwarding is compiled out).                                            *)
CommitNavigation ==
  /\ TaskRuns
  /\ nav = "loading"
  /\ nav' \in {"committed", "failed"}
  /\ UNCHANGED <<app, taskRunner, exitCode, stopped, returned, crawler,
                 hook, runResult, reported>>

(* DispatchDidFinishLoad: m_client.DocumentReady(m_client.UserData). *)
DispatchDidFinishLoad == reported' = TRUE

(* The committed load ends: success reaches DispatchDidFinishLoad; a       *)
(* failure, like a provisional one, is not forwarded.                      *)
LoadFinishes ==
  /\ TaskRuns
  /\ nav = "committed"
  /\ \/ /\ nav' = "finished"
        /\ DispatchDidFinishLoad
     \/ /\ nav' = "failed"
        /\ UNCHANGED reported
  /\ UNCHANGED <<app, taskRunner, exitCode, stopped, returned, crawler,
                 hook, runResult>>

Next ==
  \/ CreateInstance
  \/ RunAndFinalize
  \/ RunLoopReturns
  \/ \E code \in Codes : Exit(code)
  \/ BkCreateCrawler
  \/ BkRunCrawler
  \/ BkDestroyCrawler
  \/ ProcessRequestComplete
  \/ ContinueWorking
  \/ CommitNavigation
  \/ LoadFinishes

(* The run loop returns once stopped and runs its posted tasks while it   *)
(* spins; the embedder's own calls are not obliged to happen.             *)
Spec == Init /\ [][Next]_vars
        /\ WF_vars(RunLoopReturns)
        /\ WF_vars(ProcessRequestComplete)
        /\ WF_vars(CommitNavigation)
        /\ WF_vars(LoadFinishes)

-----------------------------------------------------------------------------
(* Every navigation that ends is reported to the embedder: DocumentReady   *)
(* on success, LoadFailed on failure (spec section 5: "there is no silent  *)
(* failure path").                                                         *)
NavigationOutcomeReported ==
  nav \in {"finished", "failed"} => reported

=============================================================================
