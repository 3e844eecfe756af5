# TLA+ models of the BlinKit loading core

These modules model the part of BlinKit that `spec.md` calls the hardest
engineering in the repository, and the BlinKit SDK layer around it: the
crawler API, the Apple application run loop, the HTTP request object and
the simple buffer helpers. That part is the Frame / FrameLoader /
DocumentLoader / DocumentLifecycle triad. It sequences a navigation: the
fetch of the main resource, redirects, the response, data chunks
delivered while script runs, completion, cancellation and detach, and the
per-document lifecycle that says when the DOM may be mutated.

## 1. Inventory

### Parts of the system and how they interact

| Part | Source | Role |
|---|---|---|
| DocumentLoader | `core/loader/DocumentLoader.cpp` | Loads one navigation. Receives fetch callbacks, buffers reentrant data, creates the document and feeds the parser. Reports completion or failure to the FrameLoader. |
| DocumentLifecycle | `core/dom/document_lifecycle.cpp` | The per-document phase machine (`CanAdvanceTo`, `AdvanceTo`, `StateAllowsTreeMutations`). |
| FrameLoader / FrameLoaderStateMachine | `core/loader/frame_loader.h` (header only) | Owns the provisional and committed loaders. Commits, stops all loaders and tracks the first-real-load state. |
| WebLocalFrameImpl | `web/WebLocalFrameImpl.cpp` | Embedder entry points: load a request or data, stop loading, force a commit. |
| Crawler bridge | `blinkit/crawler/crawler_impl.cpp` | `BkCreateCrawler`/`BkRunCrawler`/`BkDestroyCrawler`. `CrawlerImpl::Run` starts a navigation for http(s) URLs. `ProcessRequestComplete` hands the main response to the embedder's `RequestComplete` hook. `DispatchDidFinishLoad` calls `DocumentReady`. |
| Application (Apple) | `blinkit/app/apple_app.cpp` | `CreateInstance`, `RunAndFinalize` (spins the CoreFoundation run loop, then deletes the app) and `Exit` (stores the code, stops the loop). |
| Frame / LocalFrame / DOMWindow | `frame.h`, `LocalFrame.h`, `DOMWindow.cpp` | The attachment point: window and document. |
| Page registry | `core/page/Page.cpp` | The process-wide set of pages. |
| HTTP request | `blinkit/http/request_impl.cpp` | The embedder's reference-counted request: `BkPerformRequest`, `GetController`, `Release`, the option setters. |
| Simple buffer | `blinkit/misc/buffer.cpp` | `BkInitializeSimpleBuffer`, `BkSetBufferData` (through the `Alloc` callback), `BkFinalizeSimpleBuffer`. |
| Script bridge | `blinkit/js/context_impl.h`, `duk/*` | The script engine. The loader only sees its reentrancy. |
| DOM, presentation, text utilities | `character_data.cc`, `mutation_record.cc`, `ImageBuffer.cpp`, `unicode*.cpp`, ... | Data structures and conversions outside the loading core. |

The flow of a navigation:
1. The embedder (CrawlerImpl::Run) asks the FrameLoader to start a navigation.
2. The FrameLoader creates a DocumentLoader, which calls
   `startLoadingMainResource`.
3. The fetch layer calls back `redirectReceived`, `responseReceived`,
   `dataReceived` (once per chunk) and finally `notifyFinished`.
4. On the first data, the loader commits the provisional load, creates the
   document (`ensureWriter`) and hands chunks to the parser.
5. The parser runs script. Script may spin a nested message loop (alert,
   synchronous XHR), in which the fetch layer delivers further callbacks
   *into the same loader* while the outer `dataReceived` is still on the
   stack. Script may also stop the load, detach the frame or call
   `document.close()`.

There is one thread. All hard behaviour comes from this reentrancy and
from the order of callbacks. In the SDK layer, the navigation's work runs
as tasks on the app's main run loop (`RunAndFinalize`). The embedder's own
code runs inside the callbacks, so it may destroy the crawler or call
`Exit` from inside a task. The HTTP transport posts its results back to
that thread (spec section 6), so reference-count steps are atomic.

### Hard behaviours

- A nested `dataReceived` is queued in `m_dataBuffer` by the guard
  `m_inDataReceived`. The top-level call then drains the buffer in a loop.
- `notifyFinished` and `mainReceivedError` have no such guard. They can run
  inside a nested loop while chunks are buffered.
- Cancellation paths: blocked cross-origin redirect, navigation-policy
  veto, refused response, `document.close()`, stop, detach.
- The lifecycle table has cycles, and it depends on the SlimmingPaintV2
  runtime flag. Scopes that forbid transitions can nest.

## 2. Modules

### `DocumentLoader.tla` (with `MC_DocumentLoader.tla`)

One DocumentLoader for one navigation.

**State.** The variables are `m_state`, `m_frame` (present or not),
`m_request` (URL kind, method, cache policy), `m_response`,
`m_mainResource`, `m_writer`, the document's `parsing()` flag,
`m_inDataReceived`, `m_dataBuffer` and the drain loop's position.

**The call stack.** `pc` makes the stack explicit:
- `"idle"`: no loader call is running.
- `"parse"`: inside `m_writer->addData`, where script runs.
- `"loop"`: back in the drain loop of `dataReceived`.

**Transport.** `responded` and `sent` record what the fetch layer has
delivered.

**History variables.** Three variables exist only for the properties:
- `parsed`: the chunks the parser received, in order;
- `docs`: the number of `receivedFirstData` calls;
- `rejected`: whether the navigation was refused.

**Actions.** Each callback of the code is one action, which runs the whole
callback:
- `StartLoadingMainResource`, with `maybeLoadEmpty` and the failed-fetch
  path;
- `RedirectReceived` (`willSendRequest`);
- `ResponseReceived`;
- `DataReceived` (top level) and `NestedDataReceived` (inside script);
- `ParserReturns`, `DrainNext` and `DrainDone` (the rest of
  `dataReceived`);
- `NotifyFinished` and `NotifyFailed`;
- `StopAllLoaders`, `DetachFromFrame` and `DocumentClose` (script or
  embedder actions).

**Shared steps.** `ProcessData`, `CommitData`, `CommitIfReady`, `FinishedLoading`,
`MainReceivedError` and `CancelMainResourceLoad` are steps that several
callbacks share, in the order the code runs them. Chunk bytes are
abstracted to chunk numbers. URLs are abstracted to kinds (`"http"`,
`"empty"`, `"blank"`, `"file"`).

`FinishedLoading` keeps the code's early return: after `commitIfReady()`
it returns if `frameLoader()` is null (line 301). `NotifyFinished` has no
frame guard of its own, as in the code (lines 273-283).

**Spec-modelled parts.** Two parts are spec-modelled, because their code
is not in this tree:
- the part of `FrameLoader::stopAllLoaders` that ends parsing before
  `DocumentLoader::stopLoading`;
- `DocumentClose`, which is script calling `document.close()` (Document.cpp).

### `DocumentLifecycle.tla` and `LifecyclePhases.tla`

`DocumentLifecycle` translates the whole `CanAdvanceTo` switch into
`Successors(s)`, a table of successor sets. `AdvanceTo` is guarded by both
of its assertions, as in a debug build.

Other modelled state:
- **`slimmingPaintV2`**: the runtime flag. It is chosen at Init and is
  fixed thereafter, because it is set at process start.
- **Nested `CheckNoTransitionScope`s**: the scopes save and restore
  `m_checkNoTransition`. They are spec-modelled, because the header is not
  in this tree.

`LifecyclePhases` is the abstract promise of spec §3/§4.1:
- Uninitialized → Inactive → work phases;
- Stopping from anywhere;
- Stopped only from Stopping;
- no return to Uninitialized or Inactive.

`DocumentLifecycle` instantiates it with the refinement mapping
`PhaseOf(state)`, and a run checks it as a property.

The module has no type invariant. Its only state is an enum, a boolean
and a bounded stack. No plausible code change could give them an
ill-typed value.

### `SimpleBuffer.tla`

The `BkSimpleBuffer` helpers of `misc/buffer.cpp`.

**State.**
- `allocator` and `blob`/`size`: the struct's fields.
- `heap`: the allocations malloc returned and free has not released.
  Allocations are numbered in malloc order, and 0 is nullptr.
- `mallocs`: the number of malloc calls so far.
- `nullWrite`: a history flag, set when `memcpy` copies a non-empty
  block to nullptr.

**Actions.**
- `BkInitializeSimpleBuffer`.
- `BkSetBufferData`, which calls `Alloc(cb)` and then `memcpy` into its
  result. malloc may fail for any size and `malloc(0)` may return
  nullptr, so nullptr and fresh memory are both explored.
- `BkFinalizeSimpleBuffer`, with `Free`.

None of the calls has a guard, as in the code. The struct starts zeroed.
Finalize on an uninitialised struct would free garbage, so that case is
not explored. The embedder alone orders these calls, so every order is
explored.

### `RequestLifetime.tla`

A `RequestImpl` and its references.

**State.**
- `refCount` (`m_refCount`) and `alive` (the object has not been deleted).
- `ownerHolds`: the embedder's `BkRequest` handle is still valid.
- `controllers`: the controllers handed out and not yet released.
- `performing`, and the set of `options` set.

**Actions.**
- `BkSetRequestOption`, through the setter `SetRequestOption`.
- `BkPerformRequest`, with or without a controller pointer. With one, it
  calls `GetController`.
- `ReleaseController` and `RequestComplete`. Both call `Release`.

**Spec-modelled parts.** The initial count comes from `request_impl.h`,
which is not in this tree; it is the constant `InitRefCount = 1` (the
handle). `Perform` and the transfer's completion are not in this tree
either. Completion drops the handle's reference.

### `RequestHolders.tla`

The abstract specification of the request's lifetime: a set of holders,
where the embedder's handle is the first. A holder may be added only
while the object lives, and the object is deleted exactly when the last
holder drops. `RequestLifetime` maps its handle (0) and its controllers
(1..MaxControllers) onto `holders` and `~alive` onto `deleted`, and
`RefinesRequestHolders` checks that the reference count implements the
holder set.

### `CrawlerApp.tla`

The crawler API composed with the application run loop.

**App side.**
- `CreateInstance(mode)` (the `AppleApp` constructor). It stores in
  `taskRunner` what `CreateTaskRunner` builds: a main-thread runner for
  `BK_APP_MAINTHREAD_MODE`, and nullptr for any other mode, because the
  `NOTREACHED()` is compiled out in release builds. `GetTaskRunner` reads it;
  the loader posts a navigation's tasks there;
- `RunAndFinalize` (enters `CFRunLoopRun`);
- `RunLoopReturns` (reads `m_exitCode`, deletes the app, returns);
- `Exit(code)`.

`stopped` is the run loop's stop flag. `CFRunLoopStop` stops only a
running activation, and every `CFRunLoopRun` starts with a cleared flag.
So an `Exit` before `RunAndFinalize` stores its code, but does not stop
the loop that `RunAndFinalize` later enters. `RunAndFinalize` clears
`stopped`, and `Exit` sets it only while `app = "running"`.

**Crawler side.**
- `BkCreateCrawler` (constructor `CrawlerImpl`);
- `BkRunCrawler` (`Run(url)`);
- `BkDestroyCrawler` (destructor `DeleteCrawler`, whose frame detach is
  compiled out).

**Navigation tasks.** These run only while the loop spins and is not
stopped:
- `ProcessRequestComplete`, the HTTPLoaderTask calling its crawler;
- `ContinueWorking`, the client resuming a held controller;
- `CommitNavigation`, which commits (`TransitionToCommittedForNewPage`
  has an empty body) or fails provisionally;
- `LoadFinishes`, which calls `DispatchDidFinishLoad` or fails.

The DocumentLoader's own steps are `DocumentLoader.tla`; here a load is
these four tasks. The tasks keep running after `BkDestroyCrawler`, because
the destructor's detach is compiled out. What they then touch on the freed
`CrawlerImpl` is not modelled: the task code is not in this tree.

## 3. Runs

| Run | Module / cfg | Expect | What it shows |
|---|---|---|---|
| `loader_reentrancy` | `MC_DocumentLoader` / `MC_DocumentLoader.cfg` | pass | See below. |
| `loader_state_monotonic` | `MC_DocumentLoader` / `MC_DocumentLoader_LoaderStateMonotonic.cfg` | violation | `m_state` goes back from MainResourceDone to DataReceived. |
| `loader_provisional_stuck` | `MC_DocumentLoader` / `MC_DocumentLoader_ProvisionalLoadHasResource.cfg` | violation | With SubstituteData, a failed fetch leaves the loader Provisional with no resource. |
| `lifecycle_table` | `DocumentLifecycle` / `MC_DocumentLifecycle.cfg` | pass | See below. |
| `buffer_null_write` | `SimpleBuffer` / `SimpleBuffer_NoWriteThroughNull.cfg` | violation | A failed malloc makes `BkSetBufferData` copy through nullptr (`NoWriteThroughNull`). |
| `request_refcount` | `RequestLifetime` / `RequestLifetime.cfg` | pass | The counting refines the holder set of `RequestHolders`: the request is alive while the handle or a controller can still reach it, and is deleted exactly when the last holder drops (`RefinesRequestHolders`). |
| `crawler_failure_silent` | `CrawlerApp` / `CrawlerApp_NavigationOutcomeReported.cfg` | violation | A failed navigation reaches the embedder by no callback. |

**`loader_reentrancy`** checks that:
- chunks reach the parser in delivery order, each once
  (`ParsedInDeliveryOrder`);
- no chunk is stranded in the buffer when the stack unwinds
  (`NoChunkStranded`);
- a rejected navigation never creates a document
  (`NoDocumentForRejectedNavigation`);
- once the frame is detached, no chunk reaches the parser and no
  document is created (`NoParseAfterDetach`). Script may detach the frame
  while chunks are queued; the drain loop still hands them to
  `processData`, whose `frameLoader()` check must drop them;
- no step commits the load once the loader is detached from its frame
  (`CommitNeedsFrame`). `processData` and `finishedLoading` both call
  `commitIfReady()` before they check `frameLoader()`, and
  `commitIfReady()` calls `frameLoader()->commitProvisionalLoad()`
  unchecked. Two facts keep the unchecked call safe:
  - `detachFromFrame` clears the main resource handle, so no
    `dataReceived` or `notifyFinished` arrives afterwards;
  - a chunk can be buffered only behind a `commitData` that has already
    made `m_state` at least Committed, so `commitIfReady()` on a buffered
    chunk does nothing.

**`lifecycle_table`** checks that:
- the table refines `LifecyclePhases`;
- the compositing assertions are unreachable with SPV2
  (`CompositingOnlyWithoutSPV2`);
- two mutation-forbidding phases never follow each other
  (`MutationWindowsClosed`).

### Finding of the reentrancy runs

`loader_state_monotonic` shows this trace:
1. `DataReceived(c1)` runs script.
2. The script's nested loop delivers c2, which is buffered.
3. The nested loop then delivers `notifyFinished`. `finishedLoading` ends
   the writer and sets MainResourceDone.
4. The drain loop processes c2:
   - `commitData` runs after MainResourceDone, so its assertion at
     DocumentLoader.cpp:516 fails;
   - `ensureWriter` creates a second document and calls
     `receivedFirstData` a second time;
   - `m_state` becomes DataReceived again.

A transport error delivered the same way does the same. It contradicts
spec §4.3, where the state moves forward only. The load had already
finished in step 3. The second document is then parsed after the load
finished.

### Findings of the SDK layer and of the SubstituteData path

- **`loader_provisional_stuck`** (DocumentLoader.cpp:697). With valid
  SubstituteData, a null `fetchMainResource` makes the code null
  `m_request` and retry `maybeLoadEmpty()`. That call refuses, because
  the substitute data is valid. The loader stays Provisional with no
  resource and no error.
- **`buffer_null_write`** (buffer.cpp:47). `Alloc` returns `malloc(cb)`
  unchecked, and `BkSetBufferData` passes it straight to `memcpy`. Trace:
  Initialize, then SetBufferData with size 4 where malloc fails. `memcpy`
  then writes 4 bytes to nullptr; the API has no way to report failure.
- **`crawler_failure_silent`** (crawler_impl.cpp:76). The only forwarding
  of a failure to `BkCrawlerClient` (`dispatchDidFailProvisionalLoad` →
  `LoadFailed`) is compiled out. A failed navigation therefore ends with
  no callback. Spec section 5 says there is no silent failure path.

### Mutants

Each property of a passing run is broken by a plausible bug in the code
it is about:
- `DrainDone` variants: the position is not reset, the buffer is not
  cleared, or the loop exits early;
- `ProcessData` without its `frameLoader()` check;
- `CancelMainResourceLoad` keeps the loader a client of the resource;
- `DetachFromFrame` only forgets the frame, without stopping the load or
  clearing the main resource handle;
- `CanAdvanceTo` variants: Stopped is allowed from anywhere, InPaint
  follows InPrePaint directly, or compositing is entered regardless of the
  flag;
- `Release` tests the count before decrementing it (`m_refCount--`).

## 4. Bounds and why they suffice

DocumentLoader:
- **`NumChunks = 3`.** Three chunks are the smallest number with both a
  nested delivery and a later top-level one (spec §8 property 3). They let
  a chunk be buffered behind another buffered one.
- **`MaxRedirects = 1`.** One redirect exercises the cross-origin block,
  the POST cache bypass (status 303, with 308 as the non-bypass case) and
  the policy veto. Further hops repeat the same code.
- **Responses.** The run uses statuses {200, 204}, MIME types {html,
  multipart/related, image/webp} and the attachment flag. This covers every
  branch of `shouldContinueForResponse`.
- **Start URLs.** The run uses the kinds {http, empty, blank, file}, with
  and without SubstituteData.

DocumentLifecycle:
- **`MaxScopeDepth = 3`.** This allows nested scopes. A restore bug shows
  at depth 2.

SimpleBuffer:
- **`Sizes = {0, 4}`, `MaxAllocs = 5`.** Size 0 covers malloc(0)
  returning nullptr. Five mallocs allow fill, refill, finalize and
  re-initialise in several orders, each malloc succeeding or failing.

RequestLifetime:
- **`MaxControllers = 1`.** `BkPerformRequest` runs once, so it hands out
  at most one controller. That controller may be released before or
  after completion, which are the two orders that matter.
- **`InitRefCount = 1`.**

CrawlerApp:
- **`Codes = {0, 1}`**, with the initial code 0. `Exit` can stop the loop
  with either value.
- **`URLs = {"https", "file"}`**: one accepted scheme and one refused
  scheme.

## 5. Fairness

`DocumentLoader` assumes weak fairness of:
- the code's own continuation steps (`ParserReturns`, `DrainNext`,
  `DrainDone`);
- the fetch layer's deliveries (`ResponseReceived`, `DataReceived`,
  `NotifyFinished`);
- `StartLoadingMainResource`, which the FrameLoader calls right after it
  creates the loader.

Script and embedder actions (stop, detach, close, nested deliveries, the
redirects the server may send) have no fairness, because nothing obliges
them to happen. The properties checked are all safety properties, so
this fairness only rules out runs that stutter forever. The lifecycle
runs check only safety.

`CrawlerApp`'s one run checks a safety property. Its specification still
assumes weak fairness of `RunLoopReturns`: a stopped
`CFRunLoopRun` returns. It also assumes weak fairness of the navigation
tasks `ProcessRequestComplete`, `CommitNavigation` and `LoadFinishes`,
because a spinning run loop runs the tasks posted to it. The embedder's
calls (create, run, destroy, `Exit`, `ContinueWorking`) have no fairness.

`SimpleBuffer` checks only safety. `RequestLifetime` checks safety and
the refinement of `RequestHolders`, whose specification has no fairness:
nothing in the code obliges the embedder to release its controllers.

## 6. Not modelled, and why

Of the SDK's own files, the map covers about 26% of the lines. The rest
is listed below: declarations, compiled-out code, logging and typedefs.
None of it has state or control a model could translate.

- **Subresource fetches** (`m_fetcher`), preloads, deferred loading, the
  threaded data receiver and MediaDocument handling. They are absent or
  compiled out in the crawler build.
- **`maybeCreateArchive`**. It always returns false here.
- **DOM data structures, graphics, CSS and Unicode conversion.** These are
  presentation or data code with no control that the loading properties
  distinguish.
- **`StateTransitionDisallowed()`**. It is treated as false, because
  nothing in this tree sets it.
- **Apps in a mode other than `BK_APP_MAINTHREAD_MODE`.** `CrawlerApp`
  has the mode dispatch, but every cfg uses the main-thread mode. For
  another mode, `CreateTaskRunner` leaves a null runner. The code that
  posts a navigation's tasks to it is not in this tree, so it is listed
  as a hazard.
- **`InitializeBackgroundInstance`.** It is `ASSERT(false)`, which does
  nothing in a release build and creates no app.
- **Logging and formatting.** This covers `AppImpl::Log` and
  `CrawlerImpl::UserAgent`.
- **The `#if 0` blocks of `crawler_impl.cpp`** (lines 54-111 and
  139-156). These are the script bridge, cookies, `CancelLoading` and
  the old failure forwarding. None of them is compiled, so the model has
  no operation for them. Their absence is what the
  `crawler_failure_silent` finding is about.
- **Declaration-only headers.**
  - `context_impl.h`: its one inline body forwards console output.
  - `frame_loader_client_impl.h`: it declares the older
    FrameLoaderClient interface, which the live `CrawlerImpl` does not
    use.
  - `http_loader_task.h`: the task's reference to its crawler. The
    code that runs the task is not in this tree.
  - `stub/icu/unicode/umachine.h` and `skia/_pc.h`: typedefs and pragmas
    only.

## 7. Limits of what can be modelled further

- **Composing `CrawlerApp` with `DocumentLoader`.** The crawler drives
  the newer `third_party/blink/renderer` loader, and only its headers are
  in this tree. `DocumentLoader.cpp` belongs to the older
  `WebKit/Source` generation, which the crawler does not call. Composing
  the two modules would join code that never interacts, so `CrawlerApp`
  keeps its navigation as four abstract tasks.
- **FrameLoader, FrameLoaderStateMachine and WebLocalFrameImpl.** The
  first two are header-only here. WebLocalFrameImpl's load entry points
  only delegate to `FrameLoader::load` and `stopAllLoaders`.
- **Errors reported twice** (DocumentLoader.cpp:252). Showing this needs a
  parser that stays active after `endWriting()`, and FrameLoader's error
  handling, which is not in this tree.
- **The Page registry** (`Page.cpp`). It belongs to the older generation
  too, and its only checkable properties are caller contracts.
- **Tasks that call a destroyed crawler** (crawler_impl.cpp:38). The
  destructor's frame detach is compiled out, so a navigation's tasks
  outlive `BkDestroyCrawler`. What they call on the freed `CrawlerImpl`
  is decided by code that is not in this tree (HTTPLoaderTask's runner,
  the newer FrameLoader). So a property could not tell this destructor
  from one that detaches. The case is listed as a hazard.
- **An `Exit` before `RunAndFinalize`** (apple_app.cpp:40). `Exit` models
  it: the stop is dropped. But no text says whether an early `Exit` must
  be honoured, so no property states it.
- **Leaks from a second fill** (buffer.cpp:15). `Alloc` overwrites `Blob`
  without freeing it. No caller in the tree fills a buffer twice, and no
  text says whether that is allowed, so the case is listed as a hazard
  only.
- **A task posted to a null runner** (apple_app.cpp:26). It is listed as
  a hazard. The code that posts to the runner is not in this tree, so a
  run could only restate the compiled-out `NOTREACHED()`.
