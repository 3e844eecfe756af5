--------------------------- MODULE DocumentLoader ---------------------------
(***************************************************************************)
(* One DocumentLoader (core/loader/DocumentLoader.cpp) driving the load of *)
(* one navigation: startLoadingMainResource, the fetch callbacks           *)
(* (redirectReceived, responseReceived, dataReceived, notifyFinished), the *)
(* reentrancy buffer of dataReceived, cancellation (stopLoading,           *)
(* cancelMainResourceLoad, mainReceivedError) and detachFromFrame.         *)
(*                                                                         *)
(* The call stack of a top-level dataReceived() is explicit in `pc`:       *)
(*   "idle"  no DocumentLoader call is on the stack;                       *)
(*   "parse" inside m_writer->addData(): the parser runs script, which may *)
(*           spin a nested message loop (alert(), sync XHR) in which the   *)
(*           fetch layer delivers further callbacks, or may stop the load, *)
(*           detach the frame or call document.close();                    *)
(*   "loop"  back in dataReceived(), about to take the next buffered chunk *)
(*           or to leave.                                                  *)
(* Chunks are numbered 1..NumChunks in the order the fetch layer sends     *)
(* them; a chunk's bytes are abstracted to its number.                     *)
(***************************************************************************)
EXTENDS Naturals, Sequences, SequencesExt

CONSTANTS
  NumChunks,      \* body chunks the fetch layer delivers for the main resource
  MaxRedirects,   \* redirects the fetch layer may deliver before the response
  StartURLs,      \* URL kinds a navigation may start with
  Responses,      \* main-resource responses the server may send
  RedirectStatuses, \* HTTP status codes of redirect responses
  ShowableMimes,  \* MIME types the WebMimeRegistry reports as IsSupported
  LocalSchemes,   \* URL kinds SchemeRegistry treats as local
  EmptySchemes,   \* URL kinds SchemeRegistry loads as an empty document
  SubstituteChoices \* whether the navigation carries valid SubstituteData

ASSUME NumChunks \in Nat \ {0}
ASSUME MaxRedirects \in Nat

VARIABLES
  state,          \* m_state
  frame,          \* m_frame != nullptr
  request,        \* m_request: [url, method, cache]
  response,       \* m_response
  substitute,     \* m_substituteData.isValid()
  creatingInitial,\* stateMachine()->creatingInitialEmptyDocument()
  redirectCount,  \* Len(m_redirectChain)
  mainResource,   \* m_mainResource != nullptr (this loader is its client)
  writer,         \* m_writer != nullptr
  parsing,        \* m_frame->document()->parsing() of the current document
  inDataReceived, \* m_inDataReceived
  dataBuffer,     \* m_dataBuffer: chunks queued by reentrant dataReceived()
  pos,            \* buffered chunks already taken by the drain loop
  pc,             \* position of the top-level dataReceived() call
  responded,      \* the fetch layer has delivered the response
  sent,           \* chunks the fetch layer has delivered to the loader
  parsed,         \* history: chunks handed to m_writer->addData, in order
  docs,           \* history: frameLoader()->receivedFirstData() calls
  rejected        \* history: the navigation was refused (redirect, policy, response)

vars == <<state, frame, request, response, substitute, creatingInitial,
          redirectCount, mainResource, writer, parsing, inDataReceived,
          dataBuffer, pos, pc, responded, sent, parsed, docs, rejected>>

LoaderStates == {"NotStarted", "Provisional", "Committed", "DataReceived",
                 "MainResourceDone"}

\* m_state is compared with < and >= in the code; this is the enum order.
Rank == [s \in LoaderStates |->
           CASE s = "NotStarted" -> 0 [] s = "Provisional" -> 1
             [] s = "Committed" -> 2 [] s = "DataReceived" -> 3
             [] s = "MainResourceDone" -> 4]

NoResponse == [status |-> 0, mime |-> "none", attachment |-> FALSE]

\* ResourceResponse(url, "text/html", 0, nullAtom, String()) of maybeLoadEmpty.
EmptyHTMLResponse == [status |-> 200, mime |-> "text/html", attachment |-> FALSE]

Chunks == 1..NumChunks

-----------------------------------------------------------------------------
(* Pure helpers                                                             *)

isArchiveMIMEType(mime) == mime = "multipart/related"

isRedirectAfterPost(status) ==
  /\ (status \in 301..303 \/ status = 307)
  /\ request.method = "POST"

shouldContinueForResponse(r) ==
  \/ substitute
  \/ /\ r.status \notin {204, 205}
     /\ ~r.attachment
     /\ r.mime \in ShowableMimes
     /\ ~(isArchiveMIMEType(r.mime) /\ request.url \notin LocalSchemes)

\* isLoading(): an active parser of the frame's document, or a main resource
\* load between NotStarted and MainResourceDone.  Subresource fetches of
\* m_fetcher are not modelled.
isLoading ==
  \/ frame /\ writer /\ parsing /\ Rank[state] >= Rank["Committed"]
  \/ state \in {"Provisional", "Committed", "DataReceived"}

-----------------------------------------------------------------------------
(* Steps shared by several callbacks.  Each takes the values that earlier   *)
(* statements of the same call have already changed.                       *)

\* mainReceivedError(): nothing if the frame is gone; otherwise the load is
\* done, the frame loader is told, and the handle is released.
MainReceivedError ==
  IF ~frame
  THEN UNCHANGED <<state, mainResource>>
  ELSE /\ state' = "MainResourceDone"
       /\ mainResource' = FALSE

\* Bug variant: the loader stays a client of the cancelled resource.
CancelMainResourceLoad_KeepClient ==
  IF ~frame
  THEN UNCHANGED <<state, mainResource>>
  ELSE /\ state' = "MainResourceDone"
       /\ UNCHANGED mainResource

\* cancelMainResourceLoad(): cancels the ResourceLoader (no further callbacks
\* from it) and reports the error through mainReceivedError().
CancelMainResourceLoad == MainReceivedError

\* commitIfReady(): a loader below Committed becomes Committed and the frame
\* loader commits the provisional load.
CommitIfReady ==
  state' = IF Rank[state] < Rank["Committed"] THEN "Committed" ELSE state

\* finishedLoading(): commitIfReady(); return if the frame is gone; if there
\* is no writer yet (empty document) commitData(0, 0) creates one and the
\* frame loader gets receivedFirstData(); endWriting() ends the parser;
\* MainResourceDone; clearMainResourceHandle().
FinishedLoading ==
  IF ~frame
  THEN /\ CommitIfReady
       /\ UNCHANGED <<writer, parsing, docs, mainResource>>
  ELSE /\ writer' = FALSE
       /\ parsing' = FALSE
       /\ docs' = IF writer THEN docs ELSE docs + 1
       /\ state' = "MainResourceDone"
       /\ mainResource' = FALSE

\* commitData(c): ensureWriter() creates the document on the first data (the
\* frame loader gets receivedFirstData()); a document closed by script
\* cancels the load; otherwise m_state becomes DataReceived and the chunk
\* goes to the parser, which may run script ("parse").
CommitData(c) ==
  LET needWriter == ~writer
      docParsing == IF needWriter THEN TRUE ELSE parsing
  IN
  /\ writer' = TRUE
  /\ parsing' = docParsing
  /\ docs' = IF needWriter THEN docs + 1 ELSE docs
  /\ IF ~docParsing
     THEN /\ state' = "MainResourceDone"
          /\ mainResource' = FALSE
          /\ pc' = "loop"
          /\ UNCHANGED parsed
     ELSE /\ state' = "DataReceived"
          /\ parsed' = Append(parsed, c)
          /\ pc' = "parse"
          /\ UNCHANGED mainResource

\* Bug variant: processData() without the frameLoader() check.
ProcessData_NoFrameCheck(c) ==
  IF isArchiveMIMEType(response.mime)
  THEN /\ pc' = "loop"
       /\ UNCHANGED <<state, mainResource, writer, parsing, parsed, docs>>
  ELSE CommitData(c)

\* processData(c) for a chunk c taken from the fetch layer or the buffer:
\* archive responses are dropped; commitIfReady(); return if detached;
\* commitData().  Leaves pc in "parse" or "loop".
ProcessData(c) ==
  IF isArchiveMIMEType(response.mime)
  THEN /\ pc' = "loop"
       /\ UNCHANGED <<state, mainResource, writer, parsing, parsed, docs>>
  ELSE IF ~frame
  THEN /\ pc' = "loop"
       /\ CommitIfReady
       /\ UNCHANGED <<mainResource, writer, parsing, parsed, docs>>
  ELSE CommitData(c)

-----------------------------------------------------------------------------
(* Operations                                                               *)

Init ==
  /\ state = "NotStarted"
  /\ frame = TRUE
  /\ \E u \in StartURLs, m \in {"GET", "POST"} :
       request = [url |-> u, method |-> m, cache |-> "UseProtocolCachePolicy"]
  /\ response = NoResponse
  /\ substitute \in SubstituteChoices
  /\ creatingInitial \in BOOLEAN
  /\ redirectCount = 0
  /\ mainResource = FALSE
  /\ writer = FALSE
  /\ parsing = FALSE
  /\ inDataReceived = FALSE
  /\ dataBuffer = << >>
  /\ pos = 0
  /\ pc = "idle"
  /\ responded = FALSE
  /\ sent = 0
  /\ parsed = << >>
  /\ docs = 0
  /\ rejected = FALSE

\* maybeLoadEmpty() as called with m_state = Provisional: an empty URL, or a
\* scheme loaded as an empty document, gets a synthesized text/html response
\* and finishes at once, without the fetch layer.
shouldLoadEmpty(url) == ~substitute /\ (url = "empty" \/ url \in EmptySchemes)

MaybeLoadEmpty(url) ==
  /\ request' = [request EXCEPT !.url =
                   IF url = "empty" /\ ~creatingInitial THEN "blank" ELSE url]
  /\ response' = EmptyHTMLResponse
  /\ FinishedLoading

\* startLoadingMainResource(): Provisional; maybeLoadEmpty(); otherwise
\* willSendRequest(m_request, ResourceResponse()) (no redirect, so it only
\* stores the request) and RawResource::fetchMainResource(), which may fail;
\* a failed fetch nulls m_request and retries maybeLoadEmpty().
StartLoadingMainResource ==
  /\ pc = "idle" /\ frame /\ state = "NotStarted"
  /\ IF shouldLoadEmpty(request.url)
     THEN MaybeLoadEmpty(request.url)
     ELSE \/ /\ mainResource' = TRUE
             /\ state' = "Provisional"
             /\ UNCHANGED <<request, response, writer, parsing, docs>>
          \/ /\ IF shouldLoadEmpty("empty")
                THEN MaybeLoadEmpty("empty")
                ELSE /\ request' = [url |-> "empty", method |-> "GET",
                                    cache |-> "UseProtocolCachePolicy"]
                     /\ state' = "Provisional"
                     /\ UNCHANGED <<response, writer, parsing, docs, mainResource>>
  /\ UNCHANGED <<frame, substitute, creatingInitial, redirectCount,
                 inDataReceived, dataBuffer, pos, pc, responded, sent, parsed,
                 rejected>>

\* redirectReceived() -> willSendRequest(newRequest, redirectResponse): a
\* redirecting origin that cannot display the target blocks the redirect;
\* a redirected POST (301-303, 307) bypasses the cache; the hop is appended
\* to the redirect chain; the navigation policy may veto it.
RedirectReceived ==
  /\ pc \in {"idle", "parse"} /\ mainResource /\ ~responded
  /\ redirectCount < MaxRedirects
  /\ \E status \in RedirectStatuses, canDisplay \in BOOLEAN, policy \in BOOLEAN :
       IF ~canDisplay
       THEN /\ CancelMainResourceLoad
            /\ rejected' = TRUE
            /\ UNCHANGED <<request, redirectCount>>
       ELSE /\ request' = [request EXCEPT !.url = "http", !.cache =
                 IF request.cache = "UseProtocolCachePolicy"
                    /\ isRedirectAfterPost(status)
                 THEN "ReloadBypassingCache" ELSE request.cache]
            /\ redirectCount' = redirectCount + 1
            /\ IF policy
               THEN UNCHANGED <<state, mainResource, rejected>>
               ELSE CancelMainResourceLoad /\ rejected' = TRUE
  /\ UNCHANGED <<frame, response, substitute, creatingInitial, writer, parsing,
                 inDataReceived, dataBuffer, pos, pc, responded, sent, parsed,
                 docs>>

\* responseReceived(): store the response; cancel if it is not showable.
ResponseReceived ==
  /\ pc \in {"idle", "parse"} /\ mainResource /\ ~responded
  /\ \E r \in Responses :
       /\ response' = r
       /\ responded' = TRUE
       /\ IF shouldContinueForResponse(r)
          THEN UNCHANGED <<state, mainResource, rejected>>
          ELSE CancelMainResourceLoad /\ rejected' = TRUE
  /\ UNCHANGED <<frame, request, substitute, creatingInitial, redirectCount,
                 writer, parsing, inDataReceived, dataBuffer, pos, pc, sent,
                 parsed, docs>>

\* dataReceived() re-entered from a nested message loop: the chunk is queued
\* for the top-level invocation.
NestedDataReceived ==
  /\ pc = "parse" /\ inDataReceived
  /\ mainResource /\ responded /\ sent < NumChunks
  /\ sent' = sent + 1
  /\ dataBuffer' = Append(dataBuffer, sent + 1)
  /\ UNCHANGED <<state, frame, request, response, substitute, creatingInitial,
                 redirectCount, mainResource, writer, parsing, inDataReceived,
                 pos, pc, responded, parsed, docs, rejected>>

\* Top-level dataReceived(): set the reentrancy guard and processData().
DataReceived ==
  /\ pc = "idle" /\ ~inDataReceived
  /\ mainResource /\ responded /\ sent < NumChunks
  /\ sent' = sent + 1
  /\ inDataReceived' = TRUE
  /\ ProcessData(sent + 1)
  /\ UNCHANGED <<frame, request, response, substitute, creatingInitial,
                 redirectCount, dataBuffer, pos, responded, rejected>>

\* m_writer->addData() returns to processData(), which returns to the loop.
ParserReturns ==
  /\ pc = "parse"
  /\ pc' = "loop"
  /\ UNCHANGED <<state, frame, request, response, substitute, creatingInitial,
                 redirectCount, mainResource, writer, parsing, inDataReceived,
                 dataBuffer, pos, responded, sent, parsed, docs, rejected>>

\* The drain loop: processData() on the next buffered chunk ...
DrainNext ==
  /\ pc = "loop" /\ pos < Len(dataBuffer)
  /\ pos' = pos + 1
  /\ ProcessData(dataBuffer[pos + 1])
  /\ UNCHANGED <<frame, request, response, substitute, creatingInitial,
                 redirectCount, inDataReceived, dataBuffer, responded, sent,
                 rejected>>

\* Bug variants of the loop exit: pos not reset; buffer not cleared; exit
\* without draining.
DrainDone_KeepPos ==
  /\ pc = "loop" /\ pos = Len(dataBuffer)
  /\ dataBuffer' = << >>
  /\ inDataReceived' = FALSE
  /\ pc' = "idle"
  /\ UNCHANGED <<state, frame, request, response, substitute, creatingInitial,
                 redirectCount, mainResource, writer, parsing, responded, sent,
                 parsed, docs, rejected, pos>>

DrainDone_KeepBuffer ==
  /\ pc = "loop" /\ pos = Len(dataBuffer)
  /\ pos' = 0
  /\ inDataReceived' = FALSE
  /\ pc' = "idle"
  /\ UNCHANGED <<state, frame, request, response, substitute, creatingInitial,
                 redirectCount, mainResource, writer, parsing, responded, sent,
                 parsed, docs, rejected, dataBuffer>>

DrainDone_Early ==
  /\ pc = "loop"
  /\ dataBuffer' = << >>
  /\ pos' = 0
  /\ inDataReceived' = FALSE
  /\ pc' = "idle"
  /\ UNCHANGED <<state, frame, request, response, substitute, creatingInitial,
                 redirectCount, mainResource, writer, parsing, responded, sent,
                 parsed, docs, rejected>>

\* ... until it is empty; then the buffer is cleared and the guard reset.
DrainDone ==
  /\ pc = "loop" /\ pos = Len(dataBuffer)
  /\ dataBuffer' = << >>
  /\ pos' = 0
  /\ inDataReceived' = FALSE
  /\ pc' = "idle"
  /\ UNCHANGED <<state, frame, request, response, substitute, creatingInitial,
                 redirectCount, mainResource, writer, parsing, responded, sent,
                 parsed, docs, rejected>>

\* notifyFinished() on success: finishedLoading().  It has no reentrancy
\* guard, so a nested message loop may deliver it inside dataReceived().
NotifyFinished ==
  /\ pc \in {"idle", "parse"} /\ mainResource /\ responded /\ sent = NumChunks
  /\ FinishedLoading
  /\ UNCHANGED <<frame, request, response, substitute, creatingInitial,
                 redirectCount, inDataReceived, dataBuffer, pos, pc, responded,
                 sent, parsed, rejected>>

\* notifyFinished() with errorOccurred() (a transport error): mainReceivedError.
NotifyFailed ==
  /\ pc \in {"idle", "parse"} /\ mainResource
  /\ MainReceivedError
  /\ UNCHANGED <<frame, request, response, substitute, creatingInitial,
                 redirectCount, writer, parsing, inDataReceived, dataBuffer,
                 pos, pc, responded, sent, parsed, docs, rejected>>

\* stopLoading() as FrameLoader::stopAllLoaders() calls it (embedder
\* CancelLoading, or script calling window.stop() while it runs): the frame
\* loader first finishes parsing of the document (spec-modelled), then the
\* loader cancels its main resource if it is still loading.
StopAllLoaders ==
  /\ pc \in {"idle", "parse"}
  /\ parsing' = FALSE
  /\ IF isLoading THEN CancelMainResourceLoad ELSE UNCHANGED <<state, mainResource>>
  /\ UNCHANGED <<frame, request, response, substitute, creatingInitial,
                 redirectCount, writer, inDataReceived, dataBuffer, pos, pc,
                 responded, sent, parsed, docs, rejected>>

\* Bug variant: the detach only forgets the frame, leaving loads running.
DetachFromFrame_ForgetFrameOnly ==
  /\ pc \in {"idle", "parse"} /\ frame
  /\ frame' = FALSE
  /\ UNCHANGED <<state, request, response, substitute, creatingInitial,
                 redirectCount, mainResource, writer, parsing, inDataReceived,
                 dataBuffer, pos, pc, responded, sent, parsed, docs, rejected>>

\* detachFromFrame(): stopLoading(), clear the fetch context, release the
\* main resource handle and forget the frame.
DetachFromFrame ==
  /\ pc \in {"idle", "parse"} /\ frame
  /\ IF isLoading THEN CancelMainResourceLoad ELSE UNCHANGED state
  /\ mainResource' = FALSE
  /\ frame' = FALSE
  /\ UNCHANGED <<request, response, substitute, creatingInitial, redirectCount,
                 writer, parsing, inDataReceived, dataBuffer, pos, pc,
                 responded, sent, parsed, docs, rejected>>

\* document.close() from script while data is still arriving.
DocumentClose ==
  /\ pc \in {"idle", "parse"} /\ frame /\ writer /\ parsing
  /\ parsing' = FALSE
  /\ UNCHANGED <<state, frame, request, response, substitute, creatingInitial,
                 redirectCount, mainResource, writer, inDataReceived,
                 dataBuffer, pos, pc, responded, sent, parsed, docs, rejected>>

Next ==
  \/ StartLoadingMainResource
  \/ RedirectReceived
  \/ ResponseReceived
  \/ DataReceived
  \/ NestedDataReceived
  \/ ParserReturns
  \/ DrainNext
  \/ DrainDone
  \/ NotifyFinished
  \/ NotifyFailed
  \/ StopAllLoaders
  \/ DetachFromFrame
  \/ DocumentClose

\* The code's own steps and the fetch layer's deliveries are weakly fair:
\* addData() returns, the drain loop runs to its end, and the transport
\* eventually delivers what it has.  Script-driven actions are not fair.
Fairness ==
  /\ WF_vars(StartLoadingMainResource)
  /\ WF_vars(ParserReturns)
  /\ WF_vars(DrainNext)
  /\ WF_vars(DrainDone)
  /\ WF_vars(ResponseReceived)
  /\ WF_vars(DataReceived)
  /\ WF_vars(NotifyFinished)

Spec == Init /\ [][Next]_vars /\ Fairness

-----------------------------------------------------------------------------
(* Properties                                                               *)

TypeOK ==
  /\ state \in LoaderStates
  /\ frame \in BOOLEAN
  /\ request \in [url: StartURLs \cup {"empty", "blank", "http"},
                  method: {"GET", "POST"},
                  cache: {"UseProtocolCachePolicy", "ReloadBypassingCache"}]
  /\ response \in Responses \cup {NoResponse, EmptyHTMLResponse}
  /\ redirectCount \in 0..MaxRedirects
  /\ {mainResource, writer, parsing, inDataReceived, responded, rejected,
      substitute, creatingInitial} \subseteq BOOLEAN
  /\ dataBuffer \in Seq(Chunks)
  /\ pos \in 0..Len(dataBuffer)
  /\ pc \in {"idle", "parse", "loop"}
  /\ sent \in 0..NumChunks
  /\ parsed \in Seq(Chunks)
  /\ docs \in Nat

\* dataReceived()'s reentrancy buffer: the parser is handed the chunks in
\* the order the fetch layer delivered them, each at most once, however
\* deliveries nest inside script run by the parser.
ParsedInDeliveryOrder == parsed = [i \in 1..Len(parsed) |-> i]

\* No chunk is left behind in m_dataBuffer: whenever no DocumentLoader call
\* is on the stack and the load is live (committed, attached, not an archive
\* response, whose data processData() discards by design), every chunk the
\* fetch layer delivered has reached the parser.
NoChunkStranded ==
  ( /\ pc = "idle" /\ frame
    /\ state \in {"Committed", "DataReceived"}
    /\ ~isArchiveMIMEType(response.mime) )
  => Len(parsed) = sent

\* A navigation refused by willSendRequest() (blocked cross-origin redirect,
\* navigation-policy veto) or by responseReceived() (shouldContinueForResponse
\* false) never creates a document: after cancelMainResourceLoad() no later
\* callback of the cancelled resource reaches commitData().
NoDocumentForRejectedNavigation == rejected => docs = 0

\* Spec 4.3: m_state moves NotStarted -> Provisional -> ... ->
\* MainResourceDone and never leaves MainResourceDone (commitData() asserts
\* m_state < MainResourceDone on entry).
LoaderStateMonotonic ==
  [][state = "MainResourceDone" => state' = "MainResourceDone"]_state

\* A loader in Provisional always has a main resource whose callbacks move
\* it on: startLoadingMainResource either fetches the resource or finishes
\* at once through maybeLoadEmpty, so no load is left Provisional with
\* nothing to complete or fail it (spec 4.3: every failure is reported).
ProvisionalLoadHasResource ==
  state = "Provisional" => mainResource

\* processData() calls commitIfReady() before it checks frameLoader(), and
\* commitIfReady() calls frameLoader()->commitProvisionalLoad() unchecked:
\* a step that commits the load (m_state rises from below Committed to
\* Committed or beyond) is never taken by a loader detached from its frame,
\* whatever chunks are still delivered or buffered after the detach.
CommitNeedsFrame ==
  [][Rank[state] < Rank["Committed"] /\ Rank[state'] >= Rank["Committed"]
       => frame]_state

\* Script run by the parser may detach the frame while chunks are still
\* queued in m_dataBuffer; the drain loop then hands them to processData(),
\* whose frameLoader() check must drop them: once the loader is detached, no
\* chunk reaches the parser and no document is created for it.
NoParseAfterDetach ==
  [][~frame => parsed' = parsed /\ docs' = docs]_<<frame, parsed, docs>>

=============================================================================
