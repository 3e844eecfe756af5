--------------------------- MODULE RequestLifetime ---------------------------
(***************************************************************************)
(* The lifetime of an HTTP request object (blinkit/http/request_impl.cpp). *)
(* A RequestImpl is reference counted: the embedder's BkRequest handle is  *)
(* one reference, and every controller that BkPerformRequest hands out     *)
(* through GetController() is another.  Release() decrements the count     *)
(* and deletes the object when it reaches zero.                            *)
(*                                                                         *)
(* The count's initial value is set in request_impl.h, which is not in     *)
(* this tree; it is the constant InitRefCount (1, the embedder's handle).  *)
(* Perform() and the completion of the transfer are not in this tree       *)
(* either: the transport delivers the result on the owning thread (spec    *)
(* section 6) and the request then drops the embedder's reference, after   *)
(* which the BkRequest handle may no longer be used.  Every reference      *)
(* count step therefore runs on one thread and is atomic here.             *)
(*                                                                         *)
(* The option setters are abstracted to the set of options written.        *)
(***************************************************************************)
EXTENDS Naturals, FiniteSets

CONSTANTS
  InitRefCount,     \* m_refCount's initial value
  MaxControllers    \* bound on the controllers handed out

ASSUME InitRefCount \in Nat /\ MaxControllers \in Nat

VARIABLES
  refCount,     \* m_refCount
  alive,        \* the RequestImpl has not been deleted
  ownerHolds,   \* the embedder's BkRequest handle is still valid
  controllers,  \* ids of the controllers handed out and not yet released
  issued,       \* controllers handed out so far (ids are 1..issued)
  performing,   \* Perform() has started a transfer that has not completed
  options       \* options the embedder has set

vars == <<refCount, alive, ownerHolds, controllers, issued, performing, options>>

Options == {"Body", "Header", "Method", "Proxy", "Timeout"}

Init ==
  /\ refCount = InitRefCount
  /\ alive = TRUE
  /\ ownerHolds = TRUE
  /\ controllers = {}
  /\ issued = 0
  /\ performing = FALSE
  /\ options = {}

(* GetController: ++m_refCount; return new RequestControllerImpl on this request. *)
GetController ==
  /\ issued < MaxControllers
  /\ controllers' = controllers \cup {issued + 1}
  /\ issued' = issued + 1
  /\ refCount' = refCount + 1

(* Mutant: if (0 == m_refCount--), the test reads the old count. *)
Release_PostDecrement ==
  /\ refCount' = refCount - 1
  /\ alive' = (refCount # 0)

(* Release: if (0 == --m_refCount) delete this; *)
Release ==
  /\ refCount' = refCount - 1
  /\ alive' = (refCount - 1 # 0)

(* SetBody, SetHeader, SetProxy (and the header's SetMethod, SetTimeout): *)
(* store the value in the request.                                         *)
SetRequestOption(o) == options' = options \cup {o}

(* BkSetRequestBody/Header/Method/Proxy/Timeout: forward to the setter.    *)
BkSetRequestOption ==
  /\ ownerHolds
  /\ \E o \in Options : SetRequestOption(o)
  /\ UNCHANGED <<refCount, alive, ownerHolds, controllers, issued, performing>>

(* BkPerformRequest(request, controller): when controller is non-null,     *)
(* *controller = request->GetController(); then request->Perform().  The  *)
(* two guards are the embedder's side of the API, not checks in the code:  *)
(* a call on a released handle would read freed memory, and Perform (not   *)
(* in this tree) takes over the handle's reference for one transfer.       *)
BkPerformRequest ==
  /\ ownerHolds
  /\ ~performing
  /\ \/ GetController
     \/ UNCHANGED <<refCount, controllers, issued>>
  /\ performing' = TRUE
  /\ UNCHANGED <<alive, ownerHolds, options>>

(* The transfer completes (or fails, or is cancelled through a             *)
(* controller): the client is told and the embedder's reference dropped.   *)
RequestComplete ==
  /\ performing
  /\ performing' = FALSE
  /\ ownerHolds' = FALSE
  /\ Release
  /\ UNCHANGED <<controllers, issued, options>>

(* The embedder releases a controller, which releases its reference to     *)
(* the request.                                                            *)
ReleaseController ==
  /\ \E c \in controllers : controllers' = controllers \ {c}
  /\ Release
  /\ UNCHANGED <<ownerHolds, issued, performing, options>>

Next ==
  \/ BkSetRequestOption
  \/ BkPerformRequest
  \/ RequestComplete
  \/ ReleaseController

Spec == Init /\ [][Next]_vars

-----------------------------------------------------------------------------
(* The set of references the request has: the handle (0) while valid,    *)
(* and each controller (1..MaxControllers) not yet released.               *)
HolderSet == (IF ownerHolds THEN {0} ELSE {}) \cup controllers

Abstract == INSTANCE RequestHolders
              WITH Holders <- 0..MaxControllers,
                   Owner <- 0,
                   holders <- HolderSet,
                   deleted <- ~alive

(* The counting implementation behaves as the holder set of              *)
(* RequestHolders: every GetController is an acquire of a live object,    *)
(* every Release a drop, and the object is deleted exactly at the drop    *)
(* of the last holder, never before and never after.                      *)
RefinesRequestHolders == Abstract!Spec

=============================================================================
