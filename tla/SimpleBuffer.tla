---------------------------- MODULE SimpleBuffer ----------------------------
(***************************************************************************)
(* The BkSimpleBuffer helpers of the SDK (blinkit/misc/buffer.cpp).  An    *)
(* embedder declares a BkSimpleBuffer, BkInitializeSimpleBuffer() installs *)
(* the static Alloc() as the BkBuffer's allocator, the library fills it    *)
(* through BkSetBufferData() (which calls the allocator), the embedder     *)
(* reads Blob/Size and calls BkFinalizeSimpleBuffer().  Nothing orders     *)
(* these calls but the embedder, so every order is explored.               *)
(*                                                                         *)
(* The struct starts zeroed (Allocator and Blob nullptr, Size 0), as a    *)
(* `BkSimpleBuffer b = { 0 }` or static storage leaves it; Finalize on an   *)
(* uninitialised struct would free garbage and is not explored.            *)
(* Allocations are numbered 1..MaxAllocs in malloc order; 0 is nullptr.    *)
(* malloc may fail and return nullptr for any size (and malloc(0) may      *)
(* return nullptr anyway); both outcomes are explored.                     *)
(***************************************************************************)
EXTENDS Naturals

CONSTANTS
  Sizes,        \* byte counts the library passes to BkSetBufferData
  MaxAllocs     \* bound on the number of malloc calls

ASSUME 0 \in Sizes /\ MaxAllocs \in Nat

VARIABLES
  allocator,    \* Buffer.Allocator: Alloc or nullptr
  blob,         \* Blob: an allocation number, or 0 for nullptr
  size,         \* Size
  heap,         \* allocations malloc returned and free has not yet released
  mallocs,      \* malloc calls so far (allocation numbers are 1..mallocs)
  nullWrite     \* memcpy wrote a non-empty block through a null pointer

vars == <<allocator, blob, size, heap, mallocs, nullWrite>>

Null == 0

(* free(p): a null pointer is ignored, a live one is released. *)
Free(p) == heap' = heap \ {p}

(* Alloc(cb, userData): Blob = malloc(cb); Size = cb.  The previous Blob   *)
(* is overwritten.                                                         *)
Alloc(cb) ==
  /\ mallocs < MaxAllocs
  /\ \E p \in {Null, mallocs + 1} :
       /\ blob' = p
       /\ heap' = IF p = Null THEN heap ELSE heap \cup {p}
       /\ mallocs' = IF p = Null THEN mallocs ELSE mallocs + 1
  /\ size' = cb

(* A zeroed struct. *)
Init ==
  /\ allocator = "nullptr"
  /\ blob = Null
  /\ size = 0
  /\ heap = {}
  /\ mallocs = 0
  /\ nullWrite = FALSE

(* BkInitializeSimpleBuffer: install Alloc, Blob = nullptr, Size = 0. *)
BkInitializeSimpleBuffer ==
  /\ allocator' = "Alloc"
  /\ blob' = Null
  /\ size' = 0
  /\ UNCHANGED <<heap, mallocs, nullWrite>>

(* BkSetBufferData: assert(Allocator != nullptr); dst = Allocator(size,   *)
(* ...) (Alloc returns the new Blob); memcpy(dst, data, size).             *)
BkSetBufferData ==
  /\ allocator = "Alloc"
  /\ \E cb \in Sizes :
       /\ Alloc(cb)
       /\ nullWrite' = (nullWrite \/ (blob' = Null /\ cb > 0))
  /\ UNCHANGED allocator

(* BkFinalizeSimpleBuffer: clear the allocator, free Blob if set and reset *)
(* it, Size = 0.                                                           *)
BkFinalizeSimpleBuffer ==
  /\ allocator' = "nullptr"
  /\ IF blob # Null
     THEN Free(blob) /\ blob' = Null
     ELSE UNCHANGED <<heap, blob>>
  /\ size' = 0
  /\ UNCHANGED <<mallocs, nullWrite>>

Next ==
  \/ BkInitializeSimpleBuffer
  \/ BkSetBufferData
  \/ BkFinalizeSimpleBuffer

Spec == Init /\ [][Next]_vars

-----------------------------------------------------------------------------
(* BkSetBufferData never copies data through a null pointer: the buffer    *)
(* the allocator returns is usable for the size asked.  The code does not  *)
(* check Alloc's result, so a failed malloc makes memcpy write to nullptr. *)
NoWriteThroughNull == ~nullWrite

=============================================================================
