--------------------------- MODULE RequestHolders ---------------------------
(***************************************************************************)
(* What a reference-counted request promises, without the count: the      *)
(* object has a set of holders, starting with the embedder's handle; a    *)
(* live object can gain a holder, a holder can let go, and the object is  *)
(* deleted exactly when its last holder lets go.  Nothing acquires or     *)
(* drops a deleted object.                                                *)
(***************************************************************************)
CONSTANTS Holders,      \* everything that may hold a reference
          Owner         \* the embedder's handle, the first holder

VARIABLES holders,      \* who holds a reference now
          deleted       \* the object has been deleted

Init == holders = {Owner} /\ deleted = FALSE

Acquire(h) ==
  /\ ~deleted
  /\ h \notin holders
  /\ holders' = holders \cup {h}
  /\ UNCHANGED deleted

Drop(h) ==
  /\ h \in holders
  /\ holders' = holders \ {h}
  /\ deleted' = (holders' = {})

Next == \E h \in Holders : Acquire(h) \/ Drop(h)

Spec == Init /\ [][Next]_<<holders, deleted>>

=============================================================================
