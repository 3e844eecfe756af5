-------------------------- MODULE DocumentLifecycle --------------------------
(***************************************************************************)
(* DocumentLifecycle (core/dom/document_lifecycle.cpp): the per-document   *)
(* state machine that says which recalculation phase a document is in and  *)
(* therefore whether the DOM tree may be mutated.  AdvanceTo checks the    *)
(* transition against the table of CanAdvanceTo and against the            *)
(* m_checkNoTransition flag, then sets the state.                          *)
(*                                                                         *)
(* RuntimeEnabledFeatures::SlimmingPaintV2Enabled() is a process-wide flag *)
(* read by the table; it is fixed before any document exists, so it is a   *)
(* variable chosen in Init and never changed.  m_checkNoTransition is set  *)
(* by CheckNoTransitionScope objects (document_lifecycle.h, not in this    *)
(* tree), which save the flag on entry and restore it on exit, so scopes   *)
(* nest; savedCheck is that stack of saved values.                         *)
(* StateTransitionDisallowed() (the first test of CanAdvanceTo) is an      *)
(* inline of the header with no caller in this tree that sets it, so it is *)
(* FALSE here.                                                             *)
(***************************************************************************)
EXTENDS Naturals, Sequences, SequencesExt

CONSTANT MaxScopeDepth      \* bound on nested CheckNoTransitionScope objects

VARIABLES state,            \* m_state
          slimmingPaintV2,  \* RuntimeEnabledFeatures::SlimmingPaintV2Enabled()
          checkNoTransition,\* m_checkNoTransition
          savedCheck        \* values saved by the open CheckNoTransitionScopes

vars == <<state, slimmingPaintV2, checkNoTransition, savedCheck>>

LifecycleStates ==
    {"Uninitialized", "Inactive", "VisualUpdatePending", "InStyleRecalc",
     "StyleClean", "InLayoutSubtreeChange", "LayoutSubtreeChangeClean",
     "InPreLayout", "InPerformLayout", "AfterPerformLayout", "LayoutClean",
     "InCompositingUpdate", "CompositingInputsClean", "CompositingClean",
     "InPrePaint", "PrePaintClean", "InPaint", "PaintClean",
     "Stopping", "Stopped"}

CompositingStates ==
    {"InCompositingUpdate", "CompositingInputsClean", "CompositingClean"}

(* The paint-side entry reached from a clean style/layout state: pre-paint *)
(* under SlimmingPaintV2, the compositing update otherwise.                *)
PaintEntry == IF slimmingPaintV2 THEN "InPrePaint" ELSE "InCompositingUpdate"

(* CompositingUpdate is a legal next step of PrePaintClean and PaintClean  *)
(* only without SlimmingPaintV2.                                           *)
LegacyCompositing ==
    IF slimmingPaintV2 THEN {} ELSE {"InCompositingUpdate"}

(* The switch of CanAdvanceTo: the states each state may advance to,       *)
(* besides Stopping, which is legal from anywhere.                         *)
Successors(s) ==
  CASE s = "Uninitialized"       -> {"Inactive"}
    [] s = "Inactive"            -> {"StyleClean"}
    [] s = "VisualUpdatePending" -> {"InPreLayout", "InStyleRecalc",
                                     "InPerformLayout"}
    [] s = "InStyleRecalc"       -> {"StyleClean"}
    [] s = "StyleClean"          -> {"InStyleRecalc", "InLayoutSubtreeChange",
                                     "InPreLayout", "InPerformLayout",
                                     "StyleClean", "LayoutClean", PaintEntry}
    [] s = "InLayoutSubtreeChange" -> {"LayoutSubtreeChangeClean"}
    [] s = "LayoutSubtreeChangeClean" -> {"InStyleRecalc", "InPreLayout",
                                     "InPerformLayout", "StyleClean",
                                     "LayoutClean", PaintEntry}
    [] s = "InPreLayout"         -> {"InStyleRecalc", "StyleClean",
                                     "InPreLayout"}
    [] s = "InPerformLayout"     -> {"AfterPerformLayout"}
    [] s = "AfterPerformLayout"  -> {"InPreLayout", "LayoutClean"}
    [] s = "LayoutClean"         -> {"InStyleRecalc", "InPreLayout",
                                     "InPerformLayout", "LayoutClean",
                                     "StyleClean", PaintEntry}
    [] s = "InCompositingUpdate" -> {"CompositingInputsClean",
                                     "CompositingClean"}
    [] s = "CompositingInputsClean" -> {"InStyleRecalc", "InPreLayout",
                                     "InCompositingUpdate", "CompositingClean"}
    [] s = "CompositingClean"    -> {"InStyleRecalc", "InPreLayout",
                                     "InCompositingUpdate", "InPrePaint"}
    [] s = "InPrePaint"          -> {"PrePaintClean"}
    [] s = "PrePaintClean"       -> {"InPaint", "InStyleRecalc", "InPreLayout",
                                     "InPrePaint"} \cup LegacyCompositing
    [] s = "InPaint"             -> {"PaintClean"}
    [] s = "PaintClean"          -> {"InStyleRecalc", "InPreLayout", "InPrePaint",
                                     "InPaint"} \cup LegacyCompositing
    [] s = "Stopping"            -> {"Stopped"}
    [] s = "Stopped"             -> {}

(* Mutants of CanAdvanceTo. *)
CanAdvanceTo_StopAnywhere(s, next) ==
    next \in {"Stopping", "Stopped"} \/ next \in Successors(s)
CanAdvanceTo_PrePaintSkipsClean(s, next) ==
    next = "Stopping" \/ next \in Successors(s)
    \/ (s = "InPrePaint" /\ next = "InPaint")
CanAdvanceTo_CompositingIgnoresFlag(s, next) ==
    next = "Stopping" \/ next \in Successors(s)
    \/ (s \in {"PrePaintClean", "PaintClean"} /\ next = "InCompositingUpdate")

(* CanAdvanceTo(nextState), with m_state as s: Stopping from anywhere,     *)
(* otherwise the table.                                                    *)
CanAdvanceTo(s, next) == next = "Stopping" \/ next \in Successors(s)

(* StateAllowsTreeMutations: false only inside a recalculation phase. *)
StateAllowsTreeMutations(s) ==
    s \notin {"InStyleRecalc", "InPerformLayout", "InCompositingUpdate",
              "InPrePaint", "InPaint"}

Init == /\ state = "Uninitialized"
        /\ slimmingPaintV2 \in BOOLEAN
        /\ checkNoTransition = FALSE
        /\ savedCheck = <<>>

(* AdvanceTo(nextState): both assertions hold in a debug build, then the   *)
(* state is set.                                                           *)
AdvanceTo(next) ==
    /\ CanAdvanceTo(state, next)
    /\ state = next \/ ~checkNoTransition
    /\ state' = next
    /\ UNCHANGED <<slimmingPaintV2, checkNoTransition, savedCheck>>

(* A CheckNoTransitionScope is constructed: save the flag, set it. *)
EnterCheckNoTransitionScope ==
    /\ Len(savedCheck) < MaxScopeDepth
    /\ savedCheck' = Append(savedCheck, checkNoTransition)
    /\ checkNoTransition' = TRUE
    /\ UNCHANGED <<state, slimmingPaintV2>>

(* The innermost scope is destroyed: restore the value it saved. *)
LeaveCheckNoTransitionScope ==
    /\ savedCheck /= <<>>
    /\ checkNoTransition' = Last(savedCheck)
    /\ savedCheck' = Front(savedCheck)
    /\ UNCHANGED <<state, slimmingPaintV2>>

Next == \/ \E next \in LifecycleStates : AdvanceTo(next)
        \/ EnterCheckNoTransitionScope
        \/ LeaveCheckNoTransitionScope

Spec == Init /\ [][Next]_vars

-----------------------------------------------------------------------------
(* The coarse phase of a state, for the refinement of LifecyclePhases. *)
PhaseOf(s) ==
    IF s \in {"Uninitialized", "Inactive", "Stopping", "Stopped"} THEN s
    ELSE "Active"

Phases == INSTANCE LifecyclePhases WITH phase <- PhaseOf(state)

(* The transition table implements the lifecycle spec 4.1 promises: a     *)
(* document is Uninitialized, then Inactive, then does style/layout/paint  *)
(* work; Stopping is reachable from every state and Stopped only from      *)
(* Stopping; no state returns to Uninitialized or Inactive.                *)
RefinesLifecyclePhases == Phases!Spec

(* The assertions !SlimmingPaintV2Enabled() in the kInCompositingUpdate,   *)
(* kCompositingInputsClean and kCompositingClean cases of CanAdvanceTo     *)
(* never fire: with SlimmingPaintV2 no sequence of legal AdvanceTo calls   *)
(* enters a compositing state.                                             *)
CompositingOnlyWithoutSPV2 ==
    slimmingPaintV2 => state \notin CompositingStates

(* Every phase in which StateAllowsTreeMutations is false is left for a    *)
(* state that allows them: recalculation phases never chain directly, so   *)
(* DOM mutation is forbidden for one phase at a time.                      *)
MutationWindowsClosed ==
    [][~StateAllowsTreeMutations(state) => StateAllowsTreeMutations(state')]_state

=============================================================================
