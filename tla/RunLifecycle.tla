----------------------------- MODULE RunLifecycle -----------------------------
(***************************************************************************)
(* What a run promises of the infrastructure it holds, without saying how: *)
(*   - while the run works, what it holds only grows, except for the       *)
(*     scratch things a step of its own creates and destroys;              *)
(*   - its verdict is given once, when the work ends, and the release that *)
(*     follows never changes it;                                           *)
(*   - things are released only after the work has ended, and never by a   *)
(*     run that closed without a release;                                  *)
(*   - a release that begins ends, and a bounded run closes.               *)
(* Nothing is promised of what is still acquired after the end: the steps  *)
(* of a run may outlive it.                                                *)
(***************************************************************************)
CONSTANT Scratch    \* things the run may give back while it works

VARIABLES
    bounded,    \* the run has a bounded duration
    phase,      \* "working", "releasing", "released", or "closed" without a release
    verdict,    \* "running" until the work ends
    held        \* things that exist because of the run

vars == <<bounded, phase, verdict, held>>

Init ==
    /\ bounded \in BOOLEAN
    /\ phase = "working"
    /\ verdict = "running"
    /\ held = {}

Acquire ==
    /\ held \subseteq held'
    /\ UNCHANGED <<bounded, phase, verdict>>

ReturnScratch ==
    /\ held' \subseteq held
    /\ held \ held' \subseteq Scratch
    /\ UNCHANGED <<bounded, phase, verdict>>

Finish ==
    /\ phase = "working"
    /\ phase' \in {"releasing", "closed"}
    /\ verdict' \in {"completed", "failed", "canceled"}
    /\ UNCHANGED <<bounded, held>>

Release ==
    /\ phase \in {"releasing", "released"}
    /\ held' \subseteq held
    /\ UNCHANGED <<bounded, phase, verdict>>

Close ==
    /\ phase = "releasing"
    /\ phase' = "released"
    /\ UNCHANGED <<bounded, verdict, held>>

Next == Acquire \/ ReturnScratch \/ Finish \/ Release \/ Close

SafetySpec == Init /\ [][Next]_vars

Liveness ==
    /\ phase = "releasing" ~> phase = "released"
    /\ bounded ~> phase \in {"released", "closed"}

Spec == SafetySpec /\ Liveness
===============================================================================
