----------------------------- MODULE PollContract -----------------------------
(***************************************************************************)
(* What the coordinator relies on when it hands async_run its two          *)
(* callbacks: the session polls and pauses in turn, calls exactly one      *)
(* callback per completed poll, and calls none once it is stopped.  A stop *)
(* may cut a poll short; then that poll reports nothing.                   *)
(***************************************************************************)
VARIABLES phase,    \* "idle", "polling" or "stopped"
          report    \* the callback the current or last poll made

contractVars == <<phase, report>>

Init == phase = "idle" /\ report = "none"

Begin ==
  /\ phase = "idle"
  /\ phase' = "polling"
  /\ report' = "none"

Answer ==
  /\ phase = "polling"
  /\ phase' = "idle"
  /\ report' \in {"status", "error"}

Stop ==
  /\ phase # "stopped"
  /\ phase' = "stopped"
  /\ UNCHANGED report

Next == Begin \/ Answer \/ Stop

SafeSpec == Init /\ [][Next]_contractVars

\* Until it is stopped the session neither rests nor hangs.
Spec == SafeSpec /\ WF_contractVars(Begin) /\ WF_contractVars(Answer)

=============================================================================
