---------------------------- MODULE RunnerContract ----------------------------
(***************************************************************************)
(* What a runner promises to whoever stops it, with no mention of states,  *)
(* locks or events.  A runner works from its launch on.  A request to stop *)
(* is never taken back; if the runner had already decided to begin another *)
(* bar it may begin that one, and after it no other; when its work is over *)
(* it never resumes.                                                       *)
(***************************************************************************)
CONSTANT Runners

VARIABLE phase   \* phase[r]: idle, working, last (stop asked, one bar may yet
                 \* begin), closing (stop asked, no bar may begin), done

Init == phase = [r \in Runners |-> "idle"]

Move(r, from, to) ==
  /\ phase[r] \in from
  /\ phase' = [phase EXCEPT ![r] = to]

Launch(r)  == Move(r, {"idle"}, "working")
Ask(r)     == Move(r, {"idle", "working"}, "closing")
AskLate(r) == Move(r, {"working"}, "last")
LastBar(r) == Move(r, {"last"}, "closing")
Finish(r)  == Move(r, {"working", "closing"}, "done")

Next == \E r \in Runners :
          Launch(r) \/ Ask(r) \/ AskLate(r) \/ LastBar(r) \/ Finish(r)

Spec == Init /\ [][Next]_phase
=============================================================================
