------------------------------- MODULE Errand -------------------------------
(***************************************************************************)
(* What somebody who asks for an effect on the outside world is promised.  *)
(*                                                                         *)
(* The effect takes place at most once, and only between the asking and    *)
(* the verdict.  The verdict is final.  "good" says that the effect took   *)
(* place and "bad" that it did not and never will.  An errand that is      *)
(* judged by what is seen of the world may be good before, or without, its *)
(* own effect.                                                             *)
(***************************************************************************)
CONSTANT Errands

VARIABLES
    verdict,  \* "none" before the asking, "open", "good" or "bad"
    effect,   \* "no", "sent" while it is on its way, "yes"
    bySight   \* is it judged by what is seen?

errandVars == <<verdict, effect, bySight>>

ErrandInit ==
    /\ verdict = [e \in Errands |-> "none"]
    /\ effect = [e \in Errands |-> "no"]
    /\ bySight = [e \in Errands |-> FALSE]

Ask(e) ==
    /\ verdict[e] = "none"
    /\ verdict' = [verdict EXCEPT ![e] = "open"]
    /\ \E b \in BOOLEAN: bySight' = [bySight EXCEPT ![e] = b]
    /\ UNCHANGED effect

\* Is the effect still allowed to begin or to arrive?
Allowed(e) == verdict[e] = "open" \/ (verdict[e] = "good" /\ bySight[e])

Dispatch(e) ==
    /\ Allowed(e) /\ effect[e] = "no"
    /\ effect' = [effect EXCEPT ![e] = "sent"]
    /\ UNCHANGED <<verdict, bySight>>

Happen(e) ==
    /\ Allowed(e) /\ effect[e] # "yes"
    /\ effect' = [effect EXCEPT ![e] = "yes"]
    /\ UNCHANGED <<verdict, bySight>>

Judge(e) ==
    /\ verdict[e] = "open"
    /\ \/ /\ effect[e] = "yes" \/ bySight[e]
          /\ verdict' = [verdict EXCEPT ![e] = "good"]
       \/ /\ effect[e] = "no"
          /\ verdict' = [verdict EXCEPT ![e] = "bad"]
    /\ UNCHANGED <<effect, bySight>>

ErrandNext == \E e \in Errands: Ask(e) \/ Dispatch(e) \/ Happen(e) \/ Judge(e)

ErrandSpec == ErrandInit /\ [][ErrandNext]_errandVars

=============================================================================
