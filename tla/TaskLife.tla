------------------------------ MODULE TaskLife ------------------------------
(***************************************************************************)
(* What the rest of the system sees of a task once its prompts are sent:   *)
(* it becomes done, it gets an answer or a failure, and an answer is       *)
(* analyzed once.  A failure that is stored is final.                      *)
(***************************************************************************)
CONSTANT Tasks

VARIABLE phase

Phases == {"open", "done", "answered", "failed", "analyzed"}

Moves == {<<"open", "done">>, <<"done", "answered">>, <<"done", "failed">>,
          <<"answered", "analyzed">>}

Init == phase = [t \in Tasks |-> "open"]

Move(t) == \E to \in Phases : /\ <<phase[t], to>> \in Moves
                              /\ phase' = [phase EXCEPT ![t] = to]

Next == \E t \in Tasks : Move(t)

Spec == Init /\ [][Next]_phase
=============================================================================
