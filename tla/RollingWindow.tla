--------------------------- MODULE RollingWindow ---------------------------
(***************************************************************************)
(* What a task record promises about its samples, without slots or         *)
(* indexes: a first-in first-out window of at most Capacity samples.  A    *)
(* sample leaves it only from the old end, and only because it is too old  *)
(* or because a newer one needs its room.                                  *)
(***************************************************************************)
EXTENDS Naturals, Sequences

CONSTANTS
  Capacity, (* The most samples the window holds.          *)
  MaxAge,   (* The age at which a sample may be dropped.   *)
  Kept      (* The status codes of samples worth keeping.  *)

VARIABLES
  window,   (* The samples, oldest first.                  *)
  total,    (* How many samples were ever accepted.        *)
  now

vars == <<window, total, now>>

Sample == [id: Nat \ {0}, time: Nat, status: Kept]

Init ==
  /\ window = <<>>
  /\ total = 0
  /\ now = 1

Accept(status) ==
  LET room == IF Len(window) = Capacity THEN Tail(window) ELSE window
  IN  /\ total' = total + 1
      /\ window' = Append(room, [id |-> total', time |-> now, status |-> status])
      /\ UNCHANGED now

Expire ==
  /\ window # <<>>
  /\ now - Head(window).time >= MaxAge
  /\ window' = Tail(window)
  /\ UNCHANGED <<total, now>>

Tick ==
  /\ now' = now + 1
  /\ UNCHANGED <<window, total>>

Next ==
  \/ \E status \in Kept : Accept(status)
  \/ Expire
  \/ Tick

Spec == Init /\ [][Next]_vars
=============================================================================
