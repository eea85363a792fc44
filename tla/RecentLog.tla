----------------------------- MODULE RecentLog -----------------------------
(***************************************************************************)
(* What the circular buffer promises its callers, without slots, offsets   *)
(* or a full flag: it remembers the last Capacity items, oldest first      *)
(* ("pointers to memory allocated for the most recent write operations",   *)
(* aesd-circular-buffer.h), and hands back the buffptr of the item it      *)
(* dropped to make room.                                                   *)
(***************************************************************************)
EXTENDS Naturals, Sequences

CONSTANTS Item, Capacity, None

VARIABLES log,      \* the remembered items, oldest first
          dropped   \* buffptr of the item the last push displaced, or None

Push(l, x) == IF Len(l) < Capacity THEN Append(l, x) ELSE Append(Tail(l), x)

Init == log = <<>> /\ dropped = None

Add(x) ==
  /\ log' = Push(log, x)
  /\ dropped' = IF Len(log) < Capacity THEN None ELSE Head(log).buffptr

Clear == log' = <<>> /\ UNCHANGED dropped

Next == Clear \/ \E x \in Item : Add(x)

Spec == Init /\ [][Next]_<<log, dropped>>
=============================================================================
