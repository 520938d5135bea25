----------------------------- MODULE TokenBucket -----------------------------
(***************************************************************************)
(* What a rate limiter promises: one bucket for every client there ever    *)
(* may be, full at first, that it never forgets.  Levels are counted in    *)
(* fractions of a request: Cost of them make one, Rate of them are added   *)
(* in every unit of time, Cap of them fill the bucket.                     *)
(***************************************************************************)
EXTENDS Naturals

CONSTANTS Clients, Procs, Rate, Cap, Cost

VARIABLES
    now,        \* the clock
    level,      \* level[k]: what is in the bucket of client k
    refused     \* <<p, k>>: request p, of client k, is being refused

Least(a, b) == IF a <= b THEN a ELSE b

Init ==
    /\ now = 0
    /\ level = [k \in Clients |-> Cap]
    /\ refused = {}

Refill ==
    /\ now' = now + 1
    /\ level' = [k \in Clients |-> Least(Cap, level[k] + Rate)]
    /\ UNCHANGED refused

Admit ==
    \E k \in Clients :
        /\ level[k] >= Cost
        /\ level' = [level EXCEPT ![k] = @ - Cost]
        /\ UNCHANGED <<now, refused>>

Refuse ==
    \E p \in Procs, k \in Clients :
        /\ level[k] < Cost
        /\ refused' = refused \cup {<<p, k>>}
        /\ UNCHANGED <<now, level>>

Respond ==
    \E r \in refused :
        /\ refused' = refused \ {r}
        /\ UNCHANGED <<now, level>>

Next == Refill \/ Admit \/ Refuse \/ Respond

Spec == Init /\ [][Next]_<<now, level, refused>>

=============================================================================
