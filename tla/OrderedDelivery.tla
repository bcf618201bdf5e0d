---------------------------- MODULE OrderedDelivery ----------------------------
(***************************************************************************)
(* What a shipper promises to the program that reports through it: what it *)
(* has accepted it settles in that order, nothing twice and nothing passed *)
(* over, and what it has settled stays so.  Once closed it accepts nothing *)
(* more, still settles nothing it did not accept and no more than it did,  *)
(* and no longer promises the order.                                       *)
(***************************************************************************)
EXTENDS Integers, Sequences

VARIABLES accepted,  \* what has been accepted, in order
          done,      \* what has been settled, in order
          open       \* whether it accepts

\* t goes on where s ends.
Continues(t, s) == Len(s) <= Len(t) /\ \A i \in DOMAIN s : t[i] = s[i]

\* Whatever is in t is in s, and t is no longer.
IsPartOf(t, s) ==
    /\ Len(t) <= Len(s)
    /\ \A i \in DOMAIN t : \E k \in DOMAIN s : s[k] = t[i]

Init == accepted = <<>> /\ done = <<>> /\ open = TRUE

Accept ==
    /\ open
    /\ Len(accepted') = Len(accepted) + 1
    /\ Continues(accepted', accepted)
    /\ UNCHANGED <<done, open>>

\* Some of what was accepted is settled: while the shipper is open, what is next.
Settle ==
    /\ Continues(done', done)
    /\ IsPartOf(done', accepted)
    /\ open => Continues(accepted, done')
    /\ UNCHANGED <<accepted, open>>

Close ==
    /\ open
    /\ open' = FALSE
    /\ UNCHANGED <<accepted, done>>

Next == Accept \/ Settle \/ Close

Spec == Init /\ [][Next]_<<accepted, done, open>>

=============================================================================
