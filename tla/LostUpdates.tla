----------------------------- MODULE LostUpdates -----------------------------
(***************************************************************************)
(* How often a counter that is read in one command and written in another  *)
(* can be written before it comes to its limit.                            *)
(*                                                                         *)
(* Each request of P writes one more than the count it read: whoever read  *)
(* v or less takes the counter back to v + 1 or less.  What matters is,    *)
(* for each v the counter has passed, how many requests have not read v or *)
(* less; where it has not passed v, none.  Every write raises these        *)
(* numbers, the one of the smallest v first, and nothing else lowers them: *)
(* there are no more writes than profiles to go through.                   *)
(***************************************************************************)
EXTENDS Integers, FiniteSets

\* The last write below the limit passes limit - 2.
Passed(limit) == 0 .. limit - 2

\* Whoever has read less has not read more: a profile does not increase.
Profiles(P, limit) ==
    {c \in [Passed(limit) -> 0 .. Cardinality(P)] :
        \A u, v \in Passed(limit) : u <= v => c[v] <= c[u]}

\* The writes below the limit, all from one profile to a higher one.
LostUpdates(P, limit) == Cardinality(Profiles(P, limit)) - 1
=============================================================================
