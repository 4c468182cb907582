---------------------------- MODULE TokenFamily ----------------------------
(***************************************************************************)
(* What refresh-token rotation promises, without rows, locals and clocks.  *)
(* A login opens a family.  A request that presents a valid token of it    *)
(* gets a claim on that token, and may end without using it; before it     *)
(* exchanges the token for another of the family, the token has stopped    *)
(* being valid.  Several requests may hold a claim on one token, and each  *)
(* may exchange it; but after the first exchange nobody gets another       *)
(* claim.  Valid tokens can become invalid at any time, for any reason,    *)
(* and never the other way round.  So a family without valid tokens and    *)
(* claims is dead for good.                                                *)
(***************************************************************************)
CONSTANTS
    Proc,    \* requests in flight
    Family,  \* ids of families
    Serial   \* tokens of one family

VARIABLES
    ever,   \* tokens that have come into being
    valid,  \* those of them that can be exchanged
    claim   \* what each request may yet exchange: a token, or the family it opens

vars == <<ever, valid, claim>>

NoClaim == <<>>

Token == Family \X Serial

Of(f, S) == {t \in S : t[1] = f}

Init ==
    /\ ever = {}
    /\ valid = {}
    /\ claim = [p \in Proc |-> NoClaim]

\* A login: nobody else has or gets a token of its family.
Open(p, f) ==
    /\ claim[p] = NoClaim
    /\ Of(f, ever) = {} /\ \A q \in Proc : claim[q] # <<f>>
    /\ claim' = [claim EXCEPT ![p] = <<f>>]
    /\ UNCHANGED <<ever, valid>>

\* A refresh: the token presented is valid when the claim is made.
Claim(p, t) ==
    /\ claim[p] = NoClaim
    /\ t \in valid
    /\ claim' = [claim EXCEPT ![p] = t]
    /\ UNCHANGED <<ever, valid>>

\* What a claim on a family, or on a token that was valid and is not any more, gives.
Extends(c, f) == c = <<f>> \/ c \in Of(f, ever \ valid)

\* A claim gives one token that never was before, expired already at worst.
Issue(p, t) ==
    /\ Extends(claim[p], t[1])
    /\ t \notin ever
    /\ ever' = ever \cup {t}
    /\ valid' \in {valid, valid \cup {t}}
    /\ claim' = [claim EXCEPT ![p] = NoClaim]

Drop(p) ==
    /\ claim' = [claim EXCEPT ![p] = NoClaim]
    /\ UNCHANGED <<ever, valid>>

Invalidate ==
    /\ valid' \subseteq valid
    /\ UNCHANGED <<ever, claim>>

Next ==
    \/ Invalidate
    \/ \E p \in Proc :
          \/ Drop(p)
          \/ \E f \in Family : Open(p, f)
          \/ \E t \in valid : Claim(p, t)
          \/ \E t \in Token : Issue(p, t)

Spec == Init /\ [][Next]_vars
=============================================================================
