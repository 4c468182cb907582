------------------------- MODULE SecondFactorProofs -------------------------
(***************************************************************************)
(* For every number of requests, secrets, codes, temporary tokens and      *)
(* rows of devices: the type invariant of SecondFactor, its three bounds   *)
(* and the marks of the device.  None of the bounds is inductive: each     *)
(* counter grows only with a request that waits to let it grow, so the     *)
(* counter and those requests together are what is bounded.                *)
(***************************************************************************)
EXTENDS SecondFactor, FiniteSetTheorems, TLAPS

\* The statements of a login after its second factor.
LoginPcs == {"find", "touch", "insert", "session"}

\* Logins on their way to a session without a code of the secret in force.
Behind == {p \in Proc : call[p].pc \in LoginPcs /\ mfa # None /\ call[p].proof # mfa}

\* Requests that hold a temporary token.
Holders(t) == {p \in Proc : call[p].ticket = t}

\* Logins that found no device and have not inserted it yet.
Inserting == {p \in Proc : call[p].pc = "insert"}

WeakInv == weak + Cardinality(Behind) <= Cardinality(Proc)

\* A token still in Redis has completed no login; one that is claimed is gone.
TicketInv ==
    /\ \A t \in tickets : uses[t] = 0
    /\ \A p \in Proc : call[p].pc # "claim" => call[p].ticket \notin tickets
    /\ \A t \in Ticket : uses[t] + Cardinality(Holders(t)) <= Cardinality(Proc)

\* A login is only refused after another has inserted the device.
RefusalInv ==
    /\ Active = {} => refused = 0
    /\ Active # {} => refused + Cardinality(Inserting) < Cardinality(Proc)

\* A request that saves the mark of trust has loaded the row.
LoadedInv == \A p \in Proc : call[p].pc = "saveTrust" => call[p].device \in Device

FactorInv == TypeOK /\ WeakInv /\ TicketInv /\ RefusalInv

Scores == [Device -> Score]

-----------------------------------------------------------------------------
(* Counting requests.                                                      *)

LEMMA ProcCount == Cardinality(Proc) \in Nat /\ Cardinality(Proc) > 0
  BY ProcAssumption, FS_CardinalityType, FS_EmptySet

LEMMA Fewer ==
  ASSUME NEW A, NEW B, A \subseteq B, B \subseteq Proc
  PROVE  /\ Cardinality(A) \in Nat /\ Cardinality(B) \in Nat
         /\ Cardinality(A) <= Cardinality(B) /\ Cardinality(B) <= Cardinality(Proc)
<1>1. IsFiniteSet(B) /\ Cardinality(B) <= Cardinality(Proc)
  BY ProcAssumption, FS_Subset
<1>2. IsFiniteSet(A) /\ Cardinality(A) <= Cardinality(B)
  BY <1>1, FS_Subset
<1> QED
  BY <1>1, <1>2, FS_CardinalityType

LEMMA OneFewer ==
  ASSUME NEW A, NEW B, NEW p \in B, A \subseteq B \ {p}, B \subseteq Proc
  PROVE  /\ Cardinality(A) \in Nat /\ Cardinality(B) \in Nat
         /\ Cardinality(A) + 1 <= Cardinality(B) /\ Cardinality(B) <= Cardinality(Proc)
<1>1. IsFiniteSet(B)
  BY ProcAssumption, FS_Subset
<1>2. Cardinality(B \ {p}) = Cardinality(B) - 1
  BY <1>1, FS_RemoveElement
<1>3. Cardinality(A) \in Nat /\ Cardinality(A) <= Cardinality(B \ {p})
  BY Fewer
<1> QED
  BY <1>2, <1>3, Fewer

-----------------------------------------------------------------------------
(* Locals of a request.                                                    *)

LEMMA SomeScores == {0, FirstScore, FullScore} \subseteq Score
  BY ScoreAssumption DEF Score

LEMMA IdleCall ==
  /\ Idle \in Call /\ Idle.pc = "idle"
  /\ Idle.ticket = None /\ Idle.proof = None /\ Idle.device = None
  BY SomeScores DEF Idle, Call

\* A request with the row that it has loaded.
LEMMA LoadedCall ==
  ASSUME NEW c \in Call, NEW d \in Device, score \in Scores
  PROVE  /\ Loaded(c, d) \in Call
         /\ Loaded(c, d).pc = c.pc /\ Loaded(c, d).ticket = c.ticket
         /\ Loaded(c, d).proof = c.proof
         /\ Loaded(c, d).device = d /\ Loaded(c, d).score = score[d]
<1>1. score[d] \in Score
  BY DEF Scores
<1>2. Loaded(c, d) = [c EXCEPT !.device = d, !.score = score[d]]
  BY DEF Loaded
<1> QED
  BY <1>1, <1>2 DEF Call

LEMMA RaisedScore ==
  ASSUME NEW n \in Score
  PROVE  /\ Raised(n) \in Score
         /\ TrustAt <= n => TrustAt <= Raised(n)
  BY ScoreAssumption DEF Raised, Score

\* What touch writes to the column of the score.
LEMMA TouchedScore ==
  ASSUME TypeOK, NEW p \in Proc, TouchDevice(p)
  PROVE  /\ score' \in Scores
         /\ \A d \in Device :
               \/ score'[d] = score[d]
               \/ d = call[p].device /\ score'[d] = Raised(call[p].score)
<1>1. score \in Scores /\ call[p].score \in Score
  BY DEF TypeOK, Scores, Call
<1>2. Raised(call[p].score) \in Score
  BY <1>1, RaisedScore
<1>3. score' = IF call[p].score < FullScore
               THEN [score EXCEPT ![call[p].device] = Raised(call[p].score)] ELSE score
  BY DEF TouchDevice, Touched
<1>4. PICK r \in Score : r = Raised(call[p].score)
  BY <1>2
<1>5. score' = score \/ score' = [score EXCEPT ![call[p].device] = r]
  BY <1>3, <1>4
<1> QED
  BY <1>1, <1>4, <1>5 DEF Scores

LEMMA TrustedScore ==
  ASSUME TypeOK, NEW p \in Proc, SaveTrust(p)
  PROVE  /\ score' \in Scores
         /\ \A d \in Device : score'[d] \in {score[d], FullScore}
<1>1. score \in Scores /\ FullScore \in Score
  BY SomeScores DEF TypeOK, Scores
<1>2. score' = IF call[p].score # FullScore
               THEN [score EXCEPT ![call[p].device] = FullScore] ELSE score
  BY DEF SaveTrust
<1> QED
  BY <1>1, <1>2 DEF Scores

\* The record that a verified code writes, as locals with the fields they have.
LEMMA GoesProven ==
  ASSUME NEW p \in Proc, NEW b \in Call, NEW s \in Secret \cup {None},
         Go(p, [b EXCEPT !.pc = "find", !.proof = s])
  PROVE  \E c \in Call : Go(p, c) /\ c.pc = "find" /\ c.ticket = b.ticket /\ c.proof = s
<1> DEFINE d == [b EXCEPT !.pc = "find", !.proof = s]
<1>1. d \in Call /\ d.pc = "find" /\ d.ticket = b.ticket /\ d.proof = s
  BY DEF Call
<1>2. Go(p, d)
  OBVIOUS
<1> HIDE DEF d
<1> QED
  BY <1>1, <1>2

\* A step that moves one request.
LEMMA Moved ==
  ASSUME TypeOK, NEW p \in Proc, NEW c \in Call, Go(p, c)
  PROVE  /\ call' \in [Proc -> Call]
         /\ call'[p] = c
         /\ \A q \in Proc \ {p} : call'[q] = call[q]
  BY DEF TypeOK, Go

-----------------------------------------------------------------------------
(* Steps that move one request and count nothing.                          *)

\* Where a request may go without disturbing what is counted.
Fits(p, c) ==
    /\ c.pc \in LoginPcs =>
          \/ mfa = None
          \/ c.proof = mfa
          \/ call[p].pc \in LoginPcs /\ c.proof = call[p].proof
    /\ c.ticket \in {None, call[p].ticket}
    /\ c.ticket # None => call[p].pc # "claim"
    /\ c.pc = "insert" => Active = {}

LEMMA MoveKeeps ==
  ASSUME FactorInv, NEW p \in Proc, NEW c \in Call, Go(p, c), Fits(p, c),
         UNCHANGED <<mfa, tickets, device, weak, uses, refused>>
  PROVE  WeakInv' /\ TicketInv' /\ RefusalInv'
<1> USE DEF FactorInv
<1>1. call'[p] = c /\ \A q \in Proc \ {p} : call'[q] = call[q]
  BY Moved
<1>2. WeakInv'
  <2>1. Behind' \subseteq Behind
    BY <1>1 DEF Behind, Fits
  <2>2. Cardinality(Behind') <= Cardinality(Behind) /\ Cardinality(Behind') \in Nat
        /\ Cardinality(Behind) \in Nat
    BY <2>1, Fewer DEF Behind
  <2> QED
    BY <2>2, ProcCount DEF WeakInv, TypeOK
<1>3. TicketInv'
  <2>1. None \notin tickets
    BY NoneAssumption DEF TypeOK
  <2>2. \A q \in Proc : call'[q].pc # "claim" => call'[q].ticket \notin tickets
    BY <1>1, <2>1 DEF TicketInv, Fits
  <2>3. ASSUME NEW t \in Ticket
        PROVE  uses[t] + Cardinality(Holders(t)') <= Cardinality(Proc)
    <3>1. Holders(t)' \subseteq Holders(t)
      BY <1>1, NoneAssumption DEF Holders, Fits
    <3>2. Cardinality(Holders(t)') <= Cardinality(Holders(t)) /\ Cardinality(Holders(t)') \in Nat
          /\ Cardinality(Holders(t)) \in Nat
      BY <3>1, Fewer DEF Holders
    <3> QED
      BY <3>2, ProcCount DEF TicketInv, TypeOK
  <2> QED
    BY <2>2, <2>3 DEF TicketInv
<1>4. RefusalInv'
  <2>1. Active' = Active
    BY DEF Active
  <2>2. ASSUME Active # {} PROVE refused + Cardinality(Inserting') < Cardinality(Proc)
    <3>1. Inserting' \subseteq Inserting
      BY <1>1, <2>2 DEF Inserting, Fits
    <3>2. Cardinality(Inserting') <= Cardinality(Inserting) /\ Cardinality(Inserting') \in Nat
          /\ Cardinality(Inserting) \in Nat
      BY <3>1, Fewer DEF Inserting
    <3> QED
      BY <2>2, <3>2, ProcCount DEF RefusalInv, TypeOK
  <2> QED
    BY <2>1, <2>2 DEF RefusalInv
<1> QED
  BY <1>2, <1>3, <1>4

LEMMA IdleFits ==
  ASSUME NEW p \in Proc
  PROVE  Fits(p, Idle)
  BY IdleCall DEF Fits, LoginPcs

\* Types, for a step that moves one request and writes no device or token.
LEMMA MoveTypes ==
  ASSUME FactorInv, NEW p \in Proc, NEW c \in Call, Go(p, c),
         codes' \subseteq codes, trusted' \subseteq Device, score' \in Scores,
         UNCHANGED <<mfa, tickets, device, weak, uses, refused>>
  PROVE  TypeOK'
  BY Moved DEF FactorInv, TypeOK, Scores

LEMMA QuietMove ==
  ASSUME FactorInv, NEW p \in Proc, NEW c \in Call, Go(p, c), Fits(p, c),
         codes' \subseteq codes, trusted' \subseteq Device, score' \in Scores,
         UNCHANGED <<mfa, tickets, device, weak, uses, refused>>
  PROVE  FactorInv'
  BY MoveKeeps, MoveTypes DEF FactorInv

\* What is known of a request before its next step.
LEMMA Here ==
  ASSUME FactorInv, NEW p \in Proc
  PROVE  /\ TypeOK
         /\ call[p] \in Call
         /\ mfa \in Secret \cup {None}
         /\ call[p].ticket \in Ticket \cup {None}
         /\ call[p].device \in Device \cup {None}
         /\ trusted \subseteq Device
         /\ score \in Scores
  BY DEF FactorInv, TypeOK, Call, Scores

-----------------------------------------------------------------------------
(* One lemma per action, or for several that go the same way.              *)

LEMMA FactorInit == Init => FactorInv
<1> SUFFICES ASSUME Init PROVE FactorInv
  OBVIOUS
<1>1. TypeOK
  BY IdleCall, SomeScores DEF Init, TypeOK
<1>2. WeakInv
  <2>1. Behind = {}
    BY IdleCall DEF Init, Behind, LoginPcs
  <2> QED
    BY <2>1, FS_EmptySet, ProcCount DEF Init, WeakInv
<1>3. TicketInv
  <2>1. ASSUME NEW t \in Ticket PROVE Holders(t) = {}
    BY IdleCall, NoneAssumption DEF Init, Holders
  <2> QED
    BY <2>1, FS_EmptySet, ProcCount DEF Init, TicketInv
<1>4. RefusalInv
  BY DEF Init, RefusalInv, Active
<1> QED
  BY <1>1, <1>2, <1>3, <1>4 DEF FactorInv

LEMMA MfaKeeps ==
  ASSUME FactorInv, EnableMfa
  PROVE  FactorInv'
<1> USE DEF FactorInv
<1>1. UNCHANGED <<tickets, device, call, uses, refused>>
  BY DEF EnableMfa
<1>2. TypeOK'
  BY DEF EnableMfa, TypeOK
<1>3. TicketInv' /\ RefusalInv'
  BY <1>1 DEF TicketInv, RefusalInv, Holders, Active, Inserting
<1>4. WeakInv'
  <2>1. Behind' \subseteq Proc
    BY DEF Behind
  <2>2. Cardinality(Behind') \in Nat /\ Cardinality(Behind') <= Cardinality(Proc)
    BY <2>1, Fewer
  <2> QED
    BY <2>2 DEF WeakInv, EnableMfa
<1> QED
  BY <1>2, <1>3, <1>4

LEMMA TicketExpiresKeeps ==
  ASSUME FactorInv, TicketExpires
  PROVE  FactorInv'
<1> USE DEF FactorInv
<1>1. tickets' \subseteq tickets
      /\ UNCHANGED <<mfa, codes, device, trusted, score, call, weak, uses, refused>>
  BY DEF TicketExpires
<1>2. TypeOK'
  BY <1>1 DEF TypeOK
<1>3. WeakInv' /\ RefusalInv'
  BY <1>1 DEF WeakInv, RefusalInv, Behind, Active, Inserting
<1>4. TicketInv'
  BY <1>1 DEF TicketInv, Holders
<1> QED
  BY <1>2, <1>3, <1>4

\* A request that ends: it fails, is refused a code, or has saved a device.
LEMMA EndKeeps ==
  ASSUME FactorInv, NEW p \in Proc, Go(p, Idle),
         codes' \subseteq codes, trusted' \subseteq Device, score' \in Scores,
         UNCHANGED <<mfa, tickets, device, weak, uses, refused>>
  PROVE  FactorInv'
  BY IdleCall, IdleFits, QuietMove

\* The code is verified against the secret loaded.
LEMMA ProveTotpKeeps ==
  ASSUME FactorInv, NEW p \in Proc, call[p].pc # "claim",
         Go(p, [call[p] EXCEPT !.pc = "find", !.proof = mfa]), codes' \subseteq codes,
         UNCHANGED <<mfa, tickets, device, trusted, score, weak, uses, refused>>
  PROVE  FactorInv'
<1>1. PICK c \in Call : Go(p, c) /\ c.pc = "find" /\ c.ticket = call[p].ticket /\ c.proof = mfa
  BY Here, GoesProven, Zenon
<1>2. Fits(p, c)
  BY <1>1 DEF Fits
<1> QED
  BY <1>1, <1>2, QuietMove, Here

LEMMA LoginKeeps ==
  ASSUME FactorInv, NEW p \in Proc, Login(p)
  PROVE  FactorInv'
<1>1. call[p].pc = "idle" /\ codes' = codes
      /\ UNCHANGED <<mfa, tickets, device, trusted, score, weak, uses, refused>>
  BY DEF Login, At, ProveTotp
<1>2. CASE ProveTotp(p)
  BY <1>1, <1>2, ProveTotpKeeps DEF ProveTotp
<1>3. ASSUME NEW pc \in {"find", "challenge"}, pc = "find" => mfa = None,
             Go(p, [Idle EXCEPT !.pc = pc])
      PROVE  FactorInv'
  <2>1. PICK c \in Call : Go(p, c) /\ c.pc = pc /\ c.ticket = None
    <3> DEFINE d == [Idle EXCEPT !.pc = pc]
    <3>1. d \in Call /\ d.pc = pc /\ d.ticket = None
      BY SomeScores DEF Call, Idle
    <3>2. Go(p, d)
      BY <1>3
    <3> HIDE DEF d
    <3> QED
      BY <3>1, <3>2
  <2>2. Fits(p, c)
    BY <1>3, <2>1 DEF Fits, LoginPcs
  <2> QED
    BY <1>1, <2>1, <2>2, QuietMove, Here
<1> QED
  BY <1>2, <1>3 DEF Login

LEMMA TryBackupCodeKeeps ==
  ASSUME FactorInv, NEW p \in Proc, NEW c \in Code, TryBackupCode(p, c)
  PROVE  FactorInv'
<1>1. call[p].pc # "claim" /\ codes' \subseteq codes
      /\ UNCHANGED <<mfa, tickets, device, trusted, score, weak, uses, refused>>
  BY DEF TryBackupCode, At
<1>2. Go(p, Idle) \/ Go(p, [call[p] EXCEPT !.pc = "find", !.proof = mfa])
  BY Zenon DEF TryBackupCode
<1> QED
  BY <1>1, <1>2, EndKeeps, ProveTotpKeeps, Here

LEMMA VerifyMfaKeeps ==
  ASSUME FactorInv, NEW p \in Proc, VerifyMfa(p)
  PROVE  FactorInv'
  BY ProveTotpKeeps DEF VerifyMfa, ProveTotp, At

\* setTempToken gives out a token that nobody holds.
LEMMA SetTicketKeeps ==
  ASSUME FactorInv, NEW p \in Proc, SetTicket(p)
  PROVE  FactorInv'
<1> USE DEF FactorInv
<1>1. PICK t \in Ticket \ tickets :
        /\ \A q \in Proc : call[q].ticket # t
        /\ tickets' = tickets \cup {t}
        /\ uses' = [uses EXCEPT ![t] = 0]
  BY DEF SetTicket
<1>2. call'[p] = Idle /\ (\A q \in Proc \ {p} : call'[q] = call[q]) /\ call' \in [Proc -> Call]
  BY IdleCall, Moved DEF SetTicket
<1>3. UNCHANGED <<mfa, codes, device, trusted, score, weak, refused>>
  BY DEF SetTicket
<1>4. TypeOK'
  BY <1>1, <1>2, <1>3 DEF TypeOK
<1>5. WeakInv'
  <2>1. Behind' \subseteq Behind
    BY <1>2, <1>3, IdleCall DEF Behind, LoginPcs
  <2>2. Cardinality(Behind') <= Cardinality(Behind) /\ Cardinality(Behind') \in Nat
        /\ Cardinality(Behind) \in Nat
    BY <2>1, Fewer DEF Behind
  <2> QED
    BY <1>3, <2>2, ProcCount DEF WeakInv, TypeOK
<1>6. RefusalInv'
  <2>1. Inserting' = Inserting
    BY <1>2, IdleCall DEF SetTicket, At, Inserting
  <2> QED
    BY <1>3, <2>1 DEF RefusalInv, Active
<1>7. TicketInv'
  <2>1. \A s \in tickets' : uses'[s] = 0
    BY <1>1 DEF TicketInv, TypeOK
  <2>2. \A q \in Proc : call'[q].pc # "claim" => call'[q].ticket \notin tickets'
    BY <1>1, <1>2, IdleCall, NoneAssumption DEF TicketInv, TypeOK
  <2>3. ASSUME NEW s \in Ticket
        PROVE  uses'[s] + Cardinality(Holders(s)') <= Cardinality(Proc)
    <3>1. Holders(s)' \subseteq Holders(s)
      BY <1>2, IdleCall, NoneAssumption DEF Holders
    <3>2. Cardinality(Holders(s)') <= Cardinality(Holders(s)) /\ Cardinality(Holders(s)') \in Nat
          /\ Cardinality(Holders(s)) \in Nat
      BY <3>1, Fewer DEF Holders
    <3>3. uses'[s] <= uses[s] /\ uses'[s] \in Nat /\ uses[s] \in Nat
      BY <1>1 DEF TypeOK
    <3> QED
      BY <3>2, <3>3, ProcCount DEF TicketInv
  <2> QED
    BY <2>1, <2>2, <2>3 DEF TicketInv
<1> QED
  BY <1>4, <1>5, <1>6, <1>7

\* getTempToken's GET: one holder more, of a token that has completed no login.
LEMMA StartMfaKeeps ==
  ASSUME FactorInv, NEW p \in Proc, StartMfa(p)
  PROVE  FactorInv'
<1> USE DEF FactorInv
<1>1. PICK t \in tickets : Go(p, [Idle EXCEPT !.pc = "claim", !.ticket = t])
  BY DEF StartMfa
<1>2. PICK c \in Call : Go(p, c) /\ c.pc = "claim" /\ c.ticket = t
  <2> DEFINE d == [Idle EXCEPT !.pc = "claim", !.ticket = t]
  <2>1. d \in Call /\ d.pc = "claim" /\ d.ticket = t
    BY SomeScores DEF Idle, Call, TypeOK
  <2> HIDE DEF d
  <2> QED
    BY <1>1, <2>1 DEF d
<1>3. call'[p] = c /\ (\A q \in Proc \ {p} : call'[q] = call[q]) /\ call' \in [Proc -> Call]
  BY <1>2, Moved
<1>4. UNCHANGED <<mfa, codes, tickets, device, trusted, score, weak, uses, refused>>
  BY DEF StartMfa
<1>5. TypeOK'
  BY <1>3, <1>4 DEF TypeOK
<1>6. WeakInv'
  <2>1. Behind' = Behind
    BY <1>2, <1>3, <1>4 DEF StartMfa, At, Behind, LoginPcs
  <2> QED
    BY <1>4, <2>1 DEF WeakInv
<1>7. RefusalInv'
  <2>1. Inserting' = Inserting
    BY <1>2, <1>3 DEF StartMfa, At, Inserting
  <2> QED
    BY <1>4, <2>1 DEF RefusalInv, Active
<1>8. TicketInv'
  <2>1. \A q \in Proc : call'[q].pc # "claim" => call'[q].ticket \notin tickets'
    BY <1>2, <1>3, <1>4 DEF TicketInv
  <2>2. ASSUME NEW s \in Ticket
        PROVE  uses'[s] + Cardinality(Holders(s)') <= Cardinality(Proc)
    <3>1. CASE s = t
      <4>1. uses'[s] = 0
        BY <1>4, <3>1 DEF TicketInv
      <4>2. Holders(s)' \subseteq Proc
        BY DEF Holders
      <4>3. Cardinality(Holders(s)') \in Nat /\ Cardinality(Holders(s)') <= Cardinality(Proc)
        BY <4>2, Fewer
      <4> QED
        BY <4>1, <4>3
    <3>2. CASE s # t
      <4>1. Holders(s)' \subseteq Holders(s)
        BY <1>2, <1>3, <3>2 DEF Holders
      <4>2. Cardinality(Holders(s)') <= Cardinality(Holders(s)) /\ Cardinality(Holders(s)') \in Nat
            /\ Cardinality(Holders(s)) \in Nat
        BY <4>1, Fewer DEF Holders
      <4>3. uses'[s] = uses[s] /\ uses[s] \in Nat
        BY <1>4 DEF TypeOK
      <4> QED
        BY <4>2, <4>3, ProcCount DEF TicketInv
    <3> QED
      BY <3>1, <3>2
  <2> QED
    BY <1>4, <2>1, <2>2 DEF TicketInv
<1> QED
  BY <1>5, <1>6, <1>7, <1>8

\* getTempToken's DEL.
LEMMA ClaimTicketKeeps ==
  ASSUME FactorInv, NEW p \in Proc, ClaimTicket(p)
  PROVE  FactorInv'
<1> USE DEF FactorInv
<1>1. PICK c \in Call : Go(p, c) /\ c.pc = "loadMfa" /\ c.ticket = call[p].ticket
  <2> DEFINE d == [call[p] EXCEPT !.pc = "loadMfa"]
  <2>1. d \in Call /\ d.pc = "loadMfa" /\ d.ticket = call[p].ticket /\ d.proof = call[p].proof
    BY Here DEF Call
  <2>2. Go(p, d)
    BY DEF ClaimTicket
  <2> HIDE DEF d
  <2> QED
    BY <2>1, <2>2
<1>2. call'[p] = c /\ (\A q \in Proc \ {p} : call'[q] = call[q]) /\ call' \in [Proc -> Call]
  BY <1>1, Moved
<1>3. tickets' = tickets \ {c.ticket}
      /\ UNCHANGED <<mfa, codes, device, trusted, score, weak, uses, refused>>
  BY <1>1 DEF ClaimTicket
<1>4. TypeOK'
  BY <1>2, <1>3 DEF TypeOK
<1>5. Behind' = Behind /\ Inserting' = Inserting
  BY <1>1, <1>2, <1>3 DEF ClaimTicket, At, Behind, Inserting, LoginPcs
<1>6. WeakInv' /\ RefusalInv'
  BY <1>3, <1>5 DEF WeakInv, RefusalInv, Active
<1>7. TicketInv'
  <2>1. \A t : Holders(t)' = Holders(t)
    BY <1>1, <1>2 DEF Holders
  <2>2. \A q \in Proc : call'[q].pc # "claim" => call'[q].ticket \notin tickets'
    BY <1>1, <1>2, <1>3 DEF TicketInv
  <2> QED
    BY <1>3, <2>1, <2>2 DEF TicketInv
<1> QED
  BY <1>4, <1>6, <1>7

\* findOne of registerDevice.
LEMMA FindDeviceKeeps ==
  ASSUME FactorInv, NEW p \in Proc, FindDevice(p)
  PROVE  FactorInv'
<1>1. call[p].pc = "find"
      /\ UNCHANGED <<mfa, codes, tickets, device, trusted, score, weak, uses, refused>>
  BY DEF FindDevice, At
<1>2. ASSUME NEW c \in Call, Go(p, c), c.pc \in {"session", "insert", "touch"},
             c.pc = "insert" => Active = {}, c.ticket = call[p].ticket, c.proof = call[p].proof
      PROVE  FactorInv'
  <2>1. Fits(p, c)
    BY <1>1, <1>2 DEF Fits, LoginPcs
  <2> QED
    BY <1>1, <1>2, <2>1, QuietMove, Here
<1>3. CASE Go(p, [call[p] EXCEPT !.pc = "session"])
  <2>1. PICK c \in Call : Go(p, c) /\ c.pc = "session" /\ c.ticket = call[p].ticket
                         /\ c.proof = call[p].proof
    <3> DEFINE d == [call[p] EXCEPT !.pc = "session"]
    <3>1. d \in Call /\ d.pc = "session" /\ d.ticket = call[p].ticket /\ d.proof = call[p].proof
      BY Here DEF Call
    <3>2. Go(p, d)
      BY <1>3
    <3> HIDE DEF d
    <3> QED
      BY <3>1, <3>2
  <2> QED
    BY <1>2, <2>1
<1>4. CASE Active = {} /\ Go(p, [call[p] EXCEPT !.pc = "insert"])
  <2>1. PICK c \in Call : Go(p, c) /\ c.pc = "insert" /\ c.ticket = call[p].ticket
                         /\ c.proof = call[p].proof
    <3> DEFINE d == [call[p] EXCEPT !.pc = "insert"]
    <3>1. d \in Call /\ d.pc = "insert" /\ d.ticket = call[p].ticket /\ d.proof = call[p].proof
      BY Here DEF Call
    <3>2. Go(p, d)
      BY <1>4
    <3> HIDE DEF d
    <3> QED
      BY <3>1, <3>2
  <2> QED
    BY <1>2, <1>4, <2>1
<1>5. ASSUME NEW d \in Active, Go(p, Loaded([call[p] EXCEPT !.pc = "touch"], d))
      PROVE  FactorInv'
  <2>1. d \in Device /\ score \in Scores
    BY Here DEF Active
  <2> DEFINE e == [call[p] EXCEPT !.pc = "touch"]
  <2>2. e \in Call /\ e.pc = "touch" /\ e.ticket = call[p].ticket /\ e.proof = call[p].proof
    BY Here DEF Call
  <2>3. Go(p, Loaded(e, d))
    BY <1>5
  <2> HIDE DEF e
  <2> QED
    BY <1>2, <2>1, <2>2, <2>3, LoadedCall
<1> QED
  BY <1>3, <1>4, <1>5 DEF FindDevice

LEMMA TouchDeviceKeeps ==
  ASSUME FactorInv, NEW p \in Proc, TouchDevice(p)
  PROVE  FactorInv'
<1>1. PICK c \in Call : Go(p, c) /\ c.pc = "session" /\ c.ticket = call[p].ticket
                       /\ c.proof = call[p].proof
  <2> DEFINE d == [call[p] EXCEPT !.pc = "session", !.device = None, !.score = 0]
  <2>1. d \in Call /\ d.pc = "session" /\ d.ticket = call[p].ticket /\ d.proof = call[p].proof
    BY Here, SomeScores DEF Call
  <2>2. Go(p, d)
    BY DEF TouchDevice, Touched
  <2> HIDE DEF d
  <2> QED
    BY <2>1, <2>2
<1>2. Fits(p, c)
  BY <1>1 DEF TouchDevice, At, Fits, LoginPcs
<1>3. score' \in Scores
  BY Here, TouchedScore
<1> QED
  BY <1>1, <1>2, <1>3, QuietMove, Here DEF TouchDevice, Touched

\* The INSERT: refused once the device is there, and then one waits less.
LEMMA InsertDeviceKeeps ==
  ASSUME FactorInv, NEW p \in Proc, InsertDevice(p)
  PROVE  FactorInv'
<1> USE DEF FactorInv
<1>1. call[p].pc = "insert" /\ p \in Inserting
      /\ UNCHANGED <<mfa, codes, tickets, weak, uses>>
  BY DEF InsertDevice, At, Inserting
<1>2. PICK c \in Call :
        /\ Go(p, c)
        /\ c.ticket \in {None, call[p].ticket}
        /\ c = Idle \/ (c.pc = "session" /\ c.proof = call[p].proof)
        /\ \/ Active # {} /\ refused' = refused + 1 /\ UNCHANGED <<device, trusted, score>>
           \/ /\ Active = {} /\ refused' = refused
              /\ device' \in [Device -> {"none", "active", "revoked"}]
              /\ trusted' \subseteq Device /\ score' \in Scores
  <2>1. CASE Active # {}
    BY <2>1, IdleCall DEF InsertDevice
  <2>2. CASE Active = {}
    <3>1. PICK d \in Device :
            /\ device' = [device EXCEPT ![d] = "active"]
            /\ trusted' = trusted \ {d}
            /\ score' = [score EXCEPT ![d] = FirstScore]
            /\ Go(p, [call[p] EXCEPT !.pc = "session"])
            /\ UNCHANGED refused
      BY <2>2 DEF InsertDevice
    <3>2. PICK c \in Call : Go(p, c) /\ c.pc = "session" /\ c.ticket = call[p].ticket
                           /\ c.proof = call[p].proof
      <4> DEFINE e == [call[p] EXCEPT !.pc = "session"]
      <4>1. e \in Call /\ e.pc = "session" /\ e.ticket = call[p].ticket /\ e.proof = call[p].proof
        BY Here DEF Call
      <4>2. Go(p, e)
        BY <3>1
      <4> HIDE DEF e
      <4> QED
        BY <4>1, <4>2
    <3>3. device' \in [Device -> {"none", "active", "revoked"}] /\ trusted' \subseteq Device
          /\ score' \in Scores
      BY <3>1, SomeScores DEF TypeOK, Scores
    <3> QED
      BY <2>2, <3>1, <3>2, <3>3
  <2> QED
    BY <2>1, <2>2
<1>3. call'[p] = c /\ (\A q \in Proc \ {p} : call'[q] = call[q]) /\ call' \in [Proc -> Call]
  BY <1>2, Moved
<1>4. c.pc \in {"idle", "session"}
  BY <1>2, IdleCall
<1>5. TypeOK'
  BY <1>1, <1>2, <1>3 DEF TypeOK, Scores
<1>6. WeakInv'
  <2>1. Behind' \subseteq Behind
    BY <1>1, <1>2, <1>3, IdleCall DEF Behind, LoginPcs
  <2>2. Cardinality(Behind') <= Cardinality(Behind) /\ Cardinality(Behind') \in Nat
        /\ Cardinality(Behind) \in Nat
    BY <2>1, Fewer DEF Behind
  <2> QED
    BY <1>1, <2>2, ProcCount DEF WeakInv, TypeOK
<1>7. TicketInv'
  <2>1. \A q \in Proc : call'[q].pc # "claim" => call'[q].ticket \notin tickets'
    BY <1>1, <1>2, <1>3, NoneAssumption DEF TicketInv, TypeOK
  <2>2. ASSUME NEW t \in Ticket
        PROVE  uses'[t] + Cardinality(Holders(t)') <= Cardinality(Proc)
    <3>1. Holders(t)' \subseteq Holders(t)
      BY <1>2, <1>3, NoneAssumption DEF Holders
    <3>2. Cardinality(Holders(t)') <= Cardinality(Holders(t)) /\ Cardinality(Holders(t)') \in Nat
          /\ Cardinality(Holders(t)) \in Nat
      BY <3>1, Fewer DEF Holders
    <3>3. uses'[t] = uses[t] /\ uses[t] \in Nat
      BY <1>1 DEF TypeOK
    <3> QED
      BY <3>2, <3>3, ProcCount DEF TicketInv
  <2> QED
    BY <1>1, <2>1, <2>2 DEF TicketInv
<1>8. RefusalInv'
  <2>1. Inserting' \subseteq Inserting \ {p}
    BY <1>3, <1>4 DEF Inserting
  <2>2. Cardinality(Inserting') + 1 <= Cardinality(Inserting) /\ Cardinality(Inserting') \in Nat
        /\ Cardinality(Inserting) \in Nat /\ Cardinality(Inserting) <= Cardinality(Proc)
    <3>1. Inserting \subseteq Proc
      BY DEF Inserting
    <3> QED
      BY <1>1, <2>1, <3>1, OneFewer
  <2>3. CASE Active # {} /\ refused' = refused + 1 /\ UNCHANGED <<device, trusted, score>>
    <3>1. Active' = Active
      BY <2>3 DEF Active
    <3> QED
      BY <2>2, <2>3, <3>1, ProcCount DEF RefusalInv, TypeOK
  <2>4. CASE Active = {} /\ refused' = refused
    BY <2>2, <2>4, ProcCount DEF RefusalInv
  <2> QED
    BY <1>2, <2>3, <2>4
<1> QED
  BY <1>5, <1>6, <1>7, <1>8

\* createSession: what is counted now was waited for before.
LEMMA CompleteLoginKeeps ==
  ASSUME FactorInv, NEW p \in Proc, CompleteLogin(p)
  PROVE  FactorInv'
<1> USE DEF FactorInv
<1>1. call[p].pc = "session" /\ UNCHANGED <<mfa, codes, tickets, device, trusted, score, refused>>
  BY DEF CompleteLogin, At
<1>2. call'[p] = Idle /\ (\A q \in Proc \ {p} : call'[q] = call[q]) /\ call' \in [Proc -> Call]
  BY IdleCall, Moved DEF CompleteLogin
<1>3. weak' \in Nat /\ uses' \in [Ticket -> Nat]
  <2>1. weak' \in Nat
    BY DEF CompleteLogin, TypeOK
  <2>2. uses' \in [Ticket -> Nat]
    <3>1. uses \in [Ticket -> Nat]
      BY DEF TypeOK
    <3>2. CASE call[p].ticket = None
      BY <3>1, <3>2 DEF CompleteLogin
    <3>3. CASE call[p].ticket \in Ticket
      <4>1. uses' = [uses EXCEPT ![call[p].ticket] = @ + 1]
        BY <3>3, NoneAssumption DEF CompleteLogin
      <4>2. uses[call[p].ticket] + 1 \in Nat
        BY <3>1, <3>3
      <4> QED
        BY <3>1, <4>1, <4>2
    <3> QED
      BY <3>2, <3>3, Here
  <2> QED
    BY <2>1, <2>2
<1>4. TypeOK'
  BY <1>1, <1>2, <1>3 DEF TypeOK
<1>5. WeakInv'
  <2>1. CASE p \in Behind
    <3>1. Behind' \subseteq Behind \ {p}
      BY <1>1, <1>2, IdleCall DEF Behind, LoginPcs
    <3>2. Cardinality(Behind') + 1 <= Cardinality(Behind) /\ Cardinality(Behind') \in Nat
          /\ Cardinality(Behind) \in Nat
      <4>1. Behind \subseteq Proc
        BY DEF Behind
      <4> QED
        BY <2>1, <3>1, <4>1, OneFewer
    <3>3. weak' = weak + 1
      BY <2>1 DEF CompleteLogin, Behind
    <3> QED
      BY <3>2, <3>3, ProcCount DEF WeakInv, TypeOK
  <2>2. CASE p \notin Behind
    <3>1. Behind' \subseteq Behind
      BY <1>1, <1>2, IdleCall DEF Behind, LoginPcs
    <3>2. Cardinality(Behind') <= Cardinality(Behind) /\ Cardinality(Behind') \in Nat
          /\ Cardinality(Behind) \in Nat
      BY <3>1, Fewer DEF Behind
    <3>3. weak' = weak
      BY <1>1, <2>2 DEF CompleteLogin, Behind, LoginPcs
    <3> QED
      BY <3>2, <3>3, ProcCount DEF WeakInv, TypeOK
  <2> QED
    BY <2>1, <2>2
<1>6. TicketInv'
  <2>1. call[p].ticket \notin tickets
    BY <1>1 DEF TicketInv
  <2>2. \A t \in Ticket : t # call[p].ticket => uses'[t] = uses[t]
    BY DEF CompleteLogin, TypeOK
  <2>3. \A t \in tickets' : uses'[t] = 0
    BY <1>1, <2>1, <2>2 DEF TicketInv, TypeOK
  <2>4. \A q \in Proc : call'[q].pc # "claim" => call'[q].ticket \notin tickets'
    BY <1>1, <1>2, IdleCall, NoneAssumption DEF TicketInv, TypeOK
  <2>5. ASSUME NEW t \in Ticket
        PROVE  uses'[t] + Cardinality(Holders(t)') <= Cardinality(Proc)
    <3>1. CASE t = call[p].ticket
      <4>1. Holders(t)' \subseteq Holders(t) \ {p} /\ p \in Holders(t)
        BY <1>2, <3>1, IdleCall, NoneAssumption DEF Holders
      <4>2. Cardinality(Holders(t)') + 1 <= Cardinality(Holders(t)) /\ Cardinality(Holders(t)') \in Nat
            /\ Cardinality(Holders(t)) \in Nat
        <5>1. Holders(t) \subseteq Proc
          BY DEF Holders
        <5> QED
          BY <4>1, <5>1, OneFewer
      <4>3. uses'[t] = uses[t] + 1 /\ uses[t] \in Nat
        BY <3>1, NoneAssumption DEF CompleteLogin, TypeOK
      <4> QED
        BY <4>2, <4>3, ProcCount DEF TicketInv
    <3>2. CASE t # call[p].ticket
      <4>1. Holders(t)' \subseteq Holders(t)
        BY <1>2, IdleCall, NoneAssumption DEF Holders
      <4>2. Cardinality(Holders(t)') <= Cardinality(Holders(t)) /\ Cardinality(Holders(t)') \in Nat
            /\ Cardinality(Holders(t)) \in Nat
        BY <4>1, Fewer DEF Holders
      <4>3. uses'[t] = uses[t] /\ uses[t] \in Nat
        BY <2>2, <3>2 DEF TypeOK
      <4> QED
        BY <4>2, <4>3, ProcCount DEF TicketInv
    <3> QED
      BY <3>1, <3>2
  <2> QED
    BY <2>3, <2>4, <2>5 DEF TicketInv
<1>7. RefusalInv'
  <2>1. Inserting' = Inserting
    BY <1>1, <1>2, IdleCall DEF Inserting
  <2> QED
    BY <1>1, <2>1 DEF RefusalInv, Active
<1> QED
  BY <1>4, <1>5, <1>6, <1>7
\* findOne of trustDevice and revokeDevice; the row to save is remembered.
LEMMA StartKeeps ==
  ASSUME FactorInv, NEW p \in Proc, StartTrust(p) \/ StartRevoke(p)
  PROVE  FactorInv'
<1>1. PICK c \in Call : Go(p, c) /\ c.pc \in {"saveTrust", "saveRevoke"} /\ c.ticket = None
  <2>1. CASE StartRevoke(p)
    <3>1. PICK d \in Active : Go(p, [Idle EXCEPT !.pc = "saveRevoke", !.device = d])
      BY <2>1 DEF StartRevoke
    <3> DEFINE e == [Idle EXCEPT !.pc = "saveRevoke", !.device = d]
    <3>2. e \in Call /\ e.pc = "saveRevoke" /\ e.ticket = None
      BY SomeScores DEF Active, Idle, Call
    <3>3. Go(p, e)
      BY <3>1
    <3> HIDE DEF e
    <3> QED
      BY <3>2, <3>3
  <2>2. CASE StartTrust(p)
    <3>1. PICK d \in Active : Go(p, Loaded([Idle EXCEPT !.pc = "saveTrust"], d))
      BY <2>2 DEF StartTrust
    <3> DEFINE e == [Idle EXCEPT !.pc = "saveTrust"]
    <3>2. e \in Call /\ e.pc = "saveTrust" /\ e.ticket = None
      BY SomeScores DEF Idle, Call
    <3>3. Go(p, Loaded(e, d)) /\ d \in Device /\ score \in Scores
      BY <3>1, Here DEF Active
    <3> HIDE DEF e
    <3> QED
      BY <3>2, <3>3, LoadedCall
  <2> QED
    BY <2>1, <2>2
<1>2. Fits(p, c)
  BY <1>1 DEF Fits, LoginPcs
<1>3. UNCHANGED <<mfa, codes, tickets, device, trusted, score, weak, uses, refused>>
  BY DEF StartTrust, StartRevoke
<1> QED
  BY <1>1, <1>2, <1>3, QuietMove, Here

LEMMA SaveTrustKeeps ==
  ASSUME FactorInv, LoadedInv, NEW p \in Proc, SaveTrust(p)
  PROVE  FactorInv'
<1>1. call[p].device \in Device
  BY DEF SaveTrust, At, LoadedInv
<1>2. score' \in Scores
  BY Here, TrustedScore
<1> QED
  BY <1>1, <1>2, EndKeeps, Here DEF SaveTrust

\* Once a device is revoked the count of refusals starts anew.
LEMMA SaveRevokeKeeps ==
  ASSUME FactorInv, NEW p \in Proc, SaveRevoke(p)
  PROVE  FactorInv'
<1> USE DEF FactorInv
<1>1. call[p].pc = "saveRevoke" /\ refused' = 0 /\ Go(p, Idle)
      /\ device' = [device EXCEPT ![call[p].device] = "revoked"]
      /\ UNCHANGED <<mfa, codes, tickets, trusted, score, weak, uses>>
  BY DEF SaveRevoke, At
<1>2. call'[p] = Idle /\ (\A q \in Proc \ {p} : call'[q] = call[q]) /\ call' \in [Proc -> Call]
  BY <1>1, IdleCall, Moved
<1>3. TypeOK'
  BY <1>1, <1>2 DEF TypeOK
<1>4. WeakInv'
  <2>1. Behind' \subseteq Behind
    BY <1>1, <1>2, IdleCall DEF Behind, LoginPcs
  <2>2. Cardinality(Behind') <= Cardinality(Behind) /\ Cardinality(Behind') \in Nat
        /\ Cardinality(Behind) \in Nat
    BY <2>1, Fewer DEF Behind
  <2> QED
    BY <1>1, <2>2, ProcCount DEF WeakInv, TypeOK
<1>5. TicketInv'
  <2>1. \A q \in Proc : call'[q].pc # "claim" => call'[q].ticket \notin tickets'
    BY <1>1, <1>2, IdleCall, NoneAssumption DEF TicketInv, TypeOK
  <2>2. ASSUME NEW t \in Ticket
        PROVE  uses'[t] + Cardinality(Holders(t)') <= Cardinality(Proc)
    <3>1. Holders(t)' \subseteq Holders(t)
      BY <1>2, IdleCall, NoneAssumption DEF Holders
    <3>2. Cardinality(Holders(t)') <= Cardinality(Holders(t)) /\ Cardinality(Holders(t)') \in Nat
          /\ Cardinality(Holders(t)) \in Nat
      BY <3>1, Fewer DEF Holders
    <3>3. uses'[t] = uses[t] /\ uses[t] \in Nat
      BY <1>1 DEF TypeOK
    <3> QED
      BY <3>2, <3>3, ProcCount DEF TicketInv
  <2> QED
    BY <1>1, <2>1, <2>2 DEF TicketInv
<1>6. RefusalInv'
  <2>1. Inserting' \subseteq Proc \ {p}
    BY <1>2, IdleCall DEF Inserting
  <2>2. Cardinality(Inserting') + 1 <= Cardinality(Proc) /\ Cardinality(Inserting') \in Nat
    BY <2>1, OneFewer
  <2> QED
    BY <1>1, <2>2, ProcCount DEF RefusalInv
<1> QED
  BY <1>3, <1>4, <1>5, <1>6

LEMMA LoadedStep == FactorInv /\ LoadedInv /\ [Next]_vars => LoadedInv'
<1> SUFFICES ASSUME FactorInv, LoadedInv, [Next]_vars PROVE LoadedInv'
  OBVIOUS
<1>1. call \in [Proc -> Call]
  BY DEF FactorInv, TypeOK
<1>2. CASE EnableMfa \/ TicketExpires \/ UNCHANGED vars
  BY <1>2 DEF LoadedInv, EnableMfa, TicketExpires, vars
<1>3. ASSUME NEW p \in Proc,
             \/ Login(p) \/ SetTicket(p) \/ StartMfa(p) \/ ClaimTicket(p) \/ VerifyMfa(p)
             \/ \E c \in Code : TryBackupCode(p, c)
             \/ FindDevice(p) \/ TouchDevice(p) \/ InsertDevice(p) \/ CompleteLogin(p)
             \/ Devices(p) \/ Fail(p)
      PROVE  LoadedInv'
  <2>1. \A q \in Proc \ {p} : call'[q] = call[q]
    BY <1>1, <1>3 DEF Login, ProveTotp, SetTicket, StartMfa, ClaimTicket, VerifyMfa,
       TryBackupCode, FindDevice, TouchDevice, Touched, InsertDevice, CompleteLogin, Devices, StartTrust,
       SaveTrust, StartRevoke, SaveRevoke, Fail, Go
  <2>2. CASE call'[p].pc # "saveTrust"
    BY <2>1, <2>2 DEF LoadedInv
  <2>3. CASE call'[p] = Idle
    BY <2>2, <2>3, IdleCall
  <2>4. CASE Login(p)
    BY <1>1, <2>2, <2>4 DEF Login, ProveTotp, Go, Call, Idle
  <2>5. CASE StartMfa(p)
    BY <1>1, <2>2, <2>5 DEF StartMfa, Go, Idle
  <2>6. CASE ClaimTicket(p) \/ TouchDevice(p)
    <3>1. \/ Go(p, [call[p] EXCEPT !.pc = "loadMfa"])
          \/ Go(p, [call[p] EXCEPT !.pc = "session", !.device = None, !.score = 0])
      BY <2>6 DEF ClaimTicket, TouchDevice, Touched
    <3>2. [call[p] EXCEPT !.pc = "loadMfa"].pc = "loadMfa"
          /\ [call[p] EXCEPT !.pc = "session", !.device = None, !.score = 0].pc = "session"
      BY <1>1 DEF Call
    <3>3. call'[p] \in {[call[p] EXCEPT !.pc = "loadMfa"],
                        [call[p] EXCEPT !.pc = "session", !.device = None, !.score = 0]}
      BY <1>1, <3>1 DEF Go
    <3> QED
      BY <2>2, <3>2, <3>3
  <2>7. CASE VerifyMfa(p)
    BY <1>1, <2>2, <2>7 DEF VerifyMfa, ProveTotp, Go, Call
  <2>8. CASE \E c \in Code : TryBackupCode(p, c)
    <3>1. Go(p, Idle) \/ Go(p, [call[p] EXCEPT !.pc = "find", !.proof = mfa])
      BY <2>8, Zenon DEF TryBackupCode
    <3> QED
      BY <1>1, <2>2, <2>3, <3>1 DEF Go, Call
  <2>9. CASE FindDevice(p)
    BY <1>1, <2>2, <2>9 DEF FindDevice, Loaded, Go, Call
  <2>10. CASE InsertDevice(p)
    BY <1>1, <2>2, <2>3, <2>10 DEF InsertDevice, Go, Call
  <2>11. CASE StartRevoke(p)
    BY <1>1, <2>2, <2>11 DEF StartRevoke, Go, Idle
  <2>12. CASE StartTrust(p)
    <3>1. PICK d \in Active : Go(p, Loaded([Idle EXCEPT !.pc = "saveTrust"], d))
      BY <2>12 DEF StartTrust
    <3>2. call'[p].device \in Device
      BY <1>1, <3>1 DEF Go, Idle, Loaded, Active
    <3> QED
      BY <2>1, <3>2 DEF LoadedInv
  <2>13. CASE SetTicket(p) \/ CompleteLogin(p) \/ SaveTrust(p) \/ SaveRevoke(p) \/ Fail(p)
    BY <1>1, <2>3, <2>13 DEF SetTicket, CompleteLogin, SaveTrust, SaveRevoke, Fail, Go
  <2> QED
    BY <1>3, <2>4, <2>5, <2>6, <2>7, <2>8, <2>9, <2>10, <2>11, <2>12, <2>13 DEF Devices
<1> QED
  BY <1>2, <1>3 DEF Next

LEMMA FactorStep == FactorInv /\ LoadedInv /\ [Next]_vars => FactorInv'
<1> SUFFICES ASSUME FactorInv, LoadedInv, [Next]_vars PROVE FactorInv'
  OBVIOUS
<1>1. CASE EnableMfa
  BY <1>1, MfaKeeps
<1>2. CASE TicketExpires
  BY <1>2, TicketExpiresKeeps
<1>3. ASSUME NEW p \in Proc, Login(p) PROVE FactorInv'
  BY <1>3, LoginKeeps
<1>4. ASSUME NEW p \in Proc, SetTicket(p) PROVE FactorInv'
  BY <1>4, SetTicketKeeps
<1>5. ASSUME NEW p \in Proc, StartMfa(p) PROVE FactorInv'
  BY <1>5, StartMfaKeeps
<1>6. ASSUME NEW p \in Proc, ClaimTicket(p) PROVE FactorInv'
  BY <1>6, ClaimTicketKeeps
<1>7. ASSUME NEW p \in Proc, VerifyMfa(p) PROVE FactorInv'
  BY <1>7, VerifyMfaKeeps
<1>8. ASSUME NEW p \in Proc, NEW c \in Code, TryBackupCode(p, c) PROVE FactorInv'
  BY <1>8, TryBackupCodeKeeps
<1>9. ASSUME NEW p \in Proc, FindDevice(p) PROVE FactorInv'
  BY <1>9, FindDeviceKeeps
<1>10. ASSUME NEW p \in Proc, TouchDevice(p) PROVE FactorInv'
  BY <1>10, TouchDeviceKeeps
<1>11. ASSUME NEW p \in Proc, InsertDevice(p) PROVE FactorInv'
  BY <1>11, InsertDeviceKeeps
<1>12. ASSUME NEW p \in Proc, CompleteLogin(p) PROVE FactorInv'
  BY <1>12, CompleteLoginKeeps
<1>13. ASSUME NEW p \in Proc, Devices(p) PROVE FactorInv'
  BY <1>13, StartKeeps, SaveTrustKeeps, SaveRevokeKeeps DEF Devices
<1>14. ASSUME NEW p \in Proc, Fail(p) PROVE FactorInv'
  BY <1>14, EndKeeps, Here DEF Fail
<1>15. CASE UNCHANGED vars
  BY <1>15 DEF vars, FactorInv, TypeOK, WeakInv, TicketInv, RefusalInv, Behind, Holders,
               Inserting, Active
<1> QED
  BY <1>1, <1>2, <1>3, <1>4, <1>5, <1>6, <1>7, <1>8, <1>9, <1>10, <1>11, <1>12, <1>13,
     <1>14, <1>15 DEF Next

LEMMA FactorAlways == Spec => []FactorInv
<1>1. Init => LoadedInv
  BY IdleCall DEF Init, LoadedInv
<1> QED
  BY <1>1, FactorInit, FactorStep, LoadedStep, PTL DEF Spec

-----------------------------------------------------------------------------
(* The theorems.                                                           *)

\* Every variable keeps its type.
THEOREM FactorTypes == Spec => []TypeOK
<1>1. FactorInv => TypeOK
  BY DEF FactorInv
<1> QED
  BY <1>1, FactorAlways, PTL

\* Sessions without a code of the secret in force are those of logins in
\* flight when it was enabled (login and verifyMfaLogin load the row once).
THEOREM Weak == Spec => []WeakBound
<1>1. FactorInv => WeakBound
  <2> SUFFICES ASSUME FactorInv PROVE WeakBound
    OBVIOUS
  <2>1. Behind \subseteq Proc
    BY DEF Behind
  <2>2. Cardinality(Behind) \in Nat
    BY <2>1, Fewer
  <2> QED
    BY <2>2, ProcCount DEF FactorInv, TypeOK, WeakInv, WeakBound
<1> QED
  BY <1>1, FactorAlways, PTL

\* A temporary token completes no more logins than there are requests at
\* once, although getTempToken reads and deletes it in two commands.
THEOREM Tickets == Spec => []TicketBound
<1>1. FactorInv => TicketBound
  <2> SUFFICES ASSUME FactorInv, NEW t \in Ticket PROVE uses[t] <= Cardinality(Proc)
    BY DEF TicketBound
  <2>1. Holders(t) \subseteq Proc
    BY DEF Holders
  <2>2. Cardinality(Holders(t)) \in Nat
    BY <2>1, Fewer
  <2> QED
    BY <2>2, ProcCount DEF FactorInv, TypeOK, TicketInv
<1> QED
  BY <1>1, FactorAlways, PTL

\* registerDevice refuses fewer logins than there are requests at once
\* before the device is found: an inserted row ends the refusals.
THEOREM Refusals == Spec => []RefusalBound
<1>1. FactorInv => RefusalBound
  <2> SUFFICES ASSUME FactorInv PROVE RefusalBound
    OBVIOUS
  <2>1. Inserting \subseteq Proc
    BY DEF Inserting
  <2>2. Cardinality(Inserting) \in Nat
    BY <2>1, Fewer
  <2> QED
    BY <2>2, ProcCount DEF FactorInv, TypeOK, RefusalInv, RefusalBound
<1> QED
  BY <1>1, FactorAlways, PTL

\* A row stays firmly trusted while it keeps its level, and its score and the
\* scores that logins have read are those of a trusted device.
LEMMA StaysFirm ==
  ASSUME NEW d \in Device, FirmlyTrusted(d), d \in trusted', TrustAt <= score'[d],
         \A q \in Proc : call'[q].pc = "touch" =>
            call'[q] = call[q] \/ (call'[q].device = d => TrustAt <= Raised(call'[q].score))
  PROVE  FirmlyTrusted(d)'
  BY DEF FirmlyTrusted, IsTrusted, At

\* Logins and trusts save rows they read before: they take back neither a
\* revocation nor the level of a trust, and of a device that is trusted, once
\* the logins that read its row before have saved it, nor its score.  Only
\* registerDevice's INSERT starts a row anew.
THEOREM Marks == Spec => DeviceMarksStick
<1> DEFINE Sticks ==
      \A d \in Device :
         \/ device[d] = "revoked" /\ device'[d] # "revoked"
         \/ d \in trusted /\ d \notin trusted'
         \/ FirmlyTrusted(d) /\ ~FirmlyTrusted(d)'
         => \E p \in Proc : InsertDevice(p)
<1>1. ASSUME TypeOK, [Next]_vars PROVE [Sticks]_vars
  <2> USE <1>1
  <2>0. call \in [Proc -> Call] /\ trusted \subseteq Device /\ score \in Scores
    BY DEF TypeOK, Scores
  <2>1. ASSUME NEW p \in Proc, \A q \in Proc \ {p} : call'[q] = call[q],
               call'[p].pc # "touch", UNCHANGED <<trusted, score>>,
               \A d \in Device : device[d] = "revoked" => device'[d] = "revoked"
        PROVE  Sticks
    <3>1. ASSUME NEW d \in Device, FirmlyTrusted(d) PROVE FirmlyTrusted(d)'
      <4>1. d \in trusted' /\ TrustAt <= score'[d]
        BY <2>1, <3>1 DEF FirmlyTrusted, IsTrusted
      <4> QED
        BY <2>1, <3>1, <4>1, StaysFirm
    <3> QED
      BY <2>1, <3>1
  <2>2. ASSUME UNCHANGED <<device, trusted, score, call>> PROVE Sticks
    <3>1. ASSUME NEW d \in Device, FirmlyTrusted(d) PROVE FirmlyTrusted(d)'
      BY <2>2, <3>1 DEF FirmlyTrusted, IsTrusted, At
    <3> QED
      BY <2>2, <3>1
  <2>3. ASSUME NEW p \in Proc, NEW c, Go(p, c), c.pc # "touch",
               UNCHANGED <<device, trusted, score>>
        PROVE  Sticks
    BY <2>0, <2>1, <2>3 DEF Go
  <2>4. ASSUME NEW p \in Proc, FindDevice(p) PROVE Sticks
    <3>1. UNCHANGED <<device, trusted, score>>
      BY <2>4 DEF FindDevice
    <3>2. CASE \E pc \in {"session", "insert"} : Go(p, [call[p] EXCEPT !.pc = pc])
      <4>1. PICK pc \in {"session", "insert"} : Go(p, [call[p] EXCEPT !.pc = pc])
        BY <3>2
      <4>2. [call[p] EXCEPT !.pc = pc].pc # "touch"
        BY <2>0 DEF Call
      <4> QED
        BY <2>3, <3>1, <4>1, <4>2
    <3>3. ASSUME NEW e \in Active, Go(p, Loaded([call[p] EXCEPT !.pc = "touch"], e)) PROVE Sticks
      <4>1. [call[p] EXCEPT !.pc = "touch"] \in Call /\ e \in Device
        BY <2>0 DEF Call, Active
      <4>2. PICK c : Go(p, c) /\ c.device = e /\ c.score = score[e]
        BY <2>0, <3>3, <4>1, LoadedCall
      <4>3. call'[p] = c /\ \A q \in Proc \ {p} : call'[q] = call[q]
        BY <2>0, <4>2 DEF Go
      <4>4. ASSUME NEW d \in Device, FirmlyTrusted(d) PROVE FirmlyTrusted(d)'
        <5>1. d \in trusted' /\ TrustAt <= score'[d] /\ score[d] \in Score
              /\ TrustAt <= score[d]
          BY <2>0, <3>1, <4>4 DEF FirmlyTrusted, IsTrusted, Scores
        <5>2. call'[p].device = d => TrustAt <= Raised(call'[p].score)
          BY <4>2, <4>3, <5>1, RaisedScore
        <5> QED
          BY <4>3, <4>4, <5>1, <5>2, StaysFirm
      <4> QED
        BY <3>1, <4>4
    <3> QED
      BY <2>4, <3>2, <3>3 DEF FindDevice
  <2>5. ASSUME NEW p \in Proc, TouchDevice(p) PROVE Sticks
    <3>1. UNCHANGED <<device, trusted>> /\ call[p].pc = "touch"
      BY <2>5 DEF TouchDevice, Touched, At
    <3>2. call'[p].pc = "session" /\ \A q \in Proc \ {p} : call'[q] = call[q]
      <4>1. Go(p, [call[p] EXCEPT !.pc = "session", !.device = None, !.score = 0])
        BY <2>5 DEF TouchDevice, Touched
      <4> QED
        BY <2>0, <4>1 DEF Go, Call
    <3>3. ASSUME NEW d \in Device, FirmlyTrusted(d) PROVE FirmlyTrusted(d)'
      <4>1. d \in trusted' /\ TrustAt <= score[d]
            /\ (call[p].device = d => TrustAt <= Raised(call[p].score))
        BY <3>1, <3>3 DEF FirmlyTrusted, IsTrusted, At
      <4>2. TrustAt <= score'[d]
        BY <2>5, <4>1, TouchedScore
      <4> QED
        BY <3>2, <3>3, <4>1, <4>2, StaysFirm
    <3> QED
      BY <3>1, <3>3
  <2>6. ASSUME NEW p \in Proc, SaveTrust(p) PROVE Sticks
    <3>1. device' = device /\ trusted \subseteq trusted'
      BY <2>6 DEF SaveTrust
    <3>2. call'[p].pc = "idle" /\ \A q \in Proc \ {p} : call'[q] = call[q]
      BY <2>0, <2>6, IdleCall DEF SaveTrust, Go
    <3>3. ASSUME NEW d \in Device, FirmlyTrusted(d) PROVE FirmlyTrusted(d)'
      <4>1. d \in trusted' /\ TrustAt <= score[d]
        BY <3>1, <3>3 DEF FirmlyTrusted, IsTrusted
      <4>2. TrustAt <= score'[d]
        BY <2>6, <4>1, TrustedScore, ScoreAssumption
      <4> QED
        BY <3>2, <3>3, <4>1, <4>2, StaysFirm
    <3> QED
      BY <3>1, <3>3
  <2>7. ASSUME NEW p \in Proc, SaveRevoke(p) PROVE Sticks
    <3>1. UNCHANGED <<trusted, score>> /\ device' = [device EXCEPT ![call[p].device] = "revoked"]
          /\ Go(p, Idle)
      BY <2>7 DEF SaveRevoke
    <3>2. \A d \in Device : device[d] = "revoked" => device'[d] = "revoked"
      BY <3>1 DEF TypeOK
    <3>3. call'[p].pc # "touch" /\ \A q \in Proc \ {p} : call'[q] = call[q]
      BY <2>0, <3>1, IdleCall DEF Go
    <3> QED
      BY <2>1, <3>1, <3>2, <3>3
  <2>8. ASSUME NEW p \in Proc, Login(p) \/ VerifyMfa(p) PROVE Sticks
    <3>1. UNCHANGED <<device, trusted, score>>
      BY <2>8 DEF Login, VerifyMfa
    <3>2. \/ Go(p, [call[p] EXCEPT !.pc = "find", !.proof = mfa])
          \/ \E pc \in {"find", "challenge"} : Go(p, [Idle EXCEPT !.pc = pc])
      BY <2>8 DEF Login, VerifyMfa, ProveTotp
    <3>3. [call[p] EXCEPT !.pc = "find", !.proof = mfa].pc # "touch"
          /\ \A pc \in {"find", "challenge"} : [Idle EXCEPT !.pc = pc].pc # "touch"
      BY <2>0 DEF Call, Idle
    <3> QED
      BY <2>3, <3>1, <3>2, <3>3
  <2>9. ASSUME NEW p \in Proc, NEW b \in Code, TryBackupCode(p, b) PROVE Sticks
    <3>1. Go(p, Idle) \/ Go(p, [call[p] EXCEPT !.pc = "find", !.proof = mfa])
      BY <2>9, Zenon DEF TryBackupCode
    <3>2. UNCHANGED <<device, trusted, score>>
      BY <2>9 DEF TryBackupCode
    <3>3. [call[p] EXCEPT !.pc = "find", !.proof = mfa].pc # "touch"
      BY <2>0 DEF Call
    <3> QED
      BY <2>3, <3>1, <3>2, <3>3, IdleCall
  <2>10. ASSUME NEW p \in Proc, StartMfa(p) \/ ClaimTicket(p) PROVE Sticks
    <3>1. UNCHANGED <<device, trusted, score>>
      BY <2>10 DEF StartMfa, ClaimTicket
    <3>2. \/ \E t \in tickets : Go(p, [Idle EXCEPT !.pc = "claim", !.ticket = t])
          \/ Go(p, [call[p] EXCEPT !.pc = "loadMfa"])
      BY <2>10 DEF StartMfa, ClaimTicket
    <3>3. [call[p] EXCEPT !.pc = "loadMfa"].pc # "touch"
          /\ \A t : [Idle EXCEPT !.pc = "claim", !.ticket = t].pc # "touch"
      BY <2>0 DEF Call, Idle
    <3> QED
      BY <2>3, <3>1, <3>2, <3>3
  <2>11. ASSUME NEW p \in Proc, StartTrust(p) \/ StartRevoke(p) PROVE Sticks
    <3>1. UNCHANGED <<device, trusted, score>>
      BY <2>11 DEF StartTrust, StartRevoke
    <3>2. \E e : \/ Go(p, Loaded([Idle EXCEPT !.pc = "saveTrust"], e))
                 \/ Go(p, [Idle EXCEPT !.pc = "saveRevoke", !.device = e])
      BY <2>11 DEF StartTrust, StartRevoke
    <3>3. \A e : Loaded([Idle EXCEPT !.pc = "saveTrust"], e).pc # "touch"
               /\ [Idle EXCEPT !.pc = "saveRevoke", !.device = e].pc # "touch"
      BY DEF Loaded, Idle
    <3> QED
      BY <2>3, <3>1, <3>2, <3>3
  <2>12. ASSUME NEW p \in Proc, SetTicket(p) \/ CompleteLogin(p) \/ Fail(p) PROVE Sticks
    <3>1. UNCHANGED <<device, trusted, score>> /\ Go(p, Idle)
      BY <2>12 DEF SetTicket, CompleteLogin, Fail
    <3> QED
      BY <2>3, <3>1, IdleCall
  <2>13. ASSUME EnableMfa \/ TicketExpires \/ UNCHANGED vars PROVE Sticks
    BY <2>2, <2>13 DEF EnableMfa, TicketExpires, vars
  <2>14. ASSUME \E p \in Proc : InsertDevice(p) PROVE Sticks
    BY <2>14, Zenon
  <2>15. \/ EnableMfa \/ TicketExpires \/ UNCHANGED vars
         \/ \E p \in Proc : InsertDevice(p)
         \/ \E p \in Proc :
               \/ Login(p) \/ SetTicket(p) \/ StartMfa(p) \/ ClaimTicket(p) \/ VerifyMfa(p)
               \/ \E c \in Code : TryBackupCode(p, c)
               \/ FindDevice(p) \/ TouchDevice(p) \/ CompleteLogin(p) \/ Fail(p)
               \/ StartTrust(p) \/ SaveTrust(p) \/ StartRevoke(p) \/ SaveRevoke(p)
    BY Zenon DEF Next, Devices
  <2> HIDE DEF Sticks
  <2>16. Sticks
    BY <2>4, <2>5, <2>6, <2>7, <2>8, <2>9, <2>10, <2>11, <2>12, <2>13, <2>14, <2>15, Zenon
  <2> QED
    BY <2>16
<1> QED
  BY <1>1, FactorTypes, PTL DEF Spec, DeviceMarksStick
=============================================================================
