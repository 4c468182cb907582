--------------------------- MODULE LoginRiskProofs ---------------------------
(***************************************************************************)
(* For every number of logins in flight, places, limits and periods: the   *)
(* properties of LoginRisk.  What login concluded from the history it read *)
(* is right about that beginning of the history, whatever rows follow; so  *)
(* is a block about the attempts of a moment between the read and the row. *)
(***************************************************************************)
EXTENDS LoginRisk, FiniteSetTheorems, TLAPS

\* What follows speaks of a history h, and of a login or its row c.

\* A login at i of h, close in time and far in space.
IsTrip(h, i, c) ==
    /\ c.at - h[i].createdAt <= Travel
    /\ c.at - h[i].createdAt < Trip
    /\ h[i].place # c.place

\* Rows not older than row i have filled the limit of the query.
NewerIn(h, i, n) == {k \in 1..n : k # i /\ h[k].own /\ h[k].createdAt >= h[i].createdAt}

IsPushedOut(h, i, c) == Cardinality(NewerIn(h, i, c.upto)) >= Limit

TravelRight(h, c) == \A i \in 1..c.upto :
    /\ h[i].result = "success" /\ {h[i].place, c.place} \subseteq Place /\ IsTrip(h, i, c)
    => "travel" \in c.reasons \/ IsPushedOut(h, i, c)

CountryRight(h, c) == \A i \in 1..c.upto :
    /\ h[i].result = "success" /\ h[i].place = c.place
    /\ c.at - h[i].createdAt <= Pattern
    => "country" \notin c.reasons \/ IsPushedOut(h, i, c)

TravelJust(h, c) ==
    "travel" \in c.reasons => \E i \in 1..c.upto : h[i].result = "success" /\ IsTrip(h, i, c)

IsJudged(h, c) == TravelRight(h, c) /\ CountryRight(h, c) /\ TravelJust(h, c)

\* In the minute before t the first n rows have more attempts than pass.
AttemptsAt(h, n, t) == {i \in 1..n : h[i].createdAt \in (t - Rapid)..t}

IsCrowded(h, n, from, to) == \E t \in from..to : Few < Cardinality(AttemptsAt(h, n, t))

RiskTypes ==
    /\ now \in 0..MaxTime
    /\ history \in Seq(Row) /\ Len(history) <= MaxRows
    /\ call \in [Proc -> Call]

CallInv == \A p \in Proc :
    call[p].pc = "count" \/ (call[p].pc = "record" /\ call[p].result # "failed") =>
        /\ call[p].upto <= Len(history) /\ call[p].at <= now
        /\ IsJudged(history, call[p])
        /\ call[p].pc = "record" /\ call[p].result = "blocked" =>
              "travel" \in call[p].reasons \/ IsCrowded(history, Len(history), call[p].at, now)

RowInv == \A j \in 1..Len(history) :
    /\ history[j].createdAt <= now
    /\ history[j].result = "failed" => history[j].upto = 0
    /\ history[j].result # "failed" =>
          /\ history[j].own
          /\ history[j].upto <= j - 1 /\ history[j].at <= history[j].createdAt
          /\ IsJudged(history, history[j])
    /\ history[j].result = "blocked" =>
          \/ "travel" \in history[j].reasons
          \/ IsCrowded(history, j - 1, history[j].at, history[j].createdAt)

RiskInv == RiskTypes /\ CallInv /\ RowInv

-----------------------------------------------------------------------------
(* Numbers, rows and calls.                                                *)

LEMMA Numbers ==
  /\ Rapid \in Nat /\ Travel \in Nat /\ Trip \in Nat /\ Pattern \in Nat /\ MinLogins \in Nat
  /\ Few \in Nat /\ Many \in Nat /\ MaxTime \in Nat /\ MaxRows \in Nat
  /\ Limit \in Nat \ {0} /\ Rapid <= Travel /\ Travel <= Pattern /\ Few <= Many
  BY NumberAssumption

LEMMA IdleCall ==
  /\ Idle \in Call /\ Idle.pc = "idle" /\ Idle.result = "failed"
  BY Numbers DEF Idle, Call, Result

LEMMA Table ==
  ASSUME RiskTypes
  PROVE  /\ Rows = 1..Len(history) /\ Len(history) \in Nat /\ Len(history) <= MaxRows
         /\ now \in Nat /\ now <= MaxTime
         /\ \A i \in 1..Len(history) :
               /\ history[i] \in Row /\ history[i].createdAt \in Nat
               /\ history[i].upto \in Nat /\ history[i].at \in Nat
<1>1. history \in Seq(Row)
  BY DEF RiskTypes
<1>2. Rows = 1..Len(history) /\ Len(history) \in Nat /\ \A i \in 1..Len(history) : history[i] \in Row
  BY <1>1 DEF Rows
<1> QED
  BY <1>2, Numbers DEF RiskTypes, Row

LEMMA Callers ==
  ASSUME RiskTypes, NEW p \in Proc
  PROVE  /\ call[p] \in Call /\ call[p].pc \in {"idle", "count", "record"}
         /\ call[p].place \in Place \cup {Nowhere} /\ call[p].reasons \in SUBSET Reason
         /\ call[p].upto \in 0..MaxRows /\ call[p].at \in 0..MaxTime
         /\ call[p].result \in Result
  BY DEF RiskTypes, Call

-----------------------------------------------------------------------------
(* What a beginning of the history shows, a longer history shows.          *)

LEMMA JudgedKept ==
  ASSUME NEW h, NEW g, NEW c, NEW d,
         d.place = c.place, d.reasons = c.reasons, d.upto = c.upto, d.at = c.at,
         \A k \in 1..c.upto : g[k] = h[k],
         IsJudged(h, c)
  PROVE  IsJudged(g, d)
<1>1. ASSUME NEW i \in 1..c.upto
      PROVE  (IsPushedOut(g, i, d) <=> IsPushedOut(h, i, c)) /\ (IsTrip(g, i, d) <=> IsTrip(h, i, c))
  <2>1. NewerIn(g, i, d.upto) = NewerIn(h, i, c.upto)
    BY <1>1 DEF NewerIn
  <2> QED
    BY <1>1, <2>1 DEF IsPushedOut, IsTrip
<1>2. TravelRight(g, d)
  BY <1>1 DEF IsJudged, TravelRight
<1>3. CountryRight(g, d)
  BY <1>1 DEF IsJudged, CountryRight
<1>4. TravelJust(g, d)
  BY <1>1 DEF IsJudged, TravelJust
<1> QED
  BY <1>2, <1>3, <1>4 DEF IsJudged

LEMMA AttemptsFinite ==
  ASSUME NEW h, NEW n \in Nat, NEW t
  PROVE  IsFiniteSet(AttemptsAt(h, n, t)) /\ Cardinality(AttemptsAt(h, n, t)) \in Nat
<1>1. IsFiniteSet(1..n)
  BY FS_Interval
<1>2. AttemptsAt(h, n, t) \subseteq 1..n
  BY DEF AttemptsAt
<1> QED
  BY <1>1, <1>2, FS_Subset, FS_CardinalityType

LEMMA CrowdedKept ==
  ASSUME NEW h, NEW g, NEW n \in Nat, NEW m \in Nat, n <= m, \A k \in 1..n : g[k] = h[k],
         NEW from \in Int, NEW to \in Int, NEW later \in Int, to <= later,
         IsCrowded(h, n, from, to)
  PROVE  IsCrowded(g, m, from, later)
<1>1. PICK t \in from..to : Few < Cardinality(AttemptsAt(h, n, t))
  BY DEF IsCrowded
<1>2. AttemptsAt(h, n, t) \subseteq AttemptsAt(g, m, t)
  BY DEF AttemptsAt
<1>3. /\ Cardinality(AttemptsAt(h, n, t)) \in Nat /\ Cardinality(AttemptsAt(g, m, t)) \in Nat
      /\ Cardinality(AttemptsAt(h, n, t)) <= Cardinality(AttemptsAt(g, m, t))
  BY <1>2, AttemptsFinite, FS_Subset
<1>4. Few < Cardinality(AttemptsAt(g, m, t))
  BY <1>1, <1>3, Numbers
<1>5. t \in from..later
  OBVIOUS
<1> QED
  BY <1>4, <1>5 DEF IsCrowded

-----------------------------------------------------------------------------
(* Steps.                                                                  *)

LEMMA RiskInit == Init => RiskInv
<1> SUFFICES ASSUME Init PROVE RiskInv
  OBVIOUS
<1>1. history = <<>> /\ Len(history) = 0 /\ \A p \in Proc : call[p] = Idle
  BY DEF Init
<1>2. history \in Seq(Row)
  BY <1>1
<1> QED
  BY <1>1, <1>2, IdleCall, Numbers DEF Init, RiskInv, RiskTypes, CallInv, RowInv

\* A login moves and inserts nothing.
LEMMA MoveKeeps ==
  ASSUME RiskInv, NEW p \in Proc, NEW c \in Call, Go(p, c), UNCHANGED <<now, history>>,
         c.pc = "count" \/ (c.pc = "record" /\ c.result # "failed") =>
             /\ c.upto <= Len(history) /\ c.at <= now
             /\ IsJudged(history, c)
             /\ c.pc = "record" /\ c.result = "blocked" =>
                   "travel" \in c.reasons \/ IsCrowded(history, Len(history), c.at, now)
  PROVE  RiskInv'
<1>1. call'[p] = c /\ (\A q \in Proc \ {p} : call'[q] = call[q]) /\ call' \in [Proc -> Call]
  BY DEF Go, RiskInv, RiskTypes
<1>2. RiskTypes' /\ RowInv'
  BY <1>1 DEF RiskInv, RiskTypes, RowInv
<1>3. CallInv'
  BY <1>1 DEF RiskInv, CallInv
<1> QED
  BY <1>2, <1>3 DEF RiskInv

\* getRecentLogins leaves out a row only for Limit others, none of them older.
LEMMA PushedOut ==
  ASSUME RiskInv, NEW S \in SUBSET Since, Recent(S), NEW i \in Since \ S,
         NEW c, c.upto = Len(history)
  PROVE  IsPushedOut(history, i, c)
<1> DEFINE n == Len(history)
           N == NewerIn(history, i, n)
<1>1. Rows = 1..n /\ n \in Nat
  BY Table DEF RiskInv
<1>2. IsFiniteSet(Since) /\ IsFiniteSet(N)
  <2>1. IsFiniteSet(1..n)
    BY <1>1, FS_Interval
  <2>2. Since \subseteq 1..n /\ N \subseteq 1..n
    BY <1>1 DEF Since, NewerIn
  <2> QED
    BY <2>1, <2>2, FS_Subset
<1>3. Cardinality(S) # Cardinality(Since)
  BY <1>2, FS_Subset
<1>4. Cardinality(S) = Limit
  BY <1>3 DEF Recent
<1>5. S \subseteq N
  <2> SUFFICES ASSUME NEW k \in S PROVE k \in N
    OBVIOUS
  <2>1. k \in 1..n /\ k # i /\ history[k].own
    BY <1>1 DEF Since
  <2>2. history[k].createdAt >= history[i].createdAt
    BY DEF Recent
  <2> QED
    BY <2>1, <2>2 DEF NewerIn
<1>6. Cardinality(S) <= Cardinality(N)
  BY <1>2, <1>5, FS_Subset
<1> QED
  BY <1>4, <1>6, <1>2, Numbers, FS_CardinalityType DEF IsPushedOut

LEMMA ReadHistoryKeeps ==
  ASSUME RiskInv, NEW p \in Proc, NEW place \in Place \cup {Nowhere}, ReadHistory(p, place)
  PROVE  RiskInv'
<1> USE DEF RiskInv
<1>1. PICK S \in SUBSET Since :
        /\ Recent(S)
        /\ Go(p, [Idle EXCEPT !.pc = "count", !.place = place,
                    !.logins = Cardinality(S \cap Successes), !.upto = Len(history), !.at = now,
                    !.reasons = {r \in Reason :
                                    \/ r = "travel"  /\ Travelled(place, S \cap Successes)
                                    \/ r = "country" /\ NewCountry(place, S \cap Successes)}])
  BY DEF ReadHistory
<1> DEFINE seen == S \cap Successes
           c == [Idle EXCEPT !.pc = "count", !.place = place,
                    !.logins = Cardinality(seen), !.upto = Len(history), !.at = now,
                    !.reasons = {r \in Reason : \/ r = "travel"  /\ Travelled(place, seen)
                                                \/ r = "country" /\ NewCountry(place, seen)}]
<1>2. Go(p, c) /\ UNCHANGED <<now, history>>
  BY <1>1 DEF ReadHistory
<1>3. Rows = 1..Len(history) /\ Len(history) \in 0..MaxRows /\ now \in 0..MaxTime
  BY Table DEF RiskTypes
<1>4. Cardinality(seen) \in 0..Limit
  <2>1. IsFiniteSet(1..Len(history)) /\ Since \subseteq 1..Len(history)
    BY <1>3, FS_Interval DEF Since
  <2>2. IsFiniteSet(Since) /\ IsFiniteSet(S) /\ seen \subseteq S
    BY <2>1, FS_Subset
  <2>3. IsFiniteSet(seen) /\ Cardinality(seen) <= Cardinality(S)
    BY <2>2, FS_Subset
  <2>4. Cardinality(seen) \in Nat /\ Cardinality(S) \in Nat /\ Cardinality(Since) \in Nat
    BY <2>2, <2>3, FS_CardinalityType
  <2>5. Cardinality(S) <= Limit
    BY <1>1, <2>4, Numbers DEF Recent
  <2> QED
    BY <2>3, <2>4, <2>5, Numbers
<1>5. /\ c \in Call /\ c.pc = "count" /\ c.place = place /\ c.upto = Len(history) /\ c.at = now
      /\ "travel" \in c.reasons <=> Travelled(place, seen)
      /\ "country" \in c.reasons <=> NewCountry(place, seen)
  <2> DEFINE R == {r \in Reason : \/ r = "travel"  /\ Travelled(place, seen)
                                  \/ r = "country" /\ NewCountry(place, seen)}
  <2>1. /\ R \in SUBSET Reason
        /\ ("travel" \in R) <=> Travelled(place, seen)
        /\ ("country" \in R) <=> NewCountry(place, seen)
    BY DEF Reason
  <2> HIDE DEF R, seen
  <2>2. c = [Idle EXCEPT !.pc = "count", !.place = place,
                    !.logins = Cardinality(seen), !.upto = Len(history), !.at = now,
                    !.reasons = R]
    BY DEF R
  <2> HIDE DEF c
  <2> QED
    BY <1>3, <1>4, <2>1, <2>2 DEF Idle, Call, Result
<1> HIDE DEF c
<1>6. ASSUME NEW i \in 1..c.upto, history[i].result = "success",
             now - history[i].createdAt <= Pattern
      PROVE  i \in seen \/ IsPushedOut(history, i, c)
  <2>1. i \in 1..Len(history) /\ history[i].own /\ history[i].createdAt \in Nat
    BY <1>5, <1>6, Table DEF RowInv
  <2>2. i \in Since /\ i \in Successes
    BY <1>3, <1>6, <2>1, Numbers DEF Since, Successes
  <2> QED
    BY <1>1, <1>5, <2>2, PushedOut
<1>7. TravelRight(history, c)
  <2> SUFFICES ASSUME NEW i \in 1..c.upto, history[i].result = "success",
                      {history[i].place, c.place} \subseteq Place, IsTrip(history, i, c),
                      ~IsPushedOut(history, i, c)
               PROVE  Travelled(place, seen)
    BY <1>5 DEF TravelRight
  <2>1. history[i].createdAt \in Nat /\ now \in Nat
    BY <1>5, Table
  <2>2. now - history[i].createdAt <= Travel /\ now - history[i].createdAt < Trip
        /\ history[i].place # place
    BY <1>5 DEF IsTrip
  <2>3. i \in seen
    BY <1>6, <2>1, <2>2, Numbers
  <2> QED
    BY <1>5, <2>2, <2>3, NowhereAssumption DEF Travelled
<1>8. CountryRight(history, c)
  BY <1>5, <1>6 DEF CountryRight, NewCountry
<1>9. TravelJust(history, c)
  <2> SUFFICES ASSUME Travelled(place, seen)
               PROVE  \E i \in 1..c.upto : history[i].result = "success" /\ IsTrip(history, i, c)
    BY <1>5 DEF TravelJust
  <2>1. PICK i \in seen :
          /\ history[i].place \notin {Nowhere, place}
          /\ now - history[i].createdAt <= Travel
          /\ now - history[i].createdAt < Trip
    BY DEF Travelled
  <2>2. i \in 1..c.upto /\ history[i].result = "success"
    BY <1>3, <1>5 DEF Successes
  <2> QED
    BY <1>5, <2>1, <2>2 DEF IsTrip
<1>10. c.upto <= Len(history) /\ c.at <= now
  BY <1>3, <1>5
<1> QED
  BY <1>2, <1>5, <1>7, <1>8, <1>9, <1>10, MoveKeeps DEF IsJudged

\* Without travel and a crowded minute the score stays below the block.
LEMMA BlockIsDue ==
  ASSUME NEW reasons, NEW hour \in BOOLEAN, NEW device \in BOOLEAN, NEW agent \in BOOLEAN,
         Attempts \in Nat, Blocks(Score(reasons, hour, device, agent)),
         "travel" \notin reasons
  PROVE  Few < Attempts
<1> SUFFICES ASSUME ~(Few < Attempts) PROVE FALSE
  OBVIOUS
<1>1. ~(Attempts > Few) /\ ~(Attempts > Many)
  BY Numbers
<1>2. Score(reasons, hour, device, agent) <= 70
  BY <1>1 DEF Score
<1>3. Score(reasons, hour, device, agent) \in Int
  BY DEF Score
<1> QED
  BY <1>2, <1>3 DEF Blocks

LEMMA CountAttemptsKeeps ==
  ASSUME RiskInv, NEW p \in Proc, CountAttempts(p)
  PROVE  RiskInv'
<1> USE DEF RiskInv
<1>1. PICK hour \in BOOLEAN, device \in BOOLEAN, agent \in BOOLEAN, r \in Result :
        /\ r = "blocked" <=> Blocks(Score(call[p].reasons, hour, device, agent))
        /\ Go(p, IF r = "failed" THEN [Idle EXCEPT !.pc = "record"]
                 ELSE [call[p] EXCEPT !.pc = "record", !.result = r, !.logins = 0])
  BY DEF CountAttempts
<1>2. call[p].pc = "count" /\ UNCHANGED <<now, history>>
  BY DEF CountAttempts, At
<1>3. CASE r = "failed"
  <2> DEFINE d == [Idle EXCEPT !.pc = "record"]
  <2>1. d \in Call /\ d.pc = "record" /\ d.result = "failed"
    BY Numbers DEF Idle, Call, Result
  <2>2. Go(p, d)
    BY <1>1, <1>3
  <2> HIDE DEF d
  <2> QED
    BY <1>2, <2>1, <2>2, MoveKeeps
<1>4. CASE r # "failed"
  <2> DEFINE d == [call[p] EXCEPT !.pc = "record", !.result = r, !.logins = 0]
  <2>1. /\ d \in Call /\ d.pc = "record" /\ d.result = r /\ d.place = call[p].place
        /\ d.reasons = call[p].reasons /\ d.upto = call[p].upto /\ d.at = call[p].at
    <3>1. call[p] \in Call /\ 0 \in 0..Limit
      BY Callers, Numbers
    <3> QED
      BY <3>1 DEF Call
  <2>2. Go(p, d)
    BY <1>1, <1>4
  <2> HIDE DEF d
  <2>3. call[p].upto <= Len(history) /\ call[p].at <= now /\ IsJudged(history, call[p])
    BY <1>2 DEF CallInv
  <2>4. IsJudged(history, d)
    BY <2>1, <2>3, JudgedKept
  <2>5. ASSUME r = "blocked", "travel" \notin call[p].reasons
        PROVE  IsCrowded(history, Len(history), call[p].at, now)
    <3>1. Attempts = Cardinality(AttemptsAt(history, Len(history), now))
      <4>1. \A i \in 1..Len(history) : history[i].createdAt >= now - Rapid
                                          <=> history[i].createdAt \in (now - Rapid)..now
        BY Table, Numbers DEF RowInv
      <4> QED
        BY <4>1, Table DEF Attempts, AttemptsAt
    <3>2. Attempts \in Nat
      BY <3>1, Table, AttemptsFinite
    <3>3. Few < Attempts
      BY <1>1, <2>5, <3>2, BlockIsDue
    <3>4. now \in call[p].at..now
      BY <2>3, Callers, Table, Numbers
    <3> QED
      BY <3>1, <3>3, <3>4 DEF IsCrowded
  <2> QED
    BY <1>2, <2>1, <2>2, <2>3, <2>4, <2>5, MoveKeeps
<1> QED
  BY <1>3, <1>4

LEMMA FailKeeps ==
  ASSUME RiskInv, NEW p \in Proc, Fail(p)
  PROVE  RiskInv'
  BY IdleCall, MoveKeeps DEF Fail

\* A row is inserted that is right about the beginning its login has read.
LEMMA AppendKeeps ==
  ASSUME RiskInv, NEW row \in Row, history' = Append(history, row), Len(history) < MaxRows,
         now' = now, call' \in [Proc -> Call],
         \A p \in Proc : call'[p] \in {call[p], Idle},
         row.createdAt = now,
         row.result = "failed" => row.upto = 0,
         row.result # "failed" => /\ row.own /\ row.upto <= Len(history) /\ row.at <= now
                                  /\ IsJudged(history, row),
         row.result = "blocked" => \/ "travel" \in row.reasons
                                   \/ IsCrowded(history, Len(history), row.at, now)
  PROVE  RiskInv'
<1> USE DEF RiskInv
<1> DEFINE n == Len(history)
<1>1. n \in Nat /\ history \in Seq(Row)
  BY Table DEF RiskTypes
<1>2. history' \in Seq(Row) /\ Len(history') = n + 1 /\ history'[n + 1] = row
      /\ \A i \in 1..n : history'[i] = history[i]
  BY <1>1
<1>3. RiskTypes'
  BY <1>1, <1>2, Numbers DEF RiskTypes
<1>4. ASSUME NEW c, NEW u \in Nat, c.upto = u, u <= n, IsJudged(history, c) PROVE IsJudged(history', c)
  <2>1. \A k \in 1..c.upto : history'[k] = history[k]
    BY <1>1, <1>2, <1>4
  <2> QED
    BY <1>4, <2>1, JudgedKept
<1>5. ASSUME NEW m \in Nat, m <= n, NEW k \in Nat, m <= k,
             NEW from \in Int, NEW to \in Int, IsCrowded(history, m, from, to)
      PROVE  IsCrowded(history', k, from, to)
  <2>1. \A i \in 1..m : history'[i] = history[i]
    BY <1>1, <1>2, <1>5
  <2>2. to <= to
    OBVIOUS
  <2> QED
    BY <1>5, <2>1, <2>2, CrowdedKept
<1>6. CallInv'
  <2> SUFFICES ASSUME NEW p \in Proc,
                      call'[p].pc = "count" \/ (call'[p].pc = "record" /\ call'[p].result # "failed")
               PROVE  /\ call'[p].upto <= n + 1 /\ call'[p].at <= now
                      /\ IsJudged(history', call'[p])
                      /\ call'[p].pc = "record" /\ call'[p].result = "blocked" =>
                            \/ "travel" \in call'[p].reasons
                            \/ IsCrowded(history', n + 1, call'[p].at, now)
    BY <1>2 DEF CallInv
  <2>1. call'[p] = call[p]
    BY IdleCall
  <2>2. /\ call[p].upto <= n /\ call[p].at <= now /\ IsJudged(history, call[p])
        /\ call[p].pc = "record" /\ call[p].result = "blocked" =>
              "travel" \in call[p].reasons \/ IsCrowded(history, n, call[p].at, now)
    BY <2>1 DEF CallInv
  <2>3. call[p].upto \in Nat /\ call[p].at \in Int /\ now \in Int
    BY Callers, Table, Numbers
  <2>4. IsJudged(history', call[p])
    BY <1>4, <2>2, <2>3
  <2>5. IsCrowded(history, n, call[p].at, now) => IsCrowded(history', n + 1, call[p].at, now)
    <3> SUFFICES ASSUME IsCrowded(history, n, call[p].at, now)
                 PROVE  IsCrowded(history', n + 1, call[p].at, now)
      OBVIOUS
    <3>1. n <= n /\ n + 1 \in Nat /\ n <= n + 1
      BY <1>1
    <3> QED
      BY <1>1, <1>5, <2>3, <3>1
  <2> QED
    BY <1>1, <2>1, <2>2, <2>3, <2>4, <2>5
<1>7. RowInv'
  <2> DEFINE Good(j) ==
        /\ history'[j].createdAt <= now
        /\ history'[j].result = "failed" => history'[j].upto = 0
        /\ history'[j].result # "failed" =>
              /\ history'[j].own
              /\ history'[j].upto <= j - 1 /\ history'[j].at <= history'[j].createdAt
              /\ IsJudged(history', history'[j])
        /\ history'[j].result = "blocked" =>
              \/ "travel" \in history'[j].reasons
              \/ IsCrowded(history', j - 1, history'[j].at, history'[j].createdAt)
  <2>1. Good(n + 1)
    <3>1. row.upto \in Nat /\ row.at \in Int /\ now \in Int /\ n + 1 - 1 = n
      BY <1>1, Table, Numbers DEF Row
    <3>2. row.result # "failed" => IsJudged(history', row)
      BY <1>4, <3>1
    <3>3. IsCrowded(history, n, row.at, now) => IsCrowded(history', n, row.at, now)
      <4> SUFFICES ASSUME IsCrowded(history, n, row.at, now)
                   PROVE  IsCrowded(history', n, row.at, now)
        OBVIOUS
      <4>1. n <= n
        BY <1>1
      <4> QED
        BY <1>1, <1>5, <3>1, <4>1
    <3> QED
      BY <1>2, <3>1, <3>2, <3>3
  <2>2. ASSUME NEW j \in 1..n PROVE Good(j)
    <3>1. history'[j] = history[j]
      BY <1>2
    <3>2. /\ history[j].createdAt <= now
          /\ history[j].result = "failed" => history[j].upto = 0
          /\ history[j].result # "failed" =>
                /\ history[j].own
                /\ history[j].upto <= j - 1 /\ history[j].at <= history[j].createdAt
                /\ IsJudged(history, history[j])
          /\ history[j].result = "blocked" =>
                \/ "travel" \in history[j].reasons
                \/ IsCrowded(history, j - 1, history[j].at, history[j].createdAt)
      BY DEF RowInv
    <3>3. /\ history[j].upto \in Nat /\ history[j].at \in Int /\ history[j].createdAt \in Int
          /\ j - 1 \in Nat /\ j - 1 <= n
      BY <1>1, Table
    <3>4. history[j].result # "failed" => IsJudged(history', history[j])
      BY <1>1, <1>4, <3>2, <3>3
    <3>5. IsCrowded(history, j - 1, history[j].at, history[j].createdAt)
             => IsCrowded(history', j - 1, history[j].at, history[j].createdAt)
      <4> SUFFICES ASSUME IsCrowded(history, j - 1, history[j].at, history[j].createdAt)
                   PROVE  IsCrowded(history', j - 1, history[j].at, history[j].createdAt)
        OBVIOUS
      <4>1. j - 1 <= j - 1
        BY <3>3
      <4> QED
        BY <1>5, <3>3, <4>1
    <3> QED
      BY <3>1, <3>2, <3>4, <3>5
  <2>3. \A j \in 1..(n + 1) : Good(j)
    BY <1>1, <2>1, <2>2
  <2> QED
    BY <1>2, <2>3 DEF RowInv
<1> QED
  BY <1>3, <1>6, <1>7

LEMMA FailureRow ==
  ASSUME RiskTypes, NEW own \in BOOLEAN
  PROVE  /\ Failure(own) \in Row /\ Failure(own).createdAt = now
         /\ Failure(own).result = "failed" /\ Failure(own).upto = 0
  BY Numbers DEF RiskTypes, Failure, Row, Result

LEMMA RecordFailureKeeps ==
  ASSUME RiskInv, NEW own \in BOOLEAN, RecordFailure(own)
  PROVE  RiskInv'
<1>1. history' = Append(history, Failure(own)) /\ Len(history) < MaxRows
      /\ now' = now /\ call' = call
  BY DEF RecordFailure
<1>2. call' \in [Proc -> Call]
  BY <1>1 DEF RiskInv, RiskTypes
<1>3. /\ Failure(own) \in Row /\ Failure(own).createdAt = now
      /\ Failure(own).result = "failed" /\ Failure(own).upto = 0
  BY FailureRow DEF RiskInv
<1> QED
  BY <1>1, <1>2, <1>3, AppendKeeps

LEMMA RecordKeeps ==
  ASSUME RiskInv, NEW p \in Proc, Record(p)
  PROVE  RiskInv'
<1> USE DEF RiskInv
<1> DEFINE row == [createdAt |-> now, result |-> call[p].result, own |-> TRUE,
                   place |-> call[p].place, reasons |-> call[p].reasons,
                   upto |-> call[p].upto, at |-> call[p].at]
<1>1. call[p].pc = "record" /\ Len(history) < MaxRows /\ now' = now /\ Go(p, Idle)
      /\ history' = Append(history, IF call[p].result = "failed" THEN Failure(TRUE) ELSE row)
  BY DEF Record, At
<1>2. call' \in [Proc -> Call] /\ \A q \in Proc : call'[q] \in {call[q], Idle}
  BY <1>1, IdleCall DEF Go, RiskTypes
<1>3. CASE call[p].result = "failed"
  <2>1. /\ Failure(TRUE) \in Row /\ Failure(TRUE).createdAt = now
        /\ Failure(TRUE).result = "failed" /\ Failure(TRUE).upto = 0
    BY FailureRow
  <2> QED
    BY <1>1, <1>2, <1>3, <2>1, AppendKeeps
<1>4. CASE call[p].result # "failed"
  <2>1. /\ row \in Row /\ row.createdAt = now /\ row.result = call[p].result /\ row.own
        /\ row.place = call[p].place /\ row.reasons = call[p].reasons
        /\ row.upto = call[p].upto /\ row.at = call[p].at
    BY Callers DEF Row, RiskTypes
  <2>2. history' = Append(history, row)
    BY <1>1, <1>4
  <2> HIDE DEF row
  <2>3. /\ call[p].upto <= Len(history) /\ call[p].at <= now
        /\ IsJudged(history, call[p])
        /\ call[p].result = "blocked" =>
              "travel" \in call[p].reasons \/ IsCrowded(history, Len(history), call[p].at, now)
    BY <1>1, <1>4 DEF CallInv
  <2>4. IsJudged(history, row)
    BY <2>1, <2>3, JudgedKept
  <2> QED
    BY <1>1, <1>2, <1>4, <2>1, <2>2, <2>3, <2>4, AppendKeeps
<1> QED
  BY <1>3, <1>4

LEMMA TickKeeps ==
  ASSUME RiskInv, Tick
  PROVE  RiskInv'
<1> USE DEF RiskInv
<1>1. now' = now + 1 /\ now' <= MaxTime /\ UNCHANGED <<history, call>> /\ now \in Nat
      /\ Len(history) \in Nat
  BY Table, Numbers DEF Tick
<1>2. RiskTypes'
  BY <1>1, Numbers DEF RiskTypes
<1>3. CallInv'
  <2> SUFFICES ASSUME NEW p \in Proc,
                      call[p].pc = "count" \/ (call[p].pc = "record" /\ call[p].result # "failed")
               PROVE  /\ call[p].upto <= Len(history) /\ call[p].at <= now'
                      /\ IsJudged(history, call[p])
                      /\ call[p].pc = "record" /\ call[p].result = "blocked" =>
                            \/ "travel" \in call[p].reasons
                            \/ IsCrowded(history, Len(history), call[p].at, now')
    BY <1>1 DEF CallInv
  <2>1. /\ call[p].upto <= Len(history) /\ call[p].at <= now
        /\ IsJudged(history, call[p])
        /\ call[p].pc = "record" /\ call[p].result = "blocked" =>
              "travel" \in call[p].reasons \/ IsCrowded(history, Len(history), call[p].at, now)
    BY DEF CallInv
  <2>2. call[p].at \in Int /\ now \in Int /\ now' \in Int /\ now <= now' /\ Len(history) <= Len(history)
    BY <1>1, Callers
  <2>3. IsCrowded(history, Len(history), call[p].at, now)
           => IsCrowded(history, Len(history), call[p].at, now')
    <3> SUFFICES ASSUME IsCrowded(history, Len(history), call[p].at, now)
                 PROVE  IsCrowded(history, Len(history), call[p].at, now')
      OBVIOUS
    <3>1. PICK t \in call[p].at..now : Few < Cardinality(AttemptsAt(history, Len(history), t))
      BY DEF IsCrowded
    <3>2. t \in call[p].at..now'
      BY <2>2
    <3> QED
      BY <3>1, <3>2 DEF IsCrowded
  <2> QED
    BY <2>1, <2>2, <2>3
<1>4. RowInv'
  <2>1. \A j \in 1..Len(history) : history[j].createdAt <= now'
    BY <1>1, Table DEF RowInv
  <2> QED
    BY <1>1, <2>1 DEF RowInv
<1> QED
  BY <1>2, <1>3, <1>4

LEMMA RiskStep == RiskInv /\ [Next]_vars => RiskInv'
<1> SUFFICES ASSUME RiskInv, [Next]_vars PROVE RiskInv'
  OBVIOUS
<1>1. CASE Tick
  BY <1>1, TickKeeps
<1>2. ASSUME NEW own \in BOOLEAN, RecordFailure(own) PROVE RiskInv'
  BY <1>2, RecordFailureKeeps
<1>3. ASSUME NEW p \in Proc,
             \/ \E place \in Place \cup {Nowhere} : ReadHistory(p, place)
             \/ CountAttempts(p) \/ Record(p) \/ Fail(p)
      PROVE  RiskInv'
  BY <1>3, ReadHistoryKeeps, CountAttemptsKeeps, RecordKeeps, FailKeeps
<1>4. CASE UNCHANGED vars
  BY <1>4 DEF vars, RiskInv, RiskTypes, CallInv, RowInv
<1> QED
  BY <1>1, <1>2, <1>3, <1>4 DEF Next

LEMMA RiskAlways == Spec => []RiskInv
  BY RiskInit, RiskStep, PTL DEF Spec

-----------------------------------------------------------------------------
(* The theorems.                                                           *)

\* The history and the locals of logins keep their types; in particular no more
\* successful logins are read than the query's limit.
THEOREM RiskTyped == Spec => []TypeOK
<1>1. RiskInv => TypeOK
  BY DEF RiskInv, RiskTypes, TypeOK
<1> QED
  BY <1>1, RiskAlways, PTL

LEMMA NewerIs == \A i, n : Newer(i, n) = NewerIn(history, i, n)
  BY DEF Newer, NewerIn

\* checkImpossibleTravel, on a history that grows meanwhile: two logins too far
\* apart for the time between them are marked, unless attempts filled the limit.
THEOREM TravelIsMarked == Spec => []TravelMarked
<1>1. RiskInv => TravelMarked
  <2> SUFFICES ASSUME RiskInv, NEW i \in Successes, NEW j \in Successes,
                      i <= history[j].upto,
                      {history[i].place, history[j].place} \subseteq Place,
                      history[i].place # history[j].place,
                      history[j].createdAt - history[i].createdAt <= Travel,
                      history[j].createdAt - history[i].createdAt < Trip
               PROVE  "travel" \in history[j].reasons
                      \/ Cardinality(Newer(i, history[j].upto)) >= Limit
    BY DEF TravelMarked
  <2>1. i \in 1..Len(history) /\ j \in 1..Len(history)
        /\ history[i].result = "success" /\ history[j].result = "success"
    BY Table DEF RiskInv, Successes
  <2>2. history[j].at <= history[j].createdAt /\ TravelRight(history, history[j])
    BY <2>1 DEF RiskInv, RowInv, IsJudged
  <2>3. /\ history[j].at \in Nat /\ history[j].createdAt \in Nat /\ history[i].createdAt \in Nat
        /\ history[j].upto \in Nat
    BY <2>1, Table DEF RiskInv
  <2>4. i \in 1..history[j].upto /\ IsTrip(history, i, history[j])
    BY <2>1, <2>2, <2>3, Numbers DEF IsTrip
  <2> QED
    BY <2>1, <2>2, <2>4, NewerIs DEF TravelRight, IsPushedOut
<1> QED
  BY <1>1, RiskAlways, PTL

\* checkNewCountry: the country of a login read is called new only where
\* attempts since have filled the limit.
THEOREM FamiliarIsNotNew == Spec => []FamiliarCountry
<1>1. RiskInv => FamiliarCountry
  <2> SUFFICES ASSUME RiskInv, NEW i \in Successes, NEW j \in Rows,
                      i <= history[j].upto,
                      history[i].place = history[j].place,
                      history[j].createdAt - history[i].createdAt <= Pattern
               PROVE  "country" \notin history[j].reasons
                      \/ Cardinality(Newer(i, history[j].upto)) >= Limit
    BY DEF FamiliarCountry
  <2>1. i \in 1..Len(history) /\ j \in 1..Len(history) /\ history[i].result = "success"
    BY Table DEF RiskInv, Successes
  <2>2. /\ history[j].at \in Nat /\ history[j].createdAt \in Nat /\ history[i].createdAt \in Nat
        /\ history[j].upto \in Nat
    BY <2>1, Table DEF RiskInv
  <2>3. history[j].result # "failed"
    BY <2>1, <2>2 DEF RiskInv, RowInv
  <2>4. history[j].at <= history[j].createdAt /\ CountryRight(history, history[j])
    BY <2>1, <2>3 DEF RiskInv, RowInv, IsJudged
  <2>5. i \in 1..history[j].upto /\ history[j].at - history[i].createdAt <= Pattern
    BY <2>1, <2>2, <2>4, Numbers
  <2> QED
    BY <2>1, <2>4, <2>5, NewerIs DEF CountryRight, IsPushedOut
<1> QED
  BY <1>1, RiskAlways, PTL

\* The score of analyzeLogin: hour, device, agent and country never block a
\* login without recent travel or a crowded minute.
THEOREM PatientPasses == Spec => []PatientNotBlocked
<1>1. RiskInv => PatientNotBlocked
  <2> SUFFICES ASSUME RiskInv, NEW j \in Rows, history[j].result = "blocked"
               PROVE  \/ \E i \in Successes :
                            /\ i <= history[j].upto
                            /\ history[i].place # history[j].place
                            /\ history[j].at - history[i].createdAt <= Travel
                            /\ history[j].at - history[i].createdAt < Trip
                      \/ \E t \in history[j].at..history[j].createdAt :
                            Few < Cardinality({i \in 1..(j - 1) :
                                                  history[i].createdAt \in (t - Rapid)..t})
    BY DEF PatientNotBlocked
  <2>1. j \in 1..Len(history) /\ Len(history) \in Nat /\ history[j].upto \in Nat
    BY Table DEF RiskInv
  <2>2. /\ history[j].upto <= j - 1 /\ TravelJust(history, history[j])
        /\ \/ "travel" \in history[j].reasons
           \/ IsCrowded(history, j - 1, history[j].at, history[j].createdAt)
    BY <2>1 DEF RiskInv, RowInv, IsJudged
  <2>3. CASE "travel" \in history[j].reasons
    <3>1. PICK i \in 1..history[j].upto :
            history[i].result = "success" /\ IsTrip(history, i, history[j])
      BY <2>2, <2>3 DEF TravelJust
    <3>2. i \in Successes /\ i <= history[j].upto
      BY <2>1, <2>2, <3>1, Table DEF Successes, RiskInv
    <3> QED
      BY <3>1, <3>2 DEF IsTrip
  <2>4. CASE IsCrowded(history, j - 1, history[j].at, history[j].createdAt)
    BY <2>4 DEF IsCrowded, AttemptsAt
  <2> QED
    BY <2>2, <2>3, <2>4
<1> QED
  BY <1>1, RiskAlways, PTL
=============================================================================
