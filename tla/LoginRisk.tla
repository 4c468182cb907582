------------------------------ MODULE LoginRisk ------------------------------
(***************************************************************************)
(* The login history of one user and the risk score that login derives     *)
(* from it (src/services/AnomalyDetector.ts: analyzeLogin and its checks,  *)
(* recordLoginAttempt; src/services/AuthService.ts: login).                *)
(*                                                                         *)
(* A login whose password was right reads the history, counts the attempts *)
(* of the last minute, decides, and inserts its row later; other attempts  *)
(* insert theirs in between.  An action is one statement and the code up   *)
(* to the next.  What the score takes from outside the history (the hour,  *)
(* the device, the user agent) is a choice.  verifyMfaLogin inserts no row *)
(* and is not here.                                                        *)
(***************************************************************************)
EXTENDS Integers, FiniteSets, Sequences

CONSTANTS
    Proc,       \* logins of the user in flight
    Place,      \* where an address can be; each place is a country of its own
    Nowhere,    \* an address geoip does not know
    Rapid,      \* the minute of checkRapidAttempts, in ticks
    Travel,     \* IMPOSSIBLE_TRAVEL_HOURS, in ticks
    Trip,       \* ticks of the trip between two places at 500 km/h
    Pattern,    \* PATTERN_ANALYSIS_DAYS, in ticks
    Limit,      \* rows that getRecentLogins reads at most
    MinLogins,  \* logins that checkUnusualHour needs
    Few, Many,  \* attempts a minute that checkRapidAttempts lets pass
    MaxTime, MaxRows  \* bounds of the clock and of the history

ASSUME NowhereAssumption == Nowhere \notin Place
ASSUME NumberAssumption ==
    /\ {Rapid, Travel, Trip, Pattern, MinLogins, Few, Many, MaxTime, MaxRows} \subseteq Nat
    /\ Limit \in Nat \ {0}
    /\ Rapid <= Travel /\ Travel <= Pattern /\ Few <= Many

VARIABLES
    now,      \* the clock of the replicas and of the database
    history,  \* rows of login_history that concern the user, as inserted
    call      \* the locals of each login in flight

vars == <<now, history, call>>

\* The reasons taken from the history, which a row keeps; the others only count.
Reason == {"travel", "country"}

\* FAILED_SUSPICIOUS_ACTIVITY is "blocked", every other failure "failed": asked
\* for a code, wrong code, wrong password, locked, not verified, expired.
Result == {"success", "blocked", "failed"}

Idle == [pc |-> "idle", place |-> Nowhere, logins |-> 0, upto |-> 0, at |-> 0, reasons |-> {},
         result |-> "failed"]

Call == [pc      : {"idle", "count", "record"},
         place   : Place \cup {Nowhere},
         logins  : 0..Limit,              \* number of successful logins it has read
         upto    : 0..MaxRows,            \* length of the history it has read
         at      : 0..MaxTime,            \* when it read it
         reasons : SUBSET Reason,
         result  : Result]

\* upto and at are history variables, for the properties: what the login had
\* read of the history, and when.
Row == [createdAt : 0..MaxTime,
        result    : Result,
        own       : BOOLEAN,              \* whether user_id is set
        place     : Place \cup {Nowhere},
        reasons   : SUBSET Reason,        \* anomaly_reasons
        upto      : 0..MaxRows,
        at        : 0..MaxTime]

TypeOK ==
    /\ now \in 0..MaxTime
    /\ history \in Seq(Row) /\ Len(history) <= MaxRows
    /\ call \in [Proc -> Call]

-----------------------------------------------------------------------------

Go(p, c) == call' = [call EXCEPT ![p] = c]

At(p, pc) == call[p].pc = pc

Init ==
    /\ now = 0
    /\ history = <<>>
    /\ call = [p \in Proc |-> Idle]

Rows == DOMAIN history

Successes == {i \in Rows : history[i].result = "success"}

\* The user's rows of the last days, before the limit.
Since == {i \in Rows : history[i].own /\ history[i].createdAt >= now - Pattern}

\* Mutant: without the limit.
RecentUnlimited(S) == S = Since

\* Mutant: the oldest rows first.
RecentAscending(S) ==
    /\ Cardinality(S) = IF Limit < Cardinality(Since) THEN Limit ELSE Cardinality(Since)
    /\ \A i \in S, j \in Since \ S : history[i].createdAt <= history[j].createdAt

\* S can be the answer to getRecentLogins; rows of one moment come in any order.
Recent(S) ==
    /\ Cardinality(S) = IF Limit < Cardinality(Since) THEN Limit ELSE Cardinality(Since)
    /\ \A i \in S, j \in Since \ S : history[i].createdAt >= history[j].createdAt

-----------------------------------------------------------------------------
(* analyzeLogin                                                            *)

\* checkImpossibleTravel: a login elsewhere that recently, and too far.
Travelled(place, seen) ==
    /\ place # Nowhere
    /\ \E i \in seen :
          /\ history[i].place \notin {Nowhere, place}
          /\ now - history[i].createdAt <= Travel
          /\ now - history[i].createdAt < Trip

\* checkNewCountry
NewCountry(place, seen) == place # Nowhere /\ \A i \in seen : history[i].place # place

\* findAll, and the checks that look at what it read.
ReadHistory(p, place) ==
    /\ At(p, "idle") /\ Len(history) < MaxRows
    /\ \E S \in SUBSET Since :
          /\ Recent(S)
          /\ LET seen == S \cap Successes
             IN  Go(p, [Idle EXCEPT !.pc = "count", !.place = place, !.logins = Cardinality(seen),
                        !.upto = Len(history), !.at = now,
                        !.reasons = {r \in Reason : \/ r = "travel"  /\ Travelled(place, seen)
                                                    \/ r = "country" /\ NewCountry(place, seen)}])
    /\ UNCHANGED <<now, history>>

\* checkRapidAttempts counts every attempt for the e-mail or from the address.
Attempts == Cardinality({i \in Rows : history[i].createdAt >= now - Rapid})

Score(reasons, hour, device, agent) ==
    LET points(n, if) == IF if THEN n ELSE 0
    IN    points(50, "travel" \in reasons) + points(25, "country" \in reasons)
        + points(15, hour) + points(10, device) + points(20, agent)
        + points(20, Attempts > Few) + points(20, Attempts > Many)

\* Mutant: the threshold of the challenge is taken for the one of the block.
BlocksChallenged(score) == score >= 40

Blocks(score) == score >= 80

\* The count, the score, and what login makes of it: a login not blocked may
\* still fail for want of a code, or a wrong one.
CountAttempts(p) ==
    /\ At(p, "count")
    /\ \E hour, device, agent \in BOOLEAN, r \in Result :
          /\ hour => call[p].logins >= MinLogins
          /\ r = "blocked" <=> Blocks(Score(call[p].reasons, hour, device, agent))
          /\ Go(p, IF r = "failed" THEN [Idle EXCEPT !.pc = "record"]
                   ELSE [call[p] EXCEPT !.pc = "record", !.result = r, !.logins = 0])
    /\ UNCHANGED <<now, history>>

-----------------------------------------------------------------------------
(* recordLoginAttempt                                                      *)

\* The row of a failure: of its columns, only when and whether of the user is read.
Failure(own) == [createdAt |-> now, result |-> "failed", own |-> own, place |-> Nowhere,
                 reasons |-> {}, upto |-> 0, at |-> 0]

\* Only a success and a block come with the reasons.
Record(p) ==
    /\ At(p, "record") /\ Len(history) < MaxRows
    /\ history' = Append(history,
                         IF call[p].result = "failed" THEN Failure(TRUE)
                         ELSE [createdAt |-> now, result |-> call[p].result, own |-> TRUE,
                               place |-> call[p].place, reasons |-> call[p].reasons,
                               upto |-> call[p].upto, at |-> call[p].at])
    /\ Go(p, Idle)
    /\ UNCHANGED now

\* An attempt that fails before it is judged; one refused by the rate limit has
\* no user.
RecordFailure(own) ==
    /\ Len(history) < MaxRows
    /\ history' = Append(history, Failure(own))
    /\ UNCHANGED <<now, call>>

\* A statement rejects or the replica dies: the row is not inserted.
Fail(p) ==
    /\ ~At(p, "idle")
    /\ Go(p, Idle)
    /\ UNCHANGED <<now, history>>

Tick ==
    /\ now < MaxTime
    /\ now' = now + 1
    /\ UNCHANGED <<history, call>>

Next ==
    \/ Tick
    \/ \E own \in BOOLEAN : RecordFailure(own)
    \/ \E p \in Proc :
          \/ \E place \in Place \cup {Nowhere} : ReadHistory(p, place)
          \/ CountAttempts(p) \/ Record(p) \/ Fail(p)

Spec == Init /\ [][Next]_vars
-----------------------------------------------------------------------------
(* Properties.                                                             *)

\* Rows of the user that a login which read the history up to j can have read
\* instead of row i.
Newer(i, j) == {k \in 1..j : k # i /\ history[k].own /\ history[k].createdAt >= history[i].createdAt}

\* Two logins from different places that are closer in time than the trip
\* between them: the later carries the mark, unless it read the history before
\* the earlier was inserted, or attempts since have filled the limit.
TravelMarked ==
    \A i, j \in Successes :
        /\ i <= history[j].upto
        /\ {history[i].place, history[j].place} \subseteq Place
        /\ history[i].place # history[j].place
        /\ history[j].createdAt - history[i].createdAt <= Travel
        /\ history[j].createdAt - history[i].createdAt < Trip
        => "travel" \in history[j].reasons \/ Cardinality(Newer(i, history[j].upto)) >= Limit

\* A country from which the user has logged in within the last days is called
\* new only where attempts since, of anybody, have filled the limit.
FamiliarCountry ==
    \A i \in Successes, j \in Rows :
        /\ i <= history[j].upto
        /\ history[i].place = history[j].place
        /\ history[j].createdAt - history[i].createdAt <= Pattern
        => "country" \notin history[j].reasons \/ Cardinality(Newer(i, history[j].upto)) >= Limit

\* A user who lets the minute of the last attempts pass, and the hours after a
\* login from elsewhere, is not blocked, from whatever place, hour, device and
\* agent: a blocked login has one or the other in the history.
PatientNotBlocked ==
    \A j \in Rows : history[j].result = "blocked" =>
        \/ \E i \in Successes :
              /\ i <= history[j].upto
              /\ history[i].place # history[j].place
              /\ history[j].at - history[i].createdAt <= Travel
              /\ history[j].at - history[i].createdAt < Trip
        \/ \E t \in history[j].at..history[j].createdAt :
              Few < Cardinality({i \in 1..(j - 1) : history[i].createdAt \in (t - Rapid)..t})
=============================================================================
