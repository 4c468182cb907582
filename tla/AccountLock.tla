---------------------------- MODULE AccountLock ----------------------------
(***************************************************************************)
(* The two brute-force locks of one account: the attempt record in Redis   *)
(* (RateLimiter.ts) and the counter in the row of users (models/User.ts),  *)
(* as the login and verifyMfaLogin requests of every replica drive them.   *)
(*                                                                         *)
(* Both are read in one command and written in another, with awaits in     *)
(* between; a row is saved from an instance loaded before the password was *)
(* compared, and save() writes only the columns whose value changed since. *)
(* No clock: a lock, a delay or a time to live may end at any moment.  The *)
(* checks that stop a login without touching this state (blocked IP, email *)
(* not verified, password expired, anomaly) are choices to stop.           *)
(***************************************************************************)
EXTENDS LostUpdates, Requests

CONSTANTS
    Max,           \* config.security.maxLoginAttempts
    FreeAttempts,  \* the attempts config.progressiveDelay asks no delay for
    Ticket         \* the temporary tokens of a login that asks for an MFA code

ASSUME NumberAssumption == Max \in Nat \ {0} /\ FreeAttempts \in 0 .. Max - 1
ASSUME ProcAssumption == IsFiniteSet(Proc)

VARIABLES
    attempts,  \* login_attempts:<email>: count (0: no key), lockedUntil
    row,       \* users: failedLoginAttempts, lockedUntil
    tickets,   \* temporary tokens alive in Redis
    guesses    \* wrong passwords compared since the last success or end of a lock
               \* (a history variable: those of requests that died are taken back)

vars == <<attempts, row, tickets, guesses, call>>

\* lockedUntil: null, in the future or in the past.
Lock == {"none", "active", "past"}

NoTicket == "no ticket"

Idle == [pc |-> "idle", failed |-> 0, locked |-> FALSE, n |-> 0, ticket |-> NoTicket]

\* What a request does next, the row it has loaded, the count it has read.
Call == [pc     : {"idle", "check", "load", "verify", "count", "store", "save",
                   "clear", "reset", "challenge", "claim", "loadMfa"},
         failed : 0 .. Max,
         locked : BOOLEAN,
         n      : 0 .. Max,
         ticket : Ticket \cup {NoTicket}]

TypeOK ==
    /\ attempts \in [count : 0 .. Max, lock : Lock]
    /\ attempts.lock # "none" <=> attempts.count = Max
    /\ row \in [failed : 0 .. Max, lock : Lock]
    /\ tickets \subseteq Ticket
    /\ guesses \in Nat
    /\ call \in [Proc -> Call]

-----------------------------------------------------------------------------

\* A counter is compared with 0, FreeAttempts and Max: beyond, values are alike.
Incremented(n) == IF n < Max THEN n + 1 ELSE n

NoAttempts == [count |-> 0, lock |-> "none"]

Init ==
    /\ attempts = NoAttempts
    /\ row = [failed |-> 0, lock |-> "none"]
    /\ tickets = {}
    /\ guesses = 0
    /\ call = [p \in Proc |-> Idle]

-----------------------------------------------------------------------------
(* login                                                                   *)

StartLogin(p) ==
    /\ At(p, "idle")
    /\ Go(p, [Idle EXCEPT !.pc = "check"])
    /\ UNCHANGED <<attempts, row, tickets, guesses>>

\* checkLoginAttempt: the delay since the last attempt may not be over.
CheckAttempts(p) ==
    /\ At(p, "check")
    /\ \/ attempts.lock # "active" /\ Go(p, [Idle EXCEPT !.pc = "load"])
       \/ (attempts.lock = "active" \/ attempts.count > FreeAttempts) /\ Go(p, Idle)
    /\ UNCHANGED <<attempts, row, tickets, guesses>>

\* The instance of the row a request works on from here on.
Loaded(pc) == [Idle EXCEPT !.pc = pc, !.failed = row.failed, !.locked = row.lock # "none"]

\* Mutant: the row's own lock is not looked at.
LoadUserUnlocked(p) ==
    /\ At(p, "load")
    /\ Go(p, Loaded("verify"))
    /\ UNCHANGED <<attempts, row, tickets, guesses>>

\* User.findOne and isLocked.
LoadUser(p) ==
    /\ At(p, "load")
    /\ Go(p, IF row.lock = "active" THEN Idle ELSE Loaded("verify"))
    /\ UNCHANGED <<attempts, row, tickets, guesses>>

WrongPassword(p) ==
    /\ At(p, "verify")
    /\ guesses' = guesses + 1
    /\ Go(p, [call[p] EXCEPT !.pc = "count"])
    /\ UNCHANGED <<attempts, row, tickets>>

\* The password is right: a later check refuses the login, or an MFA code is
\* asked for, or the login goes on.
RightPassword(p) ==
    /\ At(p, "verify")
    /\ Go(p, Idle) \/ \E pc \in {"challenge", "clear"} : Go(p, [call[p] EXCEPT !.pc = pc])
    /\ UNCHANGED <<attempts, row, tickets, guesses>>

-----------------------------------------------------------------------------
(* recordFailedLogin, then incrementFailedAttempts.                        *)

CountAttempts(p) ==
    /\ At(p, "count")
    /\ Go(p, [call[p] EXCEPT !.pc = "store", !.n = attempts.count])
    /\ UNCHANGED <<attempts, row, tickets, guesses>>

\* Mutant: the lock is set only once the limit is exceeded.
StoreAttemptsLate(p) ==
    /\ At(p, "store")
    /\ LET count == Incremented(call[p].n)
       IN  attempts' = [count |-> count, lock |-> IF count > Max THEN "active" ELSE "none"]
    /\ Go(p, [call[p] EXCEPT !.pc = "save", !.n = 0])
    /\ UNCHANGED <<row, tickets, guesses>>

StoreAttempts(p) ==
    /\ At(p, "store")
    /\ LET count == Incremented(call[p].n)
       IN  attempts' = [count |-> count, lock |-> IF count >= Max THEN "active" ELSE "none"]
    /\ Go(p, [call[p] EXCEPT !.pc = "save", !.n = 0])
    /\ UNCHANGED <<row, tickets, guesses>>

\* Mutant: save() writes every column of the loaded instance.
SaveFailureRow(p) ==
    /\ At(p, "save")
    /\ LET failed == Incremented(call[p].failed)
       IN  row' = [failed |-> failed,
                   lock   |-> CASE failed >= Max   -> "active"
                                [] call[p].locked  -> "past"
                                [] OTHER           -> "none"]
    /\ Go(p, Idle)
    /\ UNCHANGED <<attempts, tickets, guesses>>

SaveFailure(p) ==
    /\ At(p, "save")
    /\ LET failed == Incremented(call[p].failed)
       IN  row' = [failed |-> failed, lock |-> IF failed >= Max THEN "active" ELSE row.lock]
    /\ Go(p, Idle)
    /\ UNCHANGED <<attempts, tickets, guesses>>

-----------------------------------------------------------------------------
(* clearLoginAttempts, then resetFailedAttempts.                           *)

ClearAttempts(p) ==
    /\ At(p, "clear")
    /\ attempts' = NoAttempts
    /\ Go(p, [call[p] EXCEPT !.pc = "reset"])
    /\ UNCHANGED <<row, tickets, guesses>>

\* A column that is null or 0 in the loaded instance already is not written.
ResetRow(p) ==
    /\ At(p, "reset")
    /\ row' = [failed |-> IF call[p].failed # 0 THEN 0 ELSE row.failed,
               lock   |-> IF call[p].locked THEN "none" ELSE row.lock]
    /\ guesses' = 0
    /\ Go(p, Idle)
    /\ UNCHANGED <<attempts, tickets>>

-----------------------------------------------------------------------------
(* An MFA code is asked for, and verifyMfaLogin completes the login.       *)

SetTicket(p) ==
    /\ At(p, "challenge")
    /\ \E t \in Ticket \ tickets :
          /\ \A q \in Proc : call[q].ticket # t
          /\ tickets' = tickets \cup {t}
    /\ Go(p, Idle)
    /\ UNCHANGED <<attempts, row, guesses>>

\* getTempToken: the GET,
StartMfa(p) ==
    /\ At(p, "idle")
    /\ \E t \in tickets : Go(p, [Idle EXCEPT !.pc = "claim", !.ticket = t])
    /\ UNCHANGED <<attempts, row, tickets, guesses>>

\* and the DEL, whatever the code turns out to be.
ClaimTicket(p) ==
    /\ At(p, "claim")
    /\ tickets' = tickets \ {call[p].ticket}
    /\ Go(p, [Idle EXCEPT !.pc = "loadMfa"])
    /\ UNCHANGED <<attempts, row, guesses>>

\* User.findByPk, without a look at the lock; a wrong code ends the request.
LoadMfaUser(p) ==
    /\ At(p, "loadMfa")
    /\ Go(p, Idle) \/ Go(p, Loaded("clear"))
    /\ UNCHANGED <<attempts, row, tickets, guesses>>

-----------------------------------------------------------------------------
(* Time.                                                                   *)

RowLockEnds ==
    /\ row.lock = "active"
    /\ row' = [row EXCEPT !.lock = "past"]
    /\ guesses' = 0
    /\ UNCHANGED <<attempts, tickets, call>>

\* The key outlives its lockedUntil: its time to live starts later.
AttemptsLockEnds ==
    /\ attempts.lock = "active"
    /\ attempts' = [attempts EXCEPT !.lock = "past"]
    /\ UNCHANGED <<row, tickets, guesses, call>>

AttemptsExpire ==
    /\ attempts.count # 0 /\ attempts.lock # "active"
    /\ attempts' = NoAttempts
    /\ UNCHANGED <<row, tickets, guesses, call>>

TicketExpires ==
    /\ \E t \in tickets : tickets' = tickets \ {t}
    /\ UNCHANGED <<attempts, row, guesses, call>>

\* A statement rejects or the replica dies: the rest is not run.
Fail(p) ==
    /\ CanFail /\ ~At(p, "idle")
    /\ guesses' = IF call[p].pc \in {"count", "store", "save"} /\ guesses > 0
                  THEN guesses - 1 ELSE guesses
    /\ Go(p, Idle)
    /\ UNCHANGED <<attempts, row, tickets>>

Next ==
    \/ RowLockEnds \/ AttemptsLockEnds \/ AttemptsExpire \/ TicketExpires
    \/ \E p \in Proc :
          \/ StartLogin(p) \/ CheckAttempts(p) \/ LoadUser(p)
          \/ WrongPassword(p) \/ RightPassword(p)
          \/ CountAttempts(p) \/ StoreAttempts(p) \/ SaveFailure(p)
          \/ ClearAttempts(p) \/ ResetRow(p)
          \/ SetTicket(p) \/ StartMfa(p) \/ ClaimTicket(p) \/ LoadMfaUser(p)
          \/ Fail(p)

Spec == Init /\ [][Next]_vars
-----------------------------------------------------------------------------
(* Properties.                                                             *)

\* Requests that loaded the row before the others saved theirs set the counter
\* back (lost updates), so that more than Max passwords can be compared before
\* the account is locked: with P requests in flight, a request that keeps an
\* old count lets the P-1 others use up what is left, and so on down.  The
\* delay is bounded, and this is the bound: as many as can be saved before the
\* count comes to Max, and one of each request, saved after it or at it.
GuessBound == guesses <= LostUpdates(Proc, Max) + Cardinality(Proc)

\* A lock in force is not lost to a save of an older instance of the row: it is
\* lifted early only by a login that completes, and only if the instance that
\* login loaded had a lock as well, one since ended or, with an MFA code, this one.
LockStands ==
    [][row.lock = "active" /\ row'.lock # "active" =>
          RowLockEnds \/ \E p \in Proc : ResetRow(p) /\ call[p].locked]_vars
=============================================================================
