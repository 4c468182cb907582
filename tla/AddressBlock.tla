---------------------------- MODULE AddressBlock ----------------------------
(***************************************************************************)
(* What the service remembers of one IP address: the requests of the       *)
(* current window (src/services/RateLimiter.ts: checkIpRateLimit), the     *)
(* failed logins and the accounts they were aimed at, and the block they   *)
(* lead to (src/services/IPBlockingService.ts).                            *)
(*                                                                         *)
(* An action is one Redis command and the code up to the next.  No clock:  *)
(* windows, records and blocks end at any moment.  Counters stop where     *)
(* no comparison tells their values apart.                                 *)
(*                                                                         *)
(* The names AccountLock has as well begin with Address here, so that one  *)
(* module can speak of both.                                               *)
(***************************************************************************)
EXTENDS LostUpdates, Requests

CONSTANTS
    Account,      \* masked e-mail addresses
    MaxRequests,  \* config.rateLimit.maxRequests
    MaxFailed,    \* MAX_FAILED_ATTEMPTS_PER_IP
    MaxTargets    \* MAX_TARGETED_ACCOUNTS

ASSUME AddressAssumption == IsFiniteSet(Proc) /\ Proc # {}
ASSUME LimitAssumption == MaxRequests \in Nat \ {0} /\ MaxFailed \in Nat \ {0} /\ MaxTargets \in Nat \ {0}

VARIABLES
    hits,      \* ratelimit:ip:<ip>, 0 while the key does not exist
    ends,      \* whether that key has a time to live
    record,    \* suspicious_ip:<ip>
    block,     \* blocked_ip:<ip>: none, live, or past its expiresAt
    orphaned,  \* (history variable) whether a request died between INCR and PEXPIRE
    missed,    \* (history variable) failures recorded since the record was last
               \* deleted or last led to a block
    tried,     \* (history variable) the accounts of those failures
    lifted     \* (history variable) blocks deleted in force since a block last
               \* came to its end

addressVars == <<hits, ends, record, block, call, orphaned, missed, tried, lifted>>

Clean == [failed |-> 0, targets |-> {}]

Record == [failed : 0..MaxFailed, targets : SUBSET Account]

AddressIdle == [pc |-> "idle", kind |-> "none", read |-> Clean]

AddressCall ==
    [pc   : {"idle", "pexpire", "get", "cleanUp", "decide", "read", "store", "block", "forget",
             "clear"},
     kind : {"none", "login", "mfa", "other"},
     read : Record]    \* the record it has read

AddressTypeOK ==
    /\ hits \in 0..(MaxRequests + 1)
    /\ ends \in BOOLEAN
    /\ record \in Record
    /\ block \in {"none", "live", "past"}
    /\ call \in [Proc -> AddressCall]
    /\ orphaned \in BOOLEAN
    /\ missed \in Nat
    /\ tried \subseteq Account
    /\ lifted \in Nat

-----------------------------------------------------------------------------

AddressInit ==
    /\ hits = 0
    /\ ends = FALSE
    /\ record = Clean
    /\ block = "none"
    /\ call = [p \in Proc |-> AddressIdle]
    /\ orphaned = FALSE
    /\ missed = 0
    /\ tried = {}
    /\ lifted = 0

\* What deletes the record, or blocks on it, starts the count anew.
CountAnew == missed' = 0 /\ tried' = {}

-----------------------------------------------------------------------------
(* checkIpRateLimit, in the routes of login.                               *)

\* Once counted: login asks whether the address is blocked, verifyMfaLogin does not.
Counted(k) == [AddressIdle EXCEPT !.pc = IF k = "login" THEN "get" ELSE "decide", !.kind = k]

\* Mutant: the first request is taken for the one before it.
CountRequestLate(p, k) ==
    /\ At(p, "idle")
    /\ hits' = IF hits > MaxRequests THEN hits ELSE hits + 1
    /\ Go(p, IF hits' = 0 THEN [AddressIdle EXCEPT !.pc = "pexpire", !.kind = k]
             ELSE IF hits' > MaxRequests THEN AddressIdle
             ELSE Counted(k))
    /\ UNCHANGED <<ends, record, block, orphaned, missed, tried, lifted>>

\* INCR: only the first of a window goes on to set the key's time to live.
CountRequest(p, k) ==
    /\ At(p, "idle")
    /\ hits' = IF hits > MaxRequests THEN hits ELSE hits + 1
    /\ Go(p, IF hits' = 1 THEN [AddressIdle EXCEPT !.pc = "pexpire", !.kind = k]
             ELSE IF hits' > MaxRequests THEN AddressIdle
             ELSE Counted(k))
    /\ UNCHANGED <<ends, record, block, orphaned, missed, tried, lifted>>

SetWindow(p) ==
    /\ At(p, "pexpire")
    /\ ends' = (hits > 0)
    /\ Go(p, Counted(call[p].kind))
    /\ UNCHANGED <<hits, record, block, orphaned, missed, tried, lifted>>

WindowEnds ==
    /\ ends
    /\ hits' = 0
    /\ ends' = FALSE
    /\ UNCHANGED <<record, block, call, orphaned, missed, tried, lifted>>

-----------------------------------------------------------------------------
(* isBlocked                                                               *)

\* register, resend, refresh and forgot password ask for the block alone.
StartOther(p) ==
    /\ At(p, "idle")
    /\ Go(p, [AddressIdle EXCEPT !.pc = "get", !.kind = "other"])
    /\ UNCHANGED <<hits, ends, record, block, orphaned, missed, tried, lifted>>

NotBlocked(c) == IF c.kind = "login" THEN [c EXCEPT !.pc = "decide"] ELSE AddressIdle

\* Mutant: the end of the block is compared the wrong way round.
GetBlockSwapped(p) ==
    /\ At(p, "get")
    /\ Go(p, CASE block = "none" -> NotBlocked(call[p])
               [] block = "past" -> AddressIdle
               [] block = "live" -> [call[p] EXCEPT !.pc = "cleanUp"])
    /\ UNCHANGED <<hits, ends, record, block, orphaned, missed, tried, lifted>>

GetBlock(p) ==
    /\ At(p, "get")
    /\ Go(p, CASE block = "none" -> NotBlocked(call[p])
               [] block = "live" -> AddressIdle
               [] block = "past" -> [call[p] EXCEPT !.pc = "cleanUp"])
    /\ UNCHANGED <<hits, ends, record, block, orphaned, missed, tried, lifted>>

\* The DEL takes whatever block is there by now.
CleanUp(p) ==
    /\ At(p, "cleanUp")
    /\ block' = "none"
    /\ lifted' = IF block = "live" THEN lifted + 1 ELSE lifted
    /\ Go(p, NotBlocked(call[p]))
    /\ UNCHANGED <<hits, ends, record, orphaned, missed, tried>>

\* The value's expiresAt passes; the key, written a little later, goes after it.
BlockEnds ==
    /\ block # "none"
    /\ block' = IF block = "live" THEN "past" ELSE "none"
    /\ lifted' = IF block = "live" THEN 0 ELSE lifted
    /\ UNCHANGED <<hits, ends, record, call, orphaned, missed, tried>>

-----------------------------------------------------------------------------
(* How the login ends: its failure is recorded, or clears the record.      *)

\* A login that is refused for another reason does neither.
Decide(p) ==
    /\ At(p, "decide")
    /\ \/ Go(p, [AddressIdle EXCEPT !.pc = "read"])
       \/ Go(p, [AddressIdle EXCEPT !.pc = "clear"])
       \/ Go(p, AddressIdle)
    /\ UNCHANGED <<hits, ends, record, block, orphaned, missed, tried, lifted>>

\* recordFailedAttempt: the GET,
ReadRecord(p) ==
    /\ At(p, "read")
    /\ Go(p, [call[p] EXCEPT !.pc = "store", !.read = record])
    /\ UNCHANGED <<hits, ends, record, block, orphaned, missed, tried, lifted>>

\* Mutant: the count is stored as it would be after the next failure.
FailedTwice(r, a) == [failed |-> r.failed + 2, targets |-> r.targets \cup {a}]

\* Beyond the limit no comparison tells counts apart.
Failed(r, a) == [failed |-> IF r.failed < MaxFailed THEN r.failed + 1 ELSE MaxFailed,
                 targets |-> r.targets \cup {a}]

\* Mutant: an address is blocked once it exceeds the limit.
TooManyLate(r) == r.failed > MaxFailed \/ Cardinality(r.targets) >= MaxTargets

\* Mutant: only the number of failures is looked at.
TooManyFailed(r) == r.failed >= MaxFailed

TooMany(r) == r.failed >= MaxFailed \/ Cardinality(r.targets) >= MaxTargets

\* and the SETEX of what was read and this failure.
StoreRecord(p, a) ==
    /\ At(p, "store")
    /\ LET r == Failed(call[p].read, a)
       IN  /\ record' = r
           /\ IF TooMany(r)
              THEN CountAnew /\ Go(p, [AddressIdle EXCEPT !.pc = "block"])
              ELSE missed' = missed + 1 /\ tried' = tried \cup {a} /\ Go(p, AddressIdle)
    /\ UNCHANGED <<hits, ends, block, orphaned, lifted>>

\* blockIP: the SETEX of the block,
PutBlock(p) ==
    /\ At(p, "block")
    /\ block' = "live"
    /\ Go(p, [call[p] EXCEPT !.pc = "forget"])
    /\ UNCHANGED <<hits, ends, record, orphaned, missed, tried, lifted>>

\* and the DEL of the record.
Forget(p) ==
    /\ At(p, "forget")
    /\ record' = Clean
    /\ CountAnew
    /\ Go(p, AddressIdle)
    /\ UNCHANGED <<hits, ends, block, orphaned, lifted>>

\* clearFailedAttempts, after the right password or code.
ClearFailed(p) ==
    /\ At(p, "clear")
    /\ record' = Clean
    /\ CountAnew
    /\ Go(p, AddressIdle)
    /\ UNCHANGED <<hits, ends, block, orphaned, lifted>>

RecordExpires ==
    /\ record # Clean
    /\ record' = Clean
    /\ CountAnew
    /\ UNCHANGED <<hits, ends, block, call, orphaned, lifted>>

-----------------------------------------------------------------------------

\* A command rejects or the replica dies: the rest is not run.
AddressFail(p) ==
    /\ CanFail /\ ~At(p, "idle")
    /\ orphaned' = (orphaned \/ At(p, "pexpire"))
    /\ Go(p, AddressIdle)
    /\ UNCHANGED <<hits, ends, record, block, missed, tried, lifted>>

Step(p) ==
    \/ SetWindow(p) \/ GetBlock(p) \/ CleanUp(p) \/ Decide(p) \/ ReadRecord(p)
    \/ \E a \in Account : StoreRecord(p, a)
    \/ PutBlock(p) \/ Forget(p) \/ ClearFailed(p)

AddressNext ==
    \/ WindowEnds \/ BlockEnds \/ RecordExpires
    \/ \E p \in Proc :
          \/ \E k \in {"login", "mfa"} : CountRequest(p, k)
          \/ StartOther(p) \/ Step(p) \/ AddressFail(p)

AddressSpec == AddressInit /\ [][AddressNext]_addressVars

\* Redis expires a key that has a time to live, and answers commands.
Fairness == WF_addressVars(WindowEnds) /\ \A p \in Proc : WF_addressVars(Step(p))

FairSpec == AddressSpec /\ Fairness
-----------------------------------------------------------------------------
(* Properties.                                                             *)

\* recordFailedAttempt reads and writes in two commands: overlapping failures
\* are lost and old counts come back.  The block is postponed, by no more than this.
MissBound == missed <= LostUpdates(Proc, MaxFailed)

\* The same loss for the accounts aimed at, as long as none is aimed at twice:
\* a failure for an account that is listed already takes the list back without
\* adding to it, and only MissBound limits how often.
TargetBound ==
    missed = Cardinality(tried) => Cardinality(tried) <= LostUpdates(Proc, MaxTargets)

\* isBlocked deletes the key whatever it holds by then: a block in force can be
\* lifted, but only by a request that found an earlier block past its end, once
\* each, and one request at least is not among them.
LiftBound == lifted < Cardinality(Proc)

\* Why RefusalEnds holds: a window that counts has an end, or somebody is at the
\* command that gives it one, unless a request died between INCR and PEXPIRE.
WindowHasEnd == hits > 0 => ends \/ orphaned \/ \E p \in Proc : At(p, "pexpire")

\* An address that is refused for its number of requests is not refused for
\* ever, unless a request died between INCR and PEXPIRE.
RefusalEnds == hits > MaxRequests ~> (hits = 0 \/ orphaned)
=============================================================================
