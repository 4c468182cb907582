------------------------------ MODULE Sessions ------------------------------
(***************************************************************************)
(* The Redis session store of one user, as the HTTP requests of every      *)
(* replica drive it (src/services/SessionManager.ts and its callers).      *)
(*                                                                         *)
(* Redis holds a JSON value per session, with a time to live, and one      *)
(* sorted set per user that indexes the ids of the sessions by creation    *)
(* time.  A Redis command is atomic; a SessionManager method is a sequence *)
(* of them, and other requests run at every await between two commands, so *)
(* an action here is one command together with the code up to the next.    *)
(* That one clock serves Redis and all replicas is an assumption.          *)
(***************************************************************************)
EXTENDS Integers, FiniteSets, Requests

CONSTANTS
    SessionId,      \* ids crypto.randomBytes can draw
    MaxConcurrent,  \* config.session.maxConcurrent
    Life,           \* config.session.expiryHours, in ticks
    MaxTime,        \* bound on the clock
    Kinds           \* the kinds of request of this instance

AuthKinds == {"read", "logout", "delete", "list", "password"}

NoId == 0

ASSUME IdAssumption == SessionId \subseteq Nat \ {NoId}
ASSUME NumberAssumption ==
    /\ MaxConcurrent \in Nat \ {0}
    /\ Life \in Nat \ {0}
    /\ MaxTime \in Nat
ASSUME ProcAssumption == IsFiniteSet(Proc) /\ Proc # {}
ASSUME KindAssumption == Kinds \subseteq AuthKinds \cup {"login", "reset"}

VARIABLES
    now,        \* the clock every replica reads (Date.now() and Redis)
    session,    \* session:<id>: payload, and when the key expires (0: deleted)
    index,      \* user_sessions:<userId>: ids, ordered by Before
    indexEnd,   \* when the key of the index expires
    used,       \* ids drawn so far
    issued      \* ids a login has returned to its client

vars == <<now, session, index, indexEnd, used, issued, call>>

Idle == [kind |-> "none", pc |-> "idle", sub |-> "none", cur |-> NoId, new |-> NoId,
         at |-> NoId, todo |-> {}, n |-> 0, t |-> 0]

\* Where a request is: the Redis command it sends next.
Commands == {"idle", "zcard", "zrange", "revDel", "revRem", "setex", "zadd", "expire",
             "get", "purge", "ttl", "touch", "listRange", "listRem",
             "allRange", "allDel", "allClear", "keepAdd",
             "copy", "copyRem", "copyAdd", "copyDel"}

\* The caller of getSession.
Callers == {"none", "auth", "list", "keep", "regen"}

Call == [kind : AuthKinds \cup {"login", "reset", "none"},
         pc   : Commands,
         sub  : Callers,
         cur  : SessionId \cup {NoId},    \* session of the request
         new  : SessionId \cup {NoId},    \* session it creates
         at   : SessionId \cup {NoId},    \* session the current command names
         todo : SUBSET SessionId,         \* ids a loop has left
         n    : Nat,                      \* reply of ZCARD or TTL, or seconds left
         t    : Nat]                      \* time stamp taken earlier

TypeOK ==
    /\ now \in Nat
    /\ session \in [SessionId -> [createdAt : Nat, lastActivityAt : Nat, end : Nat]]
    /\ index \subseteq SessionId
    /\ indexEnd \in Nat
    /\ used \subseteq SessionId
    /\ issued \subseteq SessionId
    /\ call \in [Proc -> Call]

-----------------------------------------------------------------------------
(* The store as a command sees it.                                         *)

Live == {s \in SessionId : session[s].end > now}

\* The index key is gone once its time to live has run out.
Index == IF indexEnd > now THEN index ELSE {}

ExpiresAt(s) == session[s].createdAt + Life

\* A key without a time to live outlasts the clock.
Never == MaxTime + Life + 1

\* ZRANGE order: the score is createdAt, and equal scores go by member.
Before(a, b) == \/ session[a].createdAt < session[b].createdAt
                \/ session[a].createdAt = session[b].createdAt /\ a < b

IsFirst(s, S) == s \in S /\ \A o \in S \ {s} : Before(s, o)

\* ZADD and ZREM: an emptied sorted set loses its key, a new one has no expiry.
SetIndex(S) ==
    /\ index' = S
    /\ indexEnd' = IF Index = {} \/ S = {} THEN Never ELSE indexEnd

Init ==
    /\ now = 0
    /\ session = [s \in SessionId |-> [createdAt |-> 0, lastActivityAt |-> 0, end |-> 0]]
    /\ index = {}
    /\ indexEnd = Never
    /\ used = {}
    /\ issued = {}
    /\ call = [p \in Proc |-> Idle]

-----------------------------------------------------------------------------
(* createSession and enforceSessionLimit, called by a login.               *)

StartLogin(p) ==
    /\ "login" \in Kinds /\ At(p, "idle")
    /\ \E s \in SessionId \ used :
          /\ used' = used \cup {s}
          /\ Go(p, [Idle EXCEPT !.kind = "login", !.pc = "zcard", !.new = s, !.t = now])
    /\ UNCHANGED <<now, session, index, indexEnd, issued>>

\* Mutant: a session is evicted only once the limit is exceeded.
CountSessionsLate(p) ==
    /\ At(p, "zcard")
    /\ LET count == Cardinality(Index)
       IN  Go(p, IF count > MaxConcurrent
                 THEN [call[p] EXCEPT !.pc = "zrange", !.n = count - MaxConcurrent]
                 ELSE [call[p] EXCEPT !.pc = "setex"])
    /\ UNCHANGED <<now, session, index, indexEnd, used, issued>>

CountSessions(p) ==
    /\ At(p, "zcard")
    /\ LET count == Cardinality(Index)
       IN  Go(p, IF count >= MaxConcurrent
                 THEN [call[p] EXCEPT !.pc = "zrange", !.n = count - MaxConcurrent + 1]
                 ELSE [call[p] EXCEPT !.pc = "setex"])
    /\ UNCHANGED <<now, session, index, indexEnd, used, issued>>

\* S is the first n members of the index as it is now, not as it was counted.
Oldest(S, n) ==
    /\ Cardinality(S) = IF n < Cardinality(Index) THEN n ELSE Cardinality(Index)
    /\ \A a \in S, b \in Index \ S : Before(a, b)

PickVictims(p) ==
    /\ At(p, "zrange")
    /\ \E S \in SUBSET Index :
          /\ Oldest(S, call[p].n)
          /\ Go(p, [call[p] EXCEPT !.pc = IF S = {} THEN "setex" ELSE "revDel",
                                   !.todo = S, !.n = 0])
    /\ UNCHANGED <<now, session, index, indexEnd, used, issued>>

StoreSession(p) ==
    /\ At(p, "setex")
    /\ session' = [session EXCEPT ![call[p].new] =
                     [createdAt |-> call[p].t, lastActivityAt |-> call[p].t, end |-> now + Life]]
    /\ Go(p, [call[p] EXCEPT !.pc = "zadd"])
    /\ UNCHANGED <<now, index, indexEnd, used, issued>>

IndexSession(p) ==
    /\ At(p, "zadd")
    /\ SetIndex(Index \cup {call[p].new})
    /\ Go(p, [call[p] EXCEPT !.pc = "expire"])
    /\ UNCHANGED <<now, session, used, issued>>

\* Mutant: the index expires when the new session does (EXPIREAT), whatever it lists.
ExtendIndexAt(p) ==
    /\ At(p, "expire")
    /\ indexEnd' = IF Index = {} THEN indexEnd ELSE call[p].t + Life
    /\ issued' = issued \cup {call[p].new}
    /\ Go(p, Idle)
    /\ UNCHANGED <<now, session, index, used>>

ExtendIndex(p) ==
    /\ At(p, "expire")
    /\ indexEnd' = IF Index = {} THEN indexEnd ELSE now + Life
    /\ issued' = issued \cup {call[p].new}
    /\ Go(p, Idle)
    /\ UNCHANGED <<now, session, index, used>>

-----------------------------------------------------------------------------
(* revokeSession: one id for a logout or a DELETE, the victims in turn for *)
(* a login.                                                                *)

RevokeDel(p) ==
    /\ At(p, "revDel")
    /\ \E s \in call[p].todo :
          /\ IsFirst(s, call[p].todo)
          /\ session' = [session EXCEPT ![s].end = 0]
          /\ Go(p, [call[p] EXCEPT !.pc = "revRem", !.at = s])
    /\ UNCHANGED <<now, index, indexEnd, used, issued>>

RevokeRem(p) ==
    /\ At(p, "revRem")
    /\ SetIndex(Index \ {call[p].at})
    /\ LET left == call[p].todo \ {call[p].at}
           next == [call[p] EXCEPT !.todo = left, !.at = NoId]
       IN  Go(p, IF left # {} THEN [next EXCEPT !.pc = "revDel"]
                 ELSE IF call[p].kind = "login" THEN [next EXCEPT !.pc = "setex"]
                 ELSE Idle)
    /\ UNCHANGED <<now, session, used, issued>>

-----------------------------------------------------------------------------
(* authMiddleware calls validateSession before each authenticated handler. *)
(* The id regenerateSession will draw is reserved when the request starts: *)
(* nothing can see it before it is stored.  A DELETE names any id at all.  *)

StartAuth(p) ==
    /\ At(p, "idle")
    /\ \E s \in issued, k \in Kinds \cap AuthKinds :
          LET c == [Idle EXCEPT !.kind = k, !.pc = "get", !.sub = "auth", !.cur = s]
          IN  CASE k = "delete" ->
                      /\ \E target \in SessionId : Go(p, [c EXCEPT !.todo = {target}])
                      /\ UNCHANGED used
                [] k = "password" ->
                      \E new \in SessionId \ used :
                          Go(p, [c EXCEPT !.new = new]) /\ used' = used \cup {new}
                [] k = "logout" -> Go(p, [c EXCEPT !.todo = {s}]) /\ UNCHANGED used
                [] OTHER -> Go(p, c) /\ UNCHANGED used
    /\ UNCHANGED <<now, session, index, indexEnd, issued>>

\* The handler the route runs once the session is validated.
Handler(c) ==
    LET h == [c EXCEPT !.sub = "none", !.n = 0, !.t = 0]
    IN  CASE c.kind \in {"logout", "delete"} -> [h EXCEPT !.pc = "revDel"]
          [] c.kind = "list"                 -> [h EXCEPT !.pc = "listRange"]
          [] c.kind = "password"             -> [h EXCEPT !.pc = "allRange"]
          [] OTHER                           -> Idle

\* Mutant: what is left is not compared with zero.
ReadTtlUnchecked(p) ==
    /\ At(p, "ttl")
    /\ Go(p, [call[p] EXCEPT !.pc = "touch", !.n = session[call[p].cur].end - now])
    /\ UNCHANGED <<now, session, index, indexEnd, used, issued>>

ReadTtl(p) ==
    /\ At(p, "ttl")
    /\ LET left == session[call[p].cur].end - now
       IN  Go(p, IF left > 0 THEN [call[p] EXCEPT !.pc = "touch", !.n = left]
                 ELSE Handler(call[p]))
    /\ UNCHANGED <<now, session, index, indexEnd, used, issued>>

\* The SETEX writes back the value read earlier, whether or not the key still exists.
Touch(p) ==
    /\ At(p, "touch")
    /\ session' = [session EXCEPT ![call[p].cur].lastActivityAt = call[p].t,
                                  ![call[p].cur].end = now + call[p].n]
    /\ Go(p, Handler(call[p]))
    /\ UNCHANGED <<now, index, indexEnd, used, issued>>

-----------------------------------------------------------------------------
(* getSession, for its four callers.                                       *)

\* The loop over ids of getUserSessions continues or ends.
NextListed(c, left) ==
    IF left = {} THEN Idle
    ELSE [c EXCEPT !.pc = "get", !.sub = "list", !.todo = left, !.at = NoId]

Found(c, s) ==
    CASE c.sub = "auth"  -> [c EXCEPT !.pc = "ttl", !.t = now]
      [] c.sub = "list"  -> NextListed(c, c.todo \ {s})
      [] c.sub = "keep"  -> [c EXCEPT !.pc = "keepAdd", !.sub = "none"]
      [] c.sub = "regen" ->
            IF ExpiresAt(s) > now
            THEN [c EXCEPT !.pc = "copy", !.sub = "none", !.n = ExpiresAt(s) - now,
                           !.t = session[s].lastActivityAt]
            ELSE Idle

Missing(c) ==
    CASE c.sub = "list" -> [c EXCEPT !.pc = "listRem"]
      [] c.sub = "keep" -> [c EXCEPT !.pc = "get", !.sub = "regen", !.at = NoId]
      [] OTHER          -> Idle

Get(p) ==
    /\ At(p, "get")
    /\ \E s \in SessionId :
          LET c == [call[p] EXCEPT !.at = s]
          IN  /\ IF call[p].sub = "list" THEN IsFirst(s, call[p].todo) ELSE s = call[p].cur
              /\ Go(p, CASE s \notin Live       -> Missing(c)
                         [] now > ExpiresAt(s)  -> [c EXCEPT !.pc = "purge"]
                         [] OTHER               -> [Found(c, s) EXCEPT !.at = NoId])
    /\ UNCHANGED <<now, session, index, indexEnd, used, issued>>

\* A value past its expiresAt whose key still exists is deleted.
Purge(p) ==
    /\ At(p, "purge")
    /\ session' = [session EXCEPT ![call[p].at].end = 0]
    /\ Go(p, Missing(call[p]))
    /\ UNCHANGED <<now, index, indexEnd, used, issued>>

-----------------------------------------------------------------------------
(* getUserSessions                                                         *)

ListRange(p) ==
    /\ At(p, "listRange")
    /\ Go(p, NextListed(call[p], Index))
    /\ UNCHANGED <<now, session, index, indexEnd, used, issued>>

ListRem(p) ==
    /\ At(p, "listRem")
    /\ SetIndex(Index \ {call[p].at})
    /\ Go(p, NextListed(call[p], call[p].todo \ {call[p].at}))
    /\ UNCHANGED <<now, session, used, issued>>

-----------------------------------------------------------------------------
(* revokeAllUserSessions: without exclusion for a password reset or a      *)
(* stolen refresh token, keeping the current session for a password        *)
(* change, which then calls regenerateSession and drops its result.        *)

StartReset(p) ==
    /\ "reset" \in Kinds /\ At(p, "idle")
    /\ Go(p, [Idle EXCEPT !.kind = "reset", !.pc = "allRange"])
    /\ UNCHANGED <<now, session, index, indexEnd, used, issued>>

\* Mutant: the list is read again until it is empty.
AllNextAgain(c, left) == [c EXCEPT !.pc = IF left = {} THEN "allRange" ELSE "allDel", !.todo = left]

AllNext(c, left) == [c EXCEPT !.pc = IF left = {} THEN "allClear" ELSE "allDel", !.todo = left]

AllRange(p) ==
    /\ At(p, "allRange")
    /\ Go(p, AllNext(call[p], Index \ {call[p].cur}))
    /\ UNCHANGED <<now, session, index, indexEnd, used, issued>>

AllDel(p) ==
    /\ At(p, "allDel")
    /\ \E s \in call[p].todo :
          /\ IsFirst(s, call[p].todo)
          /\ session' = [session EXCEPT ![s].end = 0]
          /\ Go(p, AllNext(call[p], call[p].todo \ {s}))
    /\ UNCHANGED <<now, index, indexEnd, used, issued>>

AllClear(p) ==
    /\ At(p, "allClear")
    /\ SetIndex({})
    /\ Go(p, IF call[p].kind = "reset" THEN Idle
             ELSE [call[p] EXCEPT !.pc = "get", !.sub = "keep"])
    /\ UNCHANGED <<now, session, used, issued>>

KeepAdd(p) ==
    /\ At(p, "keepAdd")
    /\ SetIndex(Index \cup {call[p].cur})
    /\ Go(p, [call[p] EXCEPT !.pc = "get", !.sub = "regen"])
    /\ UNCHANGED <<now, session, used, issued>>

Copy(p) ==
    /\ At(p, "copy")
    /\ session' = [session EXCEPT ![call[p].new] =
                     [createdAt |-> session[call[p].cur].createdAt,
                      lastActivityAt |-> call[p].t, end |-> now + call[p].n]]
    /\ Go(p, [call[p] EXCEPT !.pc = "copyRem", !.n = 0, !.t = 0])
    /\ UNCHANGED <<now, index, indexEnd, used, issued>>

CopyRem(p) ==
    /\ At(p, "copyRem")
    /\ SetIndex(Index \ {call[p].cur})
    /\ Go(p, [call[p] EXCEPT !.pc = "copyAdd"])
    /\ UNCHANGED <<now, session, used, issued>>

CopyAdd(p) ==
    /\ At(p, "copyAdd")
    /\ SetIndex(Index \cup {call[p].new})
    /\ Go(p, [call[p] EXCEPT !.pc = "copyDel"])
    /\ UNCHANGED <<now, session, used, issued>>

CopyDel(p) ==
    /\ At(p, "copyDel")
    /\ session' = [session EXCEPT ![call[p].cur].end = 0]
    /\ Go(p, Idle)
    /\ UNCHANGED <<now, index, indexEnd, used, issued>>

-----------------------------------------------------------------------------
\* A command rejects (maxRetriesPerRequest) or the replica dies: the rest is not run.
Fail(p) ==
    /\ CanFail /\ ~At(p, "idle")
    /\ Go(p, Idle)
    /\ UNCHANGED <<now, session, index, indexEnd, used, issued>>

Tick ==
    /\ now < MaxTime
    /\ now' = now + 1
    /\ UNCHANGED <<session, index, indexEnd, used, issued, call>>

Start(p) == StartLogin(p) \/ StartAuth(p) \/ StartReset(p)

Step(p) ==
    \/ CountSessions(p) \/ PickVictims(p) \/ StoreSession(p) \/ IndexSession(p) \/ ExtendIndex(p)
    \/ RevokeDel(p) \/ RevokeRem(p)
    \/ ReadTtl(p) \/ Touch(p) \/ Get(p) \/ Purge(p)
    \/ ListRange(p) \/ ListRem(p)
    \/ AllRange(p) \/ AllDel(p) \/ AllClear(p) \/ KeepAdd(p)
    \/ Copy(p) \/ CopyRem(p) \/ CopyAdd(p) \/ CopyDel(p)

Next == Tick \/ \E p \in Proc : Start(p) \/ Step(p) \/ Fail(p)

Spec == Init /\ [][Next]_vars

\* The event loop and Redis answer: a request that has a next command runs it.
Fairness == \A p \in Proc : WF_vars(Step(p))

FairSpec == Spec /\ Fairness
-----------------------------------------------------------------------------
(* Properties.                                                             *)

\* What one request can add to the index before it counts it again: a login
\* one id, a password change the current id and then the regenerated one.
Slots == Proc \X (IF "password" \in Kinds THEN {1, 2} ELSE {1})

\* The count and the eviction of enforceSessionLimit are not atomic with the
\* insertion, and a password change inserts without counting.  The index may
\* overshoot the limit, but never by more than the requests in flight explain.
IndexBound == Cardinality(Index) <= MaxConcurrent - 1 + Cardinality(Slots)

\* The expiry that createSession sets on the index key is enough for every
\* session the index lists: no expiry of the index orphans a session that is
\* still valid, except one whose own EXPIRE is still to come, or died with its
\* login: no session handed out was created when that one was.
IndexOutlivesSessions ==
    \A s \in Index \cap Live :
        \/ \E p \in Proc : At(p, "expire") /\ call[p].new = s
        \/ CanFail /\ \A o \in issued : session[o].createdAt # session[s].createdAt
        \/ indexEnd >= ExpiresAt(s)

\* Every request ends, whatever the other requests do to the list it works on.
RequestsEnd == \A p \in Proc : ~At(p, "idle") ~> At(p, "idle")

\* "Secure session invalidation" (SessionManager.ts:25): a session that was
\* handed out and is no longer live stays so.
InvalidationFinal == [][\A s \in issued : s \notin Live => s \notin Live']_vars

\* A session handed out is gone when it is no longer live and no validation
\* that found it alive is about to write it back.
Gone(s) ==
    /\ s \in issued /\ s \notin Live
    /\ ~\E p \in Proc : At(p, "touch") /\ call[p].cur = s

\* What remains of InvalidationFinal: a validation in flight is all that brings
\* a session back, and once there is none nothing does.
GoneStays == [][\A s \in SessionId : Gone(s) => Gone(s)']_vars

-----------------------------------------------------------------------------
(* Why RequestsEnd holds: whatever other requests do to the index, a        *)
(* request works on the list it read, and every step of its own brings it   *)
(* nearer to its end, in an order without infinite descent.                 *)

\* In getSession, for one of these callers.
Getting(c, subs) == c.pc \in {"get", "purge"} /\ c.sub \in subs

\* Commands count down to the end; those of one round of a loop share a place.
Place(c) ==
    CASE c.pc = "idle"                               -> 0
      [] c.pc = "listRem" \/ Getting(c, {"list"})    -> 1
      [] c.pc = "listRange"                          -> 2
      [] c.pc = "expire"                             -> 3
      [] c.pc = "zadd"                               -> 4
      [] c.pc = "setex"                              -> 5
      [] c.pc \in {"revDel", "revRem"}               -> 6
      [] c.pc = "zrange"                             -> 7
      [] c.pc = "zcard"                              -> 8
      [] c.pc = "copyDel"                            -> 9
      [] c.pc = "copyAdd"                            -> 10
      [] c.pc = "copyRem"                            -> 11
      [] c.pc = "copy"                               -> 12
      [] Getting(c, {"regen"})                       -> 13
      [] c.pc = "keepAdd"                            -> 14
      [] Getting(c, {"keep"})                        -> 15
      [] c.pc = "allClear"                           -> 16
      [] c.pc = "allDel"                             -> 17
      [] c.pc = "allRange"                           -> 18
      [] c.pc = "touch"                              -> 19
      [] c.pc = "ttl"                                -> 20
      [] Getting(c, {"auth", "none"})                -> 21

\* Within a round of a loop.
Turn(pc) == CASE pc = "get" -> 2 [] pc \in {"purge", "revDel"} -> 1 [] OTHER -> 0

Nearer(b, c) ==
    \/ Place(c) < Place(b)
    \/ Place(c) = Place(b) /\ c.todo \subseteq b.todo /\ c.todo # b.todo
    \/ Place(c) = Place(b) /\ c.todo = b.todo /\ Turn(c.pc) < Turn(b.pc)

\* No step, of the request or of another, leads a request back to a command it
\* has passed, or lengthens the list it has left.
StepsLeadToEnd ==
    [][\A p \in Proc : call'[p] = call[p] \/ At(p, "idle") \/ Nearer(call[p], call'[p])]_vars

\* The id a command names is one its loop has left; a loop goes on only with ids left.
LoopOK(c) ==
    /\ IsFiniteSet(c.todo)
    /\ c.pc \in {"revRem", "listRem"} => c.at \in c.todo
    /\ c.pc = "purge" /\ c.sub = "list" => c.at \in c.todo
    /\ c.pc \in {"revDel", "allDel"} => c.todo # {}
    /\ c.pc = "get" /\ c.sub = "list" => c.todo # {}
    /\ c.kind \in {"logout", "delete"} => c.todo # {}

\* No request waits at a loop without an id to go on with.
LoopsGoOn == \A p \in Proc : LoopOK(call[p])

-----------------------------------------------------------------------------
(* Why IndexBound holds: an inductive invariant.  A request that has        *)
(* counted the sessions, or wiped the index, knows how large the index can  *)
(* be: what it counted less what it is about to evict, plus one for each    *)
(* slot of another request that was filled since.  f[p] is that set of      *)
(* slots.  A request that fills the same slot twice has counted in between, *)
(* so what it knows is at least as recent (Later).                          *)

\* A password change after its KeepAdd.
PastKeep(c) == \/ c.pc \in {"get", "purge"} /\ c.sub = "regen"
               \/ c.pc \in {"copy", "copyRem", "copyAdd"}

Wiped(c) == \/ c.pc \in {"get", "purge"} /\ c.sub = "keep"
            \/ c.pc = "keepAdd"
            \/ PastKeep(c)

Counting(c) == \/ c.pc \in {"zrange", "setex", "zadd"}
               \/ c.pc \in {"revDel", "revRem"} /\ c.kind = "login"
               \/ Wiped(c)

\* The ids its count leaves out.
Excluded(c) == CASE c.pc \in {"revDel", "revRem"}  -> c.todo
                 [] Wiped(c) /\ c.pc # "copyAdd"  -> {c.cur}
                 [] OTHER                         -> {}

Planned(c) == IF c.pc = "zrange" THEN c.n ELSE 0

Fits(I, c, F) ==
    Counting(c) => Cardinality(I \ Excluded(c)) <= MaxConcurrent - 1 + Planned(c) + Cardinality(F)

OwnSlots(p, c, F) ==
    Counting(c) => <<p, 2>> \notin F /\ (~PastKeep(c) => <<p, 1>> \notin F)

Later(p, q, cs, f) ==
    /\ Counting(cs[p]) /\ Counting(cs[q])
    /\ <<q, 2>> \in f[p] \/ (<<q, 1>> \in f[p] /\ ~PastKeep(cs[q]))
    => f[q] \subseteq f[p]

Explains(f, I, cs) ==
    /\ \A p \in Proc : Fits(I, cs[p], f[p]) /\ OwnSlots(p, cs[p], f[p])
    /\ \A p, q \in Proc : p # q => Later(p, q, cs, f)

\* Which kinds of request are at which command, for which caller.
PcFits(pc, kind, sub) ==
    /\ pc \in {"zcard", "zrange", "setex", "zadd", "expire"} => kind = "login"
    /\ pc \in {"get", "purge"} => sub # "none" /\ kind \in AuthKinds
    /\ pc \in {"ttl", "touch"} => kind \in AuthKinds
    /\ pc \in {"keepAdd", "copy", "copyRem", "copyAdd", "copyDel"} => kind = "password"
    /\ pc \in {"allRange", "allDel", "allClear"} => kind \in {"reset", "password"}
    /\ pc \in {"listRange", "listRem"} => kind = "list"
    /\ sub \in {"keep", "regen"} => kind = "password"
    /\ sub = "list" => kind = "list"

CallOK(c) ==
    /\ c.kind # "none" => c.kind \in Kinds
    /\ c.kind \in AuthKinds => c.cur \in SessionId
    /\ c.kind \in {"login", "password"} => c.new \in SessionId
    /\ PcFits(c.pc, c.kind, c.sub)

\* The inductive invariants: of the types, and of the bound.
TypeInv == TypeOK /\ IsFiniteSet(index) /\ \A p \in Proc : CallOK(call[p])

BoundInv ==
    /\ TypeInv
    /\ IndexBound
    /\ \E f \in [Proc -> SUBSET Slots] : Explains(f, Index, call)
=============================================================================
