--------------------------- MODULE TokenRotation ---------------------------
(***************************************************************************)
(* The refresh tokens of one user: how login and refreshTokens issue and   *)
(* rotate them, and how a replayed token, a logout and a password reset    *)
(* revoke them (src/services/AuthService.ts, src/models/RefreshToken.ts).  *)
(*                                                                         *)
(* The rows of refresh_tokens are the state.  A SQL statement is atomic,   *)
(* and no transaction spans two of them: an action is one statement and    *)
(* the code up to the next, and the requests of all replicas interleave.   *)
(*                                                                         *)
(* A refresh token is a JWT without a jti, signed with RS256: its text is  *)
(* a function of the session, the family and the second it is signed in,   *)
(* and so is the hash that keys its row.  A family has one session, so a   *)
(* token is a pair of a family and a second.  One clock signs and verifies *)
(* for all replicas: the model assumes that theirs agree.                  *)
(***************************************************************************)
EXTENDS Integers, FiniteSets, Requests

CONSTANTS
    Family,       \* ids generateFamilyId can draw
    RefreshLife,  \* config.jwt.refreshTokenExpiry, in seconds
    MaxTime       \* bound on the clock

ASSUME ProcAssumption == IsFiniteSet(Proc)
ASSUME LifeAssumption == RefreshLife \in Nat \ {0} /\ MaxTime \in Nat

VARIABLES
    now,      \* the clock, in seconds
    stored,   \* tokens whose hash has a row
    used,     \* rows with a usedAt
    reason,   \* revokedReason of each row ("none": revokedAt is null)
    chain,    \* pairs of a token hash and its parentTokenHash, parent first
    issued    \* tokens a client has received

vars == <<now, stored, used, reason, chain, issued, call>>

Token == Family \X (0 .. MaxTime)

FamilyOf(t) == t[1]
SignedAt(t) == t[2]

NoToken == <<>>

Reasons == {"none", "logout", "reset", "theft"}

Idle == [pc |-> "idle", token |-> NoToken, new |-> NoToken]

\* The statement a request sends next, the token it was given and the one it signed.
Call == [pc    : {"idle", "find", "theft", "mark", "sign", "create", "reply"},
         token : Token \cup {NoToken},
         new   : Token \cup {NoToken}]

TypeOK ==
    /\ now \in 0 .. MaxTime
    /\ stored \subseteq Token
    /\ used \subseteq Token
    /\ reason \in [Token -> Reasons]
    /\ chain \subseteq Token \X Token
    /\ issued \subseteq Token
    /\ call \in [Proc -> Call]

-----------------------------------------------------------------------------

Revoked(t) == reason[t] # "none"

\* jwt.verify against exp, and isExpired against the row's expiresAt.
Verifies(t) == now < SignedAt(t) + RefreshLife
Expired(t) == now > SignedAt(t) + RefreshLife

IsValid(t) == ~Expired(t) /\ ~Revoked(t) /\ t \notin used

\* The rows an UPDATE with this condition writes.
RevokeWhere(S, why) == reason' = [t \in Token |-> IF t \in S THEN why ELSE reason[t]]

Init ==
    /\ now = 0
    /\ stored = {}
    /\ used = {}
    /\ reason = [t \in Token |-> "none"]
    /\ chain = {}
    /\ issued = {}
    /\ call = [p \in Proc |-> Idle]

-----------------------------------------------------------------------------
(* Login, from the point where the session exists: a fresh family.         *)

StartLogin(p) ==
    /\ At(p, "idle")
    /\ \E f \in Family :
          /\ \A t \in stored : FamilyOf(t) # f
          /\ \A q \in Proc : call[q].new # NoToken => FamilyOf(call[q].new) # f
          /\ Go(p, [Idle EXCEPT !.pc = "create", !.new = <<f, now>>])
    /\ UNCHANGED <<now, stored, used, reason, chain, issued>>

-----------------------------------------------------------------------------
(* refreshTokens: a client presents a token it was given, maybe again.     *)

StartRefresh(p) ==
    /\ At(p, "idle")
    /\ \E t \in issued :
          /\ Verifies(t)
          /\ Go(p, [Idle EXCEPT !.pc = "find", !.token = t])
    /\ UNCHANGED <<now, stored, used, reason, chain, issued>>

\* Mutant: the checks leave out isRevoked.
FindTokenRevoked(p) ==
    /\ At(p, "find")
    /\ LET t == call[p].token
       IN  Go(p, CASE t \notin stored -> Idle
                   [] t \in used      -> [call[p] EXCEPT !.pc = "theft"]
                   [] Expired(t)      -> Idle
                   [] OTHER           -> [call[p] EXCEPT !.pc = "mark"])
    /\ UNCHANGED <<now, stored, used, reason, chain, issued>>

\* Mutant: a token presented again is not noticed.
FindTokenReused(p) ==
    /\ At(p, "find")
    /\ LET t == call[p].token
       IN  Go(p, IF t \notin stored \/ Revoked(t) \/ Expired(t)
                 THEN Idle ELSE [call[p] EXCEPT !.pc = "mark"])
    /\ UNCHANGED <<now, stored, used, reason, chain, issued>>

\* findOne; the checks read the row as it was then.
FindToken(p) ==
    /\ At(p, "find")
    /\ LET t == call[p].token
       IN  Go(p, CASE t \notin stored -> Idle
                   [] t \in used      -> [call[p] EXCEPT !.pc = "theft"]
                   [] ~IsValid(t)     -> Idle
                   [] OTHER           -> [call[p] EXCEPT !.pc = "mark"])
    /\ UNCHANGED <<now, stored, used, reason, chain, issued>>

\* Mutant: the mark is never saved.
MarkAsUsedUnsaved(p) ==
    /\ At(p, "mark")
    /\ Go(p, [call[p] EXCEPT !.pc = "sign"])
    /\ UNCHANGED <<now, stored, used, reason, chain, issued>>

\* Mutant: save() writes back every column of the row as it was read.
MarkAsUsedRow(p) ==
    /\ At(p, "mark")
    /\ used' = used \cup {call[p].token}
    /\ reason' = [reason EXCEPT ![call[p].token] = "none"]
    /\ Go(p, [call[p] EXCEPT !.pc = "sign"])
    /\ UNCHANGED <<now, stored, chain, issued>>

\* save() writes the changed column only.
MarkAsUsed(p) ==
    /\ At(p, "mark")
    /\ used' = used \cup {call[p].token}
    /\ Go(p, [call[p] EXCEPT !.pc = "sign"])
    /\ UNCHANGED <<now, stored, reason, chain, issued>>

\* findByPk has answered: the pair is signed with the family of the old token.
SignPair(p) ==
    /\ At(p, "sign")
    /\ Go(p, [call[p] EXCEPT !.pc = "create", !.new = <<FamilyOf(call[p].token), now>>])
    /\ UNCHANGED <<now, stored, used, reason, chain, issued>>

\* The INSERT of login and refreshTokens: token_hash is unique, so a second
\* token of the family in the same second makes it fail.
CreateToken(p) ==
    /\ At(p, "create")
    /\ LET old == call[p].token
           new == call[p].new
       IN  IF new \in stored
           THEN Go(p, Idle) /\ UNCHANGED <<stored, chain>>
           ELSE /\ stored' = stored \cup {new}
                /\ chain' = IF old = NoToken THEN chain ELSE chain \cup {<<old, new>>}
                /\ Go(p, [call[p] EXCEPT !.pc = "reply"])
    /\ UNCHANGED <<now, used, reason, issued>>

\* Mutant: the answer carries the token of the request.
ReplyOld(p) ==
    /\ At(p, "reply")
    /\ issued' = issued \cup {call[p].token}
    /\ Go(p, Idle)
    /\ UNCHANGED <<now, stored, used, reason, chain>>

Reply(p) ==
    /\ At(p, "reply")
    /\ issued' = issued \cup {call[p].new}
    /\ Go(p, Idle)
    /\ UNCHANGED <<now, stored, used, reason, chain>>

\* The UPDATE of the family of a token presented again; revokeAllUserSessions
\* and the event follow.
RevokeFamily(p) ==
    /\ At(p, "theft")
    /\ RevokeWhere({t \in stored : FamilyOf(t) = FamilyOf(call[p].token)}, "theft")
    /\ Go(p, Idle)
    /\ UNCHANGED <<now, stored, used, chain, issued>>

-----------------------------------------------------------------------------
\* The token a logout names is revoked whatever its row said.
Logout ==
    /\ \E t \in issued \cap stored : RevokeWhere({t}, "logout")
    /\ UNCHANGED <<now, stored, used, chain, issued, call>>

\* The UPDATE of a password reset: every row whose revokedAt is null.
ResetPassword ==
    /\ RevokeWhere({t \in stored : ~Revoked(t)}, "reset")
    /\ UNCHANGED <<now, stored, used, chain, issued, call>>

\* A statement rejects or the replica dies: the rest is not run.
Fail(p) ==
    /\ CanFail /\ ~At(p, "idle")
    /\ Go(p, Idle)
    /\ UNCHANGED <<now, stored, used, reason, chain, issued>>

Tick ==
    /\ now < MaxTime
    /\ now' = now + 1
    /\ UNCHANGED <<stored, used, reason, chain, issued, call>>

Refresh(p) == FindToken(p) \/ MarkAsUsed(p) \/ SignPair(p) \/ RevokeFamily(p)

Next ==
    \/ Tick \/ Logout \/ ResetPassword
    \/ \E p \in Proc :
          \/ StartLogin(p) \/ StartRefresh(p) \/ Refresh(p) \/ CreateToken(p) \/ Reply(p)
          \/ Fail(p)

Spec == Init /\ [][Next]_vars
-----------------------------------------------------------------------------
(* Properties.                                                             *)

\* What a token has been exchanged for, and who has passed the checks with it.
Successors(t) == {e \in chain : e[1] = t}
Exchanging(t) ==
    {p \in Proc : call[p].pc \in {"mark", "sign", "create"} /\ call[p].token = t}

Tree ==
    \A e \in chain :
        /\ e[1] \in stored \cap used
        /\ e[2] \in stored
        /\ FamilyOf(e[1]) = FamilyOf(e[2])
        /\ SignedAt(e[1]) < SignedAt(e[2])
        /\ \A g \in chain : g[2] = e[2] => g = e

\* The rows of a family form a tree of rotations: a row that names a parent was
\* inserted after the parent was marked used, so no crash between the two
\* statements leaves both live, in a later second, and has one parent only.  A
\* parent can have several rows: requests that overlap all find it unused, and
\* each in its own second inserts a successor.  But once one has marked it no
\* other gets past the checks, so however often and for however long a token
\* is presented, it has no more successors than requests can be in flight.
Rotated ==
    /\ Tree
    /\ \A t \in stored : Cardinality(Successors(t)) <= Cardinality(Proc)

\* A request saves a row it read long before (markAsUsed, revoke): what other
\* requests wrote to that row in between is never lost.
MarksStick ==
    [][/\ used \subseteq used'
       /\ \A t \in Token : Revoked(t) => Revoked(t)'
       /\ \A t \in Token : reason[t] = "theft" => reason'[t] # "reset"]_vars

\* A family that no request can extend any more: every row is spent, and no
\* request has passed the checks of refreshTokens with a token of it.
Spent(f) ==
    /\ \E t \in stored : FamilyOf(t) = f
    /\ \A t \in stored : FamilyOf(t) = f => ~IsValid(t)
    /\ \A p \in Proc : call[p].pc \in {"mark", "sign", "create"} /\ call[p].token # NoToken
                          => FamilyOf(call[p].token) # f

\* Once a logout, a reset, a theft or the clock has spent a family, no
\* sequence of calls with its old tokens brings it back.
SpentStaysSpent == [][\A f \in Family : Spent(f) => Spent(f)']_vars

\* What a request that has passed the checks may yet exchange for a token: the
\* token it presented, or for a login the family it opens.
ClaimOf(c) ==
    CASE c.pc \in {"mark", "sign", "create"} /\ c.token # NoToken -> c.token
      [] c.pc = "create" /\ c.token = NoToken -> <<FamilyOf(c.new)>>
      [] OTHER -> <<>>

Promise == INSTANCE TokenFamily
             WITH Serial <- 0 .. MaxTime,
                  ever   <- stored,
                  valid  <- {t \in stored : IsValid(t)},
                  claim  <- [p \in Proc |-> ClaimOf(call[p])]

\* The statements of all requests, however they interleave, fail and retry,
\* amount to what TokenFamily promises: no token comes into being but for a
\* login or in exchange for a token that was valid when its request read it and
\* is not any more, and none becomes valid again.  A token is exchanged once by
\* each request that read it while it was valid, so more than once where
\* requests overlap, and never by one that reads it after the first exchange.
ImplementsTokenFamily == Promise!Spec
-----------------------------------------------------------------------------
(* Why they hold: an inductive invariant.                                  *)

\* Rows come from requests: nobody holds a token without a row, and no row is
\* signed in the future.
Rows ==
    /\ \A t \in stored : SignedAt(t) <= now
    /\ issued \subseteq stored
    /\ \A p \in Proc : call[p].token # NoToken => call[p].token \in stored

\* What the locals of a request hold at each statement.
Locals(c) ==
    /\ c.pc \in {"find", "theft", "mark", "sign"} => c.token # NoToken
    /\ c.pc \in {"create", "reply"} => c.new # NoToken
    /\ c.pc \in {"sign", "create"} /\ c.token # NoToken => c.token \in used
    /\ c.pc = "create" => SignedAt(c.new) <= now
    /\ c.pc = "create" /\ c.token # NoToken =>
          /\ FamilyOf(c.new) = FamilyOf(c.token)
          /\ SignedAt(c.token) <= SignedAt(c.new)
    /\ c.pc = "reply" => c.new \in stored

LoggingIn(c) == c.pc = "create" /\ c.token = NoToken

\* A login inserts the first row of its family.
FreshFamily ==
    \A p \in Proc : LoggingIn(call[p]) =>
        /\ \A t \in stored : FamilyOf(t) # FamilyOf(call[p].new)
        /\ \A q \in Proc \ {p} :
              LoggingIn(call[q]) => FamilyOf(call[q].new) # FamilyOf(call[p].new)

RotationInv == TypeOK /\ Tree /\ Rows /\ FreshFamily /\ \A p \in Proc : Locals(call[p])

\* The successors a token has and those it may yet get.
Forks ==
    \A t \in stored :
        /\ IsFiniteSet(Successors(t))
        /\ Cardinality(Successors(t)) + Cardinality(Exchanging(t)) <= Cardinality(Proc)
=============================================================================
