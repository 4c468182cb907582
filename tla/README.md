# A TLA+ model of banking-auth-service

The service is a TypeScript HTTP API (Express) that runs in three or more
replicas (`k8s/hpa.yaml`) over one PostgreSQL database (Sequelize), one Redis
and Kafka. It registers users, logs them in with a password and a second
factor, keeps their sessions, and issues access and refresh tokens. It uses no
SQL transaction, no Redis transaction and no script: every `await` between two
commands is a point where requests of any replica interleave. That is what the
modules here are about.

Paths below are relative to the repository; code is under `src/`.

## Inventory

| Component | State | Operations | Shared with |
|---|---|---|---|
| Session store (`services/SessionManager.ts`) | Redis `session:<id>` (JSON, TTL), `user_sessions:<user>` (sorted set, TTL), `session:temp:<token>` | createSession, getSession, validateSession, revokeSession, revokeAllUserSessions, getUserSessions, regenerateSession, set/getTempToken | login, logout, reset, theft, every authenticated request |
| Authenticated routes (`routes/authRoutes.ts`) | none | authMiddleware validates the session, then the handler runs | session store, AuthService |
| Refresh-token rotation (`AuthService.refreshTokens`, `models/RefreshToken.ts`, `utils/JWTHandler.ts`) | table `refresh_tokens` | login inserts, refresh marks used and inserts, replay revokes the family, logout and reset revoke | session store |
| Login and its locks (`AuthService.login`, `verifyMfaLogin`, `services/RateLimiter.ts`, `models/User.ts`) | Redis `login_attempts:<email>`, columns `failed_login_attempts`, `locked_until` of `users` | checkLoginAttempt, recordFailedLogin, incrementFailedAttempts, clearLoginAttempts, resetFailedAttempts | IP blocking, devices, sessions |
| Rate limits by window (`RateLimiter.ts`) | Redis counters with expiry | checkIpRateLimit, checkEmailResendLimit, user and JWT limits (no caller) | routes |
| IP blocking (`services/IPBlockingService.ts`) | Redis `suspicious_ip:`, `blocked_ip:` | isBlocked, recordFailedAttempt, blockIP, clearFailedAttempts | login, refresh, registration, forgot password |
| Registration, verification, password reset (`AuthService.ts`, `models/PasswordResetToken.ts`, `models/PasswordHistory.ts`) | tables `users`, `password_reset_tokens`, `password_history` | register, verifyEmail, resend, forgotPassword, resetPassword, changePassword | sessions, refresh tokens |
| MFA (`services/MFAService.ts`) | secret and backup codes in `users` | setupMFA, verifyAndEnableMFA, useBackupCode | login |
| Devices (`services/DeviceManager.ts`) | table `devices` | register, trust, revoke, block | login |
| Anomaly detection (`services/AnomalyDetector.ts`) | table `login_history` | analyzeLogin (score), recordLoginAttempt | login |
| Audit log (`models/AuditLog.ts`) | hash chain in `audit_logs` | log, verifyIntegrity | audit middleware |
| JWT keys (`JWTHandler.ts`) | keys of each replica | sign, verify, addRotationKey, removeExpiredKey | everything authenticated |
| Token blacklist, refresh token manager, OTP, authentication middleware | Redis, tables | present in the code, called by no route | - |
| E-mail, events, logs, headers, validation, sanitising | none | output, or functions of one request | - |

What is hard in this code: check-then-act on Redis and on rows (session limit,
failure counters, single-use tokens, the used mark of refresh tokens); writes of
values read before other requests deleted or changed them (`validateSession`'s
SETEX, Sequelize's `save()`); loops over lists read earlier; several statements
of which some may fail; two time-to-lives that must outlast one another.
`PROJECT.json` lists each of these at its line, with the property that would
catch it going wrong, or the reason why there is none.

What would make each component correct: sessions - the limit, no session
outside the index, a deleted session stays deleted, every request ends; tokens -
one successor per token, marks never lost, a revoked family never alive again; login -
a bound on wrong passwords before the lock, locks that stand; recovery - a link
works once and only the last one; windows - a bound per window and no counter
without an end; audit - one chain; devices - a revoked or blocked device stays so.

## Modules

Everywhere an action is one Redis command or SQL statement with the code up to
the next one: that is where requests of several replicas interleave. `call[p]`
is the record of a request's locals and its `pc` names its next statement. The
last disjunct of a request is `Fail`: its statement rejects or its replica dies,
and the rest of the handler is not run. Operators named as a variation of an
action and commented `Mutant:` are plausible bugs of that action; no
specification uses them.

| Module | Code | State |
|---|---|---|
| Sessions | SessionManager, authMiddleware | `session:<id>`, `user_sessions:<user>`, their expiry |
| TokenFamily | what rotation promises | tokens ever, valid, claims |
| TokenRotation | refreshTokens, RefreshToken, JWTHandler | rows of `refresh_tokens` |
| AccountLock | login and verifyMfaLogin up to the locks, RateLimiter, User | `login_attempts:<email>`, columns of `users` |
| AccountRecovery | forgotPassword, resetPassword, changePassword | password, `password_history`, `password_reset_tokens`, entries of `user_sessions:<user>` |
| SecondFactor | login and verifyMfaLogin after the password, verifyAndEnableMFA, DeviceManager | MFA columns, `session:temp:<token>`, `devices` |
| Registration | register, verifyEmail, resendVerificationEmail, checkEmailResendLimit | row of `users`, two counters |
| AddressBlock | checkIpRateLimit, IPBlockingService | `ratelimit:ip:`, `suspicious_ip:`, `blocked_ip:` |
| AuditChain | AuditLog.log, verifyIntegrity | `audit_logs` |
| LoginRisk | AnomalyDetector, login's use of it | `login_history` |
| Requests | none: the requests in flight and the locals of each, for the seven modules that have them | `call` |
| LostUpdates | none: how often a counter read and written in two commands is written before its limit | none |

`MC<module>` adds the symmetry set of a module for TLC; `<module>Proofs` holds
its theorems. AccountLockProofs extends both AccountLock and AddressBlock, since
what it proves of either rests on the same lemmas about lost updates; so names
that both would have begin with `Address` in AddressBlock.

**Sessions.** One user's sessions. `CountSessions` is the ZCARD of
`enforceSessionLimit`, `PickVictims` its ZRANGE, `StoreSession`, `IndexSession`
and `ExtendIndex` the SETEX, ZADD and EXPIRE of `createSession`, `RevokeDel` and
`RevokeRem` those of `revokeSession`; `Get`, `Purge`, `ReadTtl` and `Touch` are
`getSession` and `validateSession`; `ListRange`/`ListRem`, `AllRange` to
`KeepAdd`, and `Copy` to `CopyDel` are `getUserSessions`,
`revokeAllUserSessions` and `regenerateSession`. The payload of a session is
reduced to `createdAt` and `lastActivityAt` (`expiresAt` is the first plus
`Life`), and `end` is when its key expires. Ids are numbers because equal scores
of a sorted set are ordered by member. Which session a request carries is any
one a login has returned: validity of the access token itself only narrows that
choice. A DELETE names any id, since its route checks no owner; that Redis and
all replicas read one clock is an assumption of this module and of the others
with a clock, except AuditChain.

**TokenRotation** and **TokenFamily.** The refresh tokens of one user. A refresh
token is a JWT without a `jti`, so its text - and the hash that is unique in the
table - is a function of family and second: a token is that pair. The session,
which a family keeps all along, and the device are left out. TokenFamily is the
abstract specification: a family opens at a login, a request that presents a
valid token gets a claim on it, and exchanges it for one further token once it
has stopped being valid; validity is only ever lost. Two requests may hold a
claim on one token and both exchange it, which the code does: the rows of a
family are a tree, not a chain, and `Rotated` bounds how far a token forks.
`Promise == INSTANCE TokenFamily WITH ...` maps the rows and the locals of the
requests onto it: a request holds a claim from the check that let it pass to its
INSERT.

**AccountLock.** The two locks of one account: `attempts` in Redis and `row` in
`users`. A request keeps the columns it loaded (`failed`, `locked`), because
`save()` writes from that instance, and only columns whose value differs from
the loaded one: so `ResetRow` writes 0 only over a loaded non-zero, and null
only over a loaded lock. No clock: locks, delays and time-to-lives end at any
moment, in any order, which includes what real time does. Counters stop at the
limit: beyond it no comparison of the code tells values apart. An e-mail without
a row goes through the Redis half only and adds nothing. Checks that stop a
login without touching this state are choices of `RightPassword`.

**AccountRecovery.** `InvalidateLinks` and `InsertLink` are the UPDATE and the
INSERT of forgotPassword; `CheckLink`, `ReadHistory`, `SavePassword`,
`RecordPassword`, `MarkAsUsed` the statements of resetPassword and, without the
link, of changePassword, in their order. `history` holds the rows that the next
`findAll` returns; the code orders them by `created_at` of the replica
(`PasswordHistory.ts:41`, `AuthService.ts:922`), the model by their INSERTs, which
assumes the clocks of the replicas agree. Then comes the session index: each id
in it is kept with the password that opened its session. `ClearIndex` is the
command of revokeAllUserSessions that empties it, `KeepAdd` the ZADD by which a
change puts its own session back, `CopyRem` and `CopyAdd` those of
regenerateSession; `CreateSession` is the ZADD of a login that compared the
password long before, `EntryLeaves` whatever else removes an id. Whether a
session is alive - and so what a revocation deletes, and what a touch writes back -
is Sessions' matter: a change may act for a session that is not in the index.
`uses`, `saver` and `settled` are history variables.

**SecondFactor.** `Login` is what login decides on the row it loaded: nothing to
prove, ask for a code (`SetTicket`), or verify the one given; `StartMfa` and
`ClaimTicket` are the GET and DEL of the temporary token; `VerifyMfa` and
`TryBackupCode` the two ways verifyMfaLogin accepts; `FindDevice`,
`TouchDevice`, `InsertDevice` are registerDevice, `CompleteLogin` the session.
A TOTP code is known by the secret it is of (otplib does the arithmetic). One
device fingerprint; the partial unique index on the rows not revoked is the
guard of `InsertDevice`. A row has its mark of trust and its score, of which
isTrusted wants both (`IsTrusted`); a request keeps the score it loaded, raises it
and saves it (`TouchDevice`), over whatever is there by then. `EnableMfa` takes any
secret, since the route takes secret and codes from the body and setupMFA, which
keeps nothing, is not consulted. `weak`, `uses` and `refused` count for the properties.

**Registration.** One e-mail address and one IP address. `InsertUser` is refused
by the unique index; a drawn token that no row and no request refers to stands
for one never drawn. The two resend counters have the INCR (`CountResend`) and
the PEXPIRE (`ExpireWindow`) of RateLimiter as two steps; `window[k].ends` is
whether the key has a time to live, and counts stop at one past the limit.

**AddressBlock.** One address. `CountRequest`/`SetWindow` are INCR and PEXPIRE;
`GetBlock`/`CleanUp` the GET and DEL of isBlocked; `ReadRecord`, `StoreRecord`,
`PutBlock`, `Forget` the commands of recordFailedAttempt and blockIP. As
elsewhere without a clock keys end at any moment. A failure has an account it is
aimed at. Requests other than logins (`StartOther`) reach isBlocked without the
counter.

**AuditChain.** A row is known by its place in the order of insertion, which
stands for its hash; the hash of columns changed later is another number
(`NewHash`). `ReadLast` is findOne by `created_at`, `Stamp` the replica's clock and
the hash, `Insert` the INSERT. Clocks may be `Skew` ahead. Behind the service's
back, where the hooks do not run, `Alter` moves the time stamp of a row or changes
another hashed column, and leaves the stored hash or computes it anew, which needs
no key; `AlterHash` replaces the hash alone; `Remove` deletes a row. verifyIntegrity
is the operator `Invalid` over every answer its findAll can give (`Entries`: by
time stamp, equal ones in any order, the first `Limit`).

**LoginRisk.** `ReadHistory` is getRecentLogins with the checks on what it read
(travel, new country), `CountAttempts` the count of the last minute with score
and decision, `Record` recordLoginAttempt. The scores of the code are kept as
numbers. Hour, device and agent are choices. Ticks stand for the minute, the
hours of travel and the days of the pattern.

### Composition

The modules share no variable. A login is `CountRequest` and `GetBlock` of
AddressBlock, then AccountLock up to the right password, then LoginRisk, then
SecondFactor, and its `CompleteLogin` is `StartLogin` of Sessions followed by
`StartLogin` of TokenRotation. A reset or a theft reaches Sessions and
TokenRotation in separate commands after `SavePassword` of AccountRecovery.
Each module takes from the others only that such requests occur at any time,
which is weaker than any order the handler imposes; AccountRecovery, which
depends on the password behind each entry of the index, has the commands that
write the index as steps of its own.

## Runs

| Run | Question | Result |
|---|---|---|
| sessions | logins, resets, logouts, deletions, lists at once: how far can the index overshoot, and does every request end? | at most `MaxConcurrent - 1` and one per insertion in flight; all end |
| sessions_time | does the index outlive what it lists, with the clock running, password changes and crashes? | yes, but for a login whose own EXPIRE is still to come or was lost |
| tokens | rotation with replays, crashes, logouts, resets, thefts, expiry | trees with at most `P` successors to a token; marks and spent families hold; TokenFamily is implemented |
| account_lock | wrong passwords before the lock; do locks stand? | at most 7 at a limit of 3 with two requests; they stand |
| account_recovery | live links, passwords saved through a link, current password in the history, index entries of old passwords after a revocation | each bounded by the requests in flight; recorded |
| second_factor | sessions without the factor, uses of a temporary token, refused first logins, marks of a device | each bounded by the requests in flight; marks stick, the trust itself once no stale score is on its way |
| registration | one row, a link that was sent, resends in a window, verification kept | hold |
| addresses | failures and targets hidden by lost updates, blocks lifted, refusals that end | bounded; they end, but after a crash between INCR and PEXPIRE |
| audit | what verifyIntegrity reports of untouched rows, how far the chain forks | of those in step only neighbours of tampering, and all that name a row removed or re-hashed; one fork per writer |
| login_risk | marks of travel and country, who is blocked | as promised until attempts have filled the limit of the query |
| sessions_invalidation | "Secure session invalidation" | violated: a validation in flight restores the session; nothing else does (`GoneForGood`) |
| second_factor_codes | "Try backup codes" | violated: no code is ever accepted |

The findings in `PROJECT.json` quote the lines that state what the violated runs
check, and say what happens.

### Bounds

Two requests show every pairwise interleaving; second_factor has three, because
its counters grow with each further request. Each bound in the properties is a
function of the constants and of `Cardinality(Proc)`.

- sessions: a limit of one session, two requests and three ids, so that both
  requests can log in next to a session that exists and overshoot the limit. An
  id is never drawn twice: when all are drawn, logins stop and the other
  requests go on, so the run still checks for deadlock.
  The clock stands still: order, not time, is the question.
- sessions_time: a life of 2 and a clock to 3, so sessions of different ages
  overlap, and one can be touched, outlive its `expiresAt` and be purged.
- tokens: a life of 2 and a clock to 3, so tokens of four seconds coexist and
  expire. One family: its properties relate no two.
- account_lock: the guess bound is `LostUpdates(Proc, Max) + P`, `P` the number of
  requests. `LostUpdates` is defined by what the proof counts; MCAccountLock has
  TLC check that it is `C(Max + P - 1, P) - 1` (`CountOfProfiles`). The bound is
  attained: with one less TLC finds a counterexample for `(P, Max)` = (2,3),
  (2,4), (3,2), (3,3). For the default limit of 7 and two requests it is 29. It
  counts passwords compared, not those the progressive delay slows down, nor
  those of a request that died.
- account_recovery: a history of two rows with three passwords, so that a
  password can leave the history; three links for two requests; two ids of
  sessions, so that both entries the bound allows can be there.
- second_factor: two secrets, so that MFA can be enabled anew. One row of
  devices: a revoked row can be inserted again, as the new row it then stands for,
  once no request refers to the old one. With two rows and three requests there
  are several million states, too many for a run that is repeated often. Scores
  are 0 to 3, one more for each login and two enough for trust: so a stale score
  can take the trust away, or, raised, leave it.
- registration: an e-mail limit of one below the address's limit of two, so that
  either can refuse; three tokens for the row and two requests.
- addresses: three failures or two accounts to a block, three accounts. The bound
  of lost failures is the one of account_lock without the requests on their way.
  The one of accounts holds while none is aimed at twice: a second failure for
  an account writes an old list back and adds nothing to it, so that six
  accounts are tried with two requests, a limit of three accounts and one of
  twenty failures, where `LostUpdates` is five. `MissBound` limits that case.
- audit: four rows, a skew of one tick and a clock to 1, so that rows have three
  different time stamps and four are not all apart; one change of the database,
  and a check of at most three rows so that `Limit` cuts.
- login_risk: a query limit of one, so that a single attempt hides a login; the
  minute is 0 ticks, travel 1, the trip 2, the days 1, in a clock to 2.

Symmetry is used where no liveness is checked. sessions_time, audit and
login_risk stop when ids, rows or the clock are used up and do not check
deadlock; the others do.

### Fairness

- sessions: weak fairness of `Step(p)` of each request: Redis answers, and the
  event loop of a live replica comes round to every resolved promise. Starting a
  request is not fair. Without crashes, since a crash ends a request at once.
- addresses: weak fairness of `Step(p)`, and of `WindowEnds`: Redis expires a key
  that has a time to live. Crashes happen, and are not fair.

## Proofs

The theorems hold for every number of requests, ids, links, devices, families,
writers, every limit, score, lifetime and clock, from the ASSUMEs of the modules
(limits are naturals, ids exclude the value that stands for none, requests are
finitely many, the scores lie between none and the full one). Every invariant and
action property of a passing run has one. The invariants named here were checked
by TLC first.

- `Sessions`: `TypeInv` is inductive: types, the index is finite, and which kinds
  of request can be at which command (`PcFits`); `Types` follows. `IndexBound` is
  not inductive: that the index is small says nothing of what a request that has
  already counted will add. `BoundInv` adds a witness `f` which gives each request
  that has counted the set of insertions (`Slots`) of other requests since; what
  it counted, less what it excludes, plus those, covers the index (`Fits`). An
  insertion adds its slot to every other request's set; a request that fills a
  slot a second time has counted in between, so that its own set is contained in
  that of anyone who saw the first (`Later`), and the bound survives. `Bound`
  follows.
- `IndexOutlivesSessions` speaks of live sessions only, and of their expiry; how
  old they are is what an EXPIRE must cover. `LifeInv` drops the life of the
  session and relates times of creation: every listed session was created when
  one handed out was, or is about to have its EXPIRE, or lost it with its login
  (`Listed`), and while there is an index it outlasts whatever was handed out
  (`Lasting`). An EXPIRE covers everything created so far, because nothing was
  created later than now (`Clocked`); regenerateSession lists a new id with an
  old time (`Copied`); and a session written is nobody's but its creator's, so
  that no write changes the age of one already listed (`Fresh`). Commands fall
  into three kinds, those that write no time of creation (`PlainLife`), those
  that do (`WrittenLife`) and starts; `Outlives` follows.
- `GoneStays` is what remains true of the violated `InvalidationFinal`: a session
  that was handed out, is not live, and is in the hands of no validation that
  has seen it alive (`Gone`) stays so. A request is at that SETEX only after it
  found the session; every other command that writes a session writes an id that
  is not handed out yet, which is `Fresh` of `LifeInv`. `GoneForGood` follows.
- `StepsLeadToEnd` is why `RequestsEnd` holds. Each command has a `Place` in the
  handlers, which only decreases; the commands of one loop share a place, and
  within it the list shrinks, or stays while the `Turn` decreases. That the list
  shrinks needs that what a command removes is still on it, and a loop that goes
  on an id to go on with (`LoopsGoOn`, from `LoopInv`). `Loops` and `LeadToEnd`
  state both; `NoEndlessRequest` proves the order well-founded, since lists are
  finite (`FS_StrictSubsetOrderingWellFounded` and the naturals). From there to
  `RequestsEnd` it takes fairness only.
- `TokenRotation`: `RotationInv` adds to the types and `Tree` where rows come
  from (`Rows`), what locals hold at each statement (`Locals`), and that a login's
  family is nobody else's (`FreshFamily`) - without which a login could insert into
  a tree. `Forks` counts the successors of a token together with the requests that
  passed the checks with it: nobody joins them once it is marked used, and there is
  no successor before. `Rotation`, `Marks` and `SpentForGood` follow step by step.
- `TokenFamily`: `Implements` is the refinement. Under `RotationInv` each
  statement maps to a step of TokenFamily or to a stutter: the login's draw of a
  family is `Open`, the SELECT that passes the checks is `Claim`, the INSERT, by when
  the token is marked and so not valid, is `Issue`, and the updates, the clock and the deaths are `Invalidate` or `Drop`.
- `AccountLock`: `TypeOK` is inductive; `LockHolds` follows from it and the fact
  that two saves and the end of a lock are the only writes to the row.
- `GuessBound` counts what lost updates cost. Whoever read `v` or less takes the
  counter back to `v + 1` or less, so what a counter promises is its profile: for
  each `v` it has passed, how many requests have not read `v` or less
  (`Profile`). Profiles do not increase with `v`; they are ordered by the
  smallest `v` where they differ (`Below`), which is a total order of a finite
  set, and `Rank` is the place in it. Reading, and ending without a write, lower
  no profile (`Released`); a write of one more than what was read raises it,
  because the request no longer holds that `v` (`Written`). So no more writes
  fit below the limit than there are profiles less one, which is `LostUpdates`:
  `GuessInv` says that passwords compared are at most the rank and those still to
  be saved, or, under a lock, that nobody new compares. `GuessesBounded` follows.
- `AddressBlock`: its record is written like the row, so failures and
  accounts stay within ranks again (`StoreInv`); what a list counts for is the
  accounts on it tried since the last block. `LiftInv` adds to the blocks lifted
  the requests about to delete: nobody starts to delete a block in force, and
  whoever set it is not among them. `AddressTypes`, `FewMissed`, `FewTargets` and
  `FewLifted` follow. `WindowHasEnd` is inductive with the types: the request
  that starts a window goes on to give it an end, and nobody else is needed for
  it. `WindowsEnd` states it: it is what `RefusalEnds` rests on.
- `AccountRecovery`: `LinkInv` counts the live links with the requests about to
  insert one. `UseInv` splits the requests with a link into those that found it
  valid and those that saved and are about to mark it: while the link is live
  the latter are all its uses, so that whoever finds it valid is one more request.
  `HistoryInv` counts the rows after that of the password in force together with
  those still to insert: fewer than the next check reads. `SurvivorInv` counts, once
  the index is cleared, its entries of old passwords with the requests that may yet
  add one (`Stale`): logins and changes that were in flight when the password in
  force was saved, and the one that saved it is not among them. An entry that its
  change is about to remove and copy (`Kept`) counts as that request, not as an
  entry (`Loose`); that no two requests or entries share a new id is `IdInv`.
- `SecondFactor`: none of its three bounds is inductive. `FactorInv` counts each
  together with the requests that may yet let it grow: `weak` with the logins
  `Behind` the secret in force, the uses of a ticket with its `Holders`, the
  refusals with those `Inserting`; a ticket that is still in Redis has no uses,
  and while there is no active row there are no refusals. `LoadedInv` says that a
  mark of trust is saved to a row that was loaded. `Marks` needs of the scores that
  raising one does not lower it and that the full score is enough for trust: so a
  login that loads a trusted row is none that takes the trust away (`StaysFirm`).
- `Registration`: `RowInv` makes the request that records the password unique;
  `SentInv` adds to `LinkArrives` the requests on their way to the mail;
  `ResendInv` adds the resends that have `Passed` the count to those sent, and
  bounds them by the window's count and by the limit. `WindowHasEnd` is inductive
  with it: the request that starts a window is the only one at its PEXPIRE, and
  the key cannot expire before; so the PEXPIRE neither meets a key that is gone
  nor prolongs a window, which `ExpireWindow` relies on, and without a crash no
  counter is left without an end (`WindowsEnd`).
- `AuditChain`: `ForkInv` counts the rows that name a row and follow it in time
  with the writers that read it as the last one: once it has a follower nobody
  new does. `NamesInv` says what hash a row or a writer can name: that of an
  earlier row, and a changed one only of a row that was touched. `AloneInv` gives
  what `InStep` leaves out: a writer alone has read one of the last rows of what is
  left, and so has every row written alone. With them `Reports` compares the order
  verifyIntegrity reads in with that of insertion: a row in step that is reported
  does not follow the row it names, so either is tampered with (`InStepFollows`);
  and a hash that no row has any more matches no entry (`UnnamedReported`).
- `LoginRisk`: `RiskInv` keeps, with each judgement on its way and each row, that
  it is what the checks give on the rows it read (`IsJudged`), and that these are
  a prefix of the history, whose further growth changes nothing about them.

Model-checked only: `RequestsEnd` and `RefusalEnds` as they stand, since liveness
and fairness are out of the prover's reach - what they rest on is proved, see
above - and the violations of the two findings. Proved, and in no run:
`GoneStays`, `LoopsGoOn`, `StepsLeadToEnd`, and `WindowHasEnd` of AddressBlock and
of Registration; TLC found no counterexample to them with the constants of
sessions, sessions_time, addresses and registration before they were proved. That
`LostUpdates` is a binomial coefficient is checked for limits to 6 and two
requests (`CountOfProfiles`); the proof for all would be an induction over data.
No proof says that the bounds are attained; TLC found the counterexamples to
smaller ones that Bounds mentions.

## Where code and comments part

Besides the two findings, the models contain these behaviours; no run checks
them any more, the passing runs took their place.

- `SessionManager.ts:23` and `:120` say LRU eviction; `:129` evicts by the score
  of the index, the time of creation, whatever was used since.
- A login that inserts between the ZRANGE and the DEL of revokeAllUserSessions
  (`SessionManager.ts:244`) has a live session that no list shows and no later
  revocation reaches.
- `AuthService.ts:1046` says keep current: revokeAllUserSessions with the current
  id leaves it, and the regenerateSession of `:1050` then deletes it; if another
  request has ended it meanwhile the user is logged out.
- `AuthService.ts:745` says revoke entire family: a rotation in flight inserts its
  successor after the UPDATE (`:793`), and that token stays valid. `TokenFamily`
  has this in its claims.
- `RefreshToken.ts:23` calls the parent the "previous token in chain": two requests
  that read one unused token (`AuthService.ts:735`) both go on to mark it, and if
  they sign in different seconds both successors are stored and live, each the
  start of rotations of its own. `Rotated` and `TokenFamily` allow it, and bound it.
- `EmailService.ts:126` tells the user that a reset link can only be used once.
  Requests that overlap all find it unused (`AuthService.ts:891`) and each saves a
  password before it marks the link (`:954`); a request that dies in between
  leaves the link as it was. `LinkUseBound` bounds the first and leaves out the
  second. `:93` says the same of the verification link, where requests that overlap
  save the same thing.
- `DeviceManager.ts:148` means to increase the score of a returning device: a login
  that read the row before trustDevice saved 100 (`:220`) writes its old score plus
  5 over it (`:150`), and `isTrusted` (`Device.ts:67`) wants 80. The mark stays, the
  trust is gone until enough logins have raised the score. `DeviceMarksStick` is
  about the mark, and about the trust once no such login is in flight.
- verifyMfaLogin (`AuthService.ts:565`) looks at neither lock of the account: a
  login that began before it was locked completes, deletes the one in Redis and
  clears the one it loaded. `LockStands` excepts it.
- A replica that dies between INCR and PEXPIRE (`RateLimiter.ts:57` to `:60`) leaves a
  counter that never ends. `RefusalEnds` excepts it.
- The same line calls reuse theft: a client that retries a refresh whose answer
  was lost is taken for a thief (`:775` marks before the answer); two refreshes
  in one second give the same token, which the unique hash refuses.
- verifyMfaLogin writes no row of `login_history`, so logins with a second factor
  leave no place behind; `shouldChallenge` is only logged; the fingerprint is
  never passed to recordLoginAttempt, so that every device counts as new.
- `AuditLog.ts:110` says tamper detection. Two honest writers, or clocks that
  disagree, make verifyIntegrity report entries nobody touched, so the first half
  of `ReportsTampering` is about rows written in step; a time stamp moved makes an
  untouched neighbour be reported; and whoever changes a row can compute its hash
  anew, so that the change shows in the rows that name the old hash only: not at
  the end of the chain, nor before the first row that is checked.
- `AuditLog.ts:200` uses `$gt`, which is no operator of Sequelize 6; no caller
  passes the argument. `refresh_tokens.session_id` is declared UUID although
  session ids are 64 hex digits, and so are the columns of `login_history`
  (`LoginHistory.ts:126`) and `audit_logs` (`AuditLog.ts:281`): PostgreSQL would refuse
  rows that carry one. The modules take the columns to accept them.
- `AuthService.ts:1075` to `:1130`: verifyAndEnableMFA takes the secret and the backup
  codes of the body, not those setupMFA answered, and replaces those in force.

## Not modelled

- Present in the code and called by nothing: the OTP of `EmailVerificationOTP`,
  `TokenBlacklist`, `RefreshTokenManager`, `authenticationMiddleware`,
  `SecurityEvent`, `DatabaseTransaction`, rotation of JWT keys, `unblockIP`,
  `blockDevice`, `checkUserRateLimit`. What may overlap with what is decided by
  callers, so a model would have to invent them.
- No state, or no choice worth a model: e-mail beyond sent or lost, events,
  logging, headers, validation, sanitising, password rules, the breach look-up
  (it fails open), geolocation, encryption of columns, hashing.
- Start-up and shutdown: a request that loses its connection is a `Fail` step.
- Response times, the progressive delay and the equalising sleeps of the login.
- A single model of a whole login over all variables: with the state of the
  modules multiplied it is beyond TLC's reach, and what one part relies on of
  another is nothing but that its requests occur.
