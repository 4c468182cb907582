-------------------------- MODULE AccountRecovery --------------------------
(***************************************************************************)
(* The password of one account: forgotPassword, resetPassword and          *)
(* changePassword (src/services/AuthService.ts) with the reset links, the  *)
(* password history, and the index of the sessions that each password      *)
(* opened.                                                                 *)
(*                                                                         *)
(* An action is one statement or command and the code up to the next; no   *)
(* transaction spans two of them.  Of the sessions only the index of the   *)
(* user is kept: whether a session it names or does not name is alive (its *)
(* time to live, DELs of its key, a touch that writes it back) is left     *)
(* open, the module Sessions has that.  No clock: a link may end, an id    *)
(* may leave the index at any moment, and the rows of the history are in   *)
(* the order of their INSERTs, which is that of created_at as long as the  *)
(* clocks of the replicas agree.  What refuses a request without a write   *)
(* (blocked address, weak or breached password) is a request that does not *)
(* start.                                                                  *)
(***************************************************************************)
EXTENDS Integers, FiniteSets, Sequences, Requests

CONSTANTS
    Password,       \* passwords of the user
    Link,           \* tokens crypto.randomBytes can draw
    Session,        \* ids crypto.randomBytes can draw
    HistoryCount    \* config.security.passwordHistoryCount

ASSUME SetAssumption == IsFiniteSet(Proc) /\ Proc # {} /\ IsFiniteSet(Password)
ASSUME NumberAssumption == HistoryCount \in Nat \ {0}

VARIABLES
    password,  \* users.password_hash
    history,   \* the rows of password_history that the next check reads, oldest first
    live,      \* rows of password_reset_tokens neither used nor expired
    listed,    \* ids in user_sessions, with the password that opened the session
    uses,      \* (history variable) passwords saved through each link, those of
               \* requests that died before they marked it taken back
    saver,     \* (history variable) request whose save is in force, until its
               \* row of password_history is inserted
    settled    \* (history variable) the index was cleared since the last save

vars == <<password, history, live, listed, call, uses, saver, settled>>

None == "none"

ASSUME NoneAssumption == None \notin Link \cup Password \cup Session /\ {"recorded", "lost"} \cap Proc = {}

Idle == [pc |-> "idle", kind |-> None, link |-> None, id |-> None, cur |-> None, new |-> None]

Call == [pc   : {"idle", "invalidate", "insertLink", "check", "history", "save",
                 "record", "mark", "clear", "keep", "copyRem", "copyAdd", "create"},
         kind : {"forgot", "reset", "change", "login", None},
         link : Link \cup {None},        \* link of a reset
         id   : Session \cup {None},     \* session of a change
         cur  : Password \cup {None},    \* what opened that session
         new  : Password \cup {None}]    \* password it saves, or logs in with

TypeOK ==
    /\ password \in Password
    /\ history \in Seq(Password) /\ Len(history) <= HistoryCount
    /\ live \subseteq Link
    /\ listed \in [Session -> Password \cup {None}]
    /\ call \in [Proc -> Call]
    /\ uses \in [Link -> Nat]
    /\ saver \in Proc \cup {"recorded", "lost"}
    /\ settled \in BOOLEAN

-----------------------------------------------------------------------------

\* The entries of the index whose session a password other than w opened.
OldEntries(w) == {s \in Session : listed[s] \notin {None, w}}

\* A link that is drawn was never drawn before: as good as one nobody refers to.
FreshLinks == {l \in Link \ live : \A p \in Proc : call[p].link # l}

\* So is an id that neither the index nor a request has.
FreshIds == {s \in Session : listed[s] = None /\ \A p \in Proc : call[p].id # s}

\* An account of some age: each password of Password has been in force and may
\* have opened a session, the last one is recorded last.
Init ==
    /\ history \in [1 .. HistoryCount -> Password]
    /\ password = history[HistoryCount]
    /\ live = {}
    /\ listed = [s \in Session |-> None]
    /\ call = [p \in Proc |-> Idle]
    /\ uses = [l \in Link |-> 0]
    /\ saver = "recorded"
    /\ settled = TRUE

-----------------------------------------------------------------------------
(* forgotPassword                                                          *)

StartForgot(p) ==
    /\ At(p, "idle")
    /\ Go(p, [Idle EXCEPT !.pc = "invalidate", !.kind = "forgot"])
    /\ UNCHANGED <<password, history, live, listed, uses, saver, settled>>

\* Mutant: the links there are stay as they are.
InvalidateNothing(p) ==
    /\ At(p, "invalidate")
    /\ Go(p, [call[p] EXCEPT !.pc = "insertLink"])
    /\ UNCHANGED <<password, history, live, listed, uses, saver, settled>>

\* The UPDATE of every row whose usedAt is null.
InvalidateLinks(p) ==
    /\ At(p, "invalidate")
    /\ live' = {}
    /\ Go(p, [call[p] EXCEPT !.pc = "insertLink"])
    /\ UNCHANGED <<password, history, listed, uses, saver, settled>>

\* The mail follows; sendPasswordResetEmail swallows its errors, and a link whose
\* mail is lost is one that nobody presents.
InsertLink(p) ==
    /\ At(p, "insertLink")
    /\ \E l \in FreshLinks :
          /\ live' = live \cup {l}
          /\ uses' = [uses EXCEPT ![l] = 0]
    /\ Go(p, Idle)
    /\ UNCHANGED <<password, history, listed, saver, settled>>

-----------------------------------------------------------------------------
(* resetPassword and changePassword.                                       *)

\* Any link of any mail, or none that was ever sent.
StartReset(p) ==
    /\ At(p, "idle")
    /\ \E l \in Link :
          Go(p, [Idle EXCEPT !.pc = "check", !.kind = "reset", !.link = l])
    /\ UNCHANGED <<password, history, live, listed, uses, saver, settled>>

\* Mutant: the link only has to exist.
CheckLinkFound(p) ==
    /\ At(p, "check")
    /\ Go(p, [call[p] EXCEPT !.pc = "history"])
    /\ UNCHANGED <<password, history, live, listed, uses, saver, settled>>

\* findOne and isValid.
CheckLink(p) ==
    /\ At(p, "check")
    /\ Go(p, IF call[p].link \in live THEN [call[p] EXCEPT !.pc = "history"] ELSE Idle)
    /\ UNCHANGED <<password, history, live, listed, uses, saver, settled>>

\* authMiddleware and findByPk: the password the caller gives is in force now.
\* The session may be in the index, or of another change in flight, or have
\* dropped out of the index while it is alive.
StartChange(p) ==
    /\ At(p, "idle")
    /\ \E s \in Session, w \in Password :
          /\ \/ listed[s] = w
             \/ \E q \in Proc : call[q].id = s /\ call[q].cur = w
             \/ s \in FreshIds
          /\ Go(p, [Idle EXCEPT !.pc = "history", !.kind = "change", !.id = s, !.cur = w])
    /\ UNCHANGED <<password, history, live, listed, uses, saver, settled>>

\* findAll and matchesAnyInHistory.
ReadHistory(p) ==
    /\ At(p, "history")
    /\ \/ Go(p, Idle)
       \/ \E new \in Password :
             /\ \A i \in 1 .. Len(history) : history[i] # new
             /\ Go(p, [call[p] EXCEPT !.pc = "save", !.new = new])
    /\ UNCHANGED <<password, history, live, listed, uses, saver, settled>>

\* user.save() writes the columns of the password, whatever they hold by now.
SavePassword(p) ==
    /\ At(p, "save")
    /\ password' = call[p].new
    /\ uses' = IF call[p].kind = "reset" THEN [uses EXCEPT ![call[p].link] = @ + 1] ELSE uses
    /\ saver' = p
    /\ settled' = FALSE
    /\ Go(p, [call[p] EXCEPT !.pc = "record"])
    /\ UNCHANGED <<history, live, listed>>

\* The rows that ORDER BY created_at DESC LIMIT HistoryCount returns.
Latest(h) == IF Len(h) > HistoryCount THEN Tail(h) ELSE h

Recorded(p) ==
    /\ saver' = IF saver = p THEN "recorded" ELSE saver
    /\ Go(p, IF call[p].kind = "reset" THEN [call[p] EXCEPT !.pc = "mark", !.new = None]
                                     ELSE [call[p] EXCEPT !.pc = "clear"])
    /\ UNCHANGED <<password, live, listed, uses, settled>>

\* Mutant: the LIMIT is left out.
RecordAll(p) == At(p, "record") /\ history' = Append(history, call[p].new) /\ Recorded(p)

\* Mutant: the order is ascending, the oldest rows are read.
RecordOldest(p) ==
    /\ At(p, "record")
    /\ history' = IF Len(history) < HistoryCount THEN Append(history, call[p].new) ELSE history
    /\ Recorded(p)

\* PasswordHistory.create.
RecordPassword(p) ==
    /\ At(p, "record")
    /\ history' = Latest(Append(history, call[p].new))
    /\ Recorded(p)

MarkAsUsed(p) ==
    /\ At(p, "mark")
    /\ live' = live \ {call[p].link}
    /\ Go(p, [call[p] EXCEPT !.pc = "clear", !.link = None])
    /\ UNCHANGED <<password, history, listed, uses, saver, settled>>

\* The passwords behind an index without the entries of the ids in S.
Without(S) == [s \in Session |-> IF s \in S THEN None ELSE listed[s]]

\* A change goes on with its own session, if getSession finds it.
Cleared(p) ==
    /\ settled' = TRUE
    /\ \/ Go(p, Idle)
       \/ call[p].kind = "change" /\ \E pc \in {"keep", "copyRem"} :
                                        Go(p, [call[p] EXCEPT !.pc = pc])
    /\ UNCHANGED <<password, history, live, uses, saver>>

\* Mutant: ZREMRANGEBYRANK key 1 -1, the first entry stays.
ClearAllButOne(p) ==
    /\ At(p, "clear")
    /\ \E s \in Session : listed' = Without(Session \ {s})
    /\ Cleared(p)

\* revokeAllUserSessions: the DEL or ZREMRANGEBYRANK of the whole index, after
\* the DELs of the sessions that an earlier ZRANGE returned.
ClearIndex(p) ==
    /\ At(p, "clear")
    /\ listed' = Without(Session)
    /\ Cleared(p)

\* The session of a change is put back; regenerateSession then copies it, if
\* its getSession finds it.
KeepAdd(p) ==
    /\ At(p, "keep")
    /\ listed' = [listed EXCEPT ![call[p].id] = call[p].cur]
    /\ Go(p, Idle) \/ Go(p, [call[p] EXCEPT !.pc = "copyRem"])
    /\ UNCHANGED <<password, history, live, uses, saver, settled>>

CopyRem(p) ==
    /\ At(p, "copyRem")
    /\ listed' = Without({call[p].id})
    /\ Go(p, [call[p] EXCEPT !.pc = "copyAdd", !.id = None, !.cur = None])
    /\ UNCHANGED <<password, history, live, uses, saver, settled>>

\* The new id of the session: who changed the password holds it.
CopyAdd(p) ==
    /\ At(p, "copyAdd")
    /\ \E s \in FreshIds : listed' = [listed EXCEPT ![s] = call[p].new]
    /\ Go(p, Idle)
    /\ UNCHANGED <<password, history, live, uses, saver, settled>>

-----------------------------------------------------------------------------
(* login: the row is loaded, the password compared with it, and only later *)
(* is the session created.                                                 *)

StartLogin(p) ==
    /\ At(p, "idle")
    /\ Go(p, [Idle EXCEPT !.pc = "create", !.kind = "login", !.new = password])
    /\ UNCHANGED <<password, history, live, listed, uses, saver, settled>>

\* createSession: the ZADD of a new id; what it evicts leaves the index before.
CreateSession(p) ==
    /\ At(p, "create")
    /\ \E s \in FreshIds : listed' = [listed EXCEPT ![s] = call[p].new]
    /\ Go(p, Idle)
    /\ UNCHANGED <<password, history, live, uses, saver, settled>>

-----------------------------------------------------------------------------

LinkExpires ==
    /\ \E l \in live : live' = live \ {l}
    /\ UNCHANGED <<password, history, listed, call, uses, saver, settled>>

\* An eviction, a logout, a DELETE, or a list that finds the session gone.
EntryLeaves ==
    /\ \E s \in Session : listed[s] # None /\ listed' = Without({s})
    /\ UNCHANGED <<password, history, live, call, uses, saver, settled>>

\* A statement rejects or the replica dies: the rest is not run.
Fail(p) ==
    /\ CanFail /\ ~At(p, "idle")
    /\ uses' = IF call[p].kind = "reset" /\ call[p].pc \in {"record", "mark"}
               THEN [uses EXCEPT ![call[p].link] = @ - 1] ELSE uses
    /\ saver' = IF saver = p THEN "lost" ELSE saver
    /\ Go(p, Idle)
    /\ UNCHANGED <<password, history, live, listed, settled>>

Forgot(p) == StartForgot(p) \/ InvalidateLinks(p) \/ InsertLink(p)

Replace(p) ==
    \/ StartReset(p) \/ CheckLink(p) \/ StartChange(p)
    \/ ReadHistory(p) \/ SavePassword(p) \/ RecordPassword(p) \/ MarkAsUsed(p)
    \/ ClearIndex(p) \/ KeepAdd(p) \/ CopyRem(p) \/ CopyAdd(p)

Next ==
    \/ LinkExpires \/ EntryLeaves
    \/ \E p \in Proc :
          Forgot(p) \/ Replace(p) \/ StartLogin(p) \/ CreateSession(p) \/ Fail(p)

Spec == Init /\ [][Next]_vars
-----------------------------------------------------------------------------
(* Properties.                                                             *)

\* forgotPassword invalidates the links there are, then inserts its own:
\* concurrent requests leave several links that work, but never more than one
\* for each request that can be in flight.
LinkBound == Cardinality(live) <= Cardinality(Proc)

\* A link is marked used after the password is saved, so requests that overlap
\* can each save a password through it (the mail says it can only be used once),
\* and one that dies in between leaves it as it was.  But a link that has been
\* used to the end is never accepted by a later request: leaving out the
\* passwords of requests that died before the mark, a link saves no more than
\* one for each request that can be in flight.
LinkUseBound == \A l \in Link : uses[l] <= Cardinality(Proc)

\* Passwords saved concurrently reach the history in any order.  The password
\* in force is nevertheless among the rows the next check reads, so that it
\* cannot be chosen again, if the history is as long as requests can overlap;
\* except while its own row is on the way, or was lost with its request.
CurrentRecorded ==
    \/ HistoryCount < Cardinality(Proc)
    \/ saver # "recorded"
    \/ \E i \in 1 .. Len(history) : history[i] = password

\* Logins that found an older password right, and have yet to list their session.
LateLogins == {p \in Proc : call[p].pc = "create" /\ call[p].new # password}

\* Once the index has been cleared after the last change of the password, the
\* entries that an older password opened are of logins and changes that were in
\* flight when it was cleared: with those still to come no more than requests can
\* be in flight, the session that a change keeps included.  Sessions that dropped
\* out of the index while alive, which no revocation finds, are not among them.
SurvivorBound ==
    settled => Cardinality(OldEntries(password)) + Cardinality(LateLogins) <= Cardinality(Proc)
=============================================================================
