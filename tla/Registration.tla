---------------------------- MODULE Registration ----------------------------
(***************************************************************************)
(* How one e-mail address becomes a verified account                       *)
(* (src/services/AuthService.ts: register, verifyEmail,                    *)
(* resendVerificationEmail), and the windows that limit how often the      *)
(* verification mail is sent again (src/services/RateLimiter.ts:           *)
(* checkEmailResendLimit).                                                 *)
(*                                                                         *)
(* An action is one statement or Redis command and the code up to the      *)
(* next.  No clock: links and windows end at any moment, and a mail may    *)
(* not be delivered.  Resends come from one IP address.                    *)
(***************************************************************************)
EXTENDS Integers, FiniteSets, Requests

CONSTANTS
    Token,       \* verification tokens crypto.randomBytes can draw
    EmailLimit,  \* config.rateLimit.emailResendPerEmail
    IpLimit      \* config.rateLimit.emailResendPerIP

ASSUME ProcAssumption == IsFiniteSet(Proc)
ASSUME LimitAssumption == EmailLimit \in Nat \ {0} /\ IpLimit \in Nat \ {0}

VARIABLES
    user,     \* the row of users
    recorded, \* rows of password_history of the user
    window,   \* the counters email_resend:<email> and ip_email_resend:<ip>
    mailed,   \* tokens whose link has been delivered
    created,  \* (history variable) rows of users inserted
    lost,     \* (history variable) tokens stored whose mail was not delivered
    resent    \* (history variable) links sent again since the e-mail's window began

vars == <<user, recorded, window, mailed, call, created, lost, resent>>

None == "none"

Keys == {"email", "ip"}

Limit == [email |-> EmailLimit, ip |-> IpLimit]

Closed == [count |-> 0, ends |-> FALSE]

Idle == [pc |-> "idle", key |-> "email", token |-> None, again |-> FALSE]

Call == [pc    : {"idle", "insert", "history", "count", "expire", "load", "save", "mail", "verify"},
         key   : Keys,                    \* counter it is at
         token : Token \cup {None},       \* token it has drawn, or found
         again : BOOLEAN]                 \* a resend

TypeOK ==
    /\ user \in [exists : BOOLEAN, verified : BOOLEAN, token : Token \cup {None}, live : BOOLEAN]
    /\ recorded \in 0..1
    /\ \A k \in Keys : window[k] \in [count : 0..(Limit[k] + 1), ends : BOOLEAN]
    /\ mailed \subseteq Token
    /\ call \in [Proc -> Call]
    /\ created \in 0..1
    /\ lost \subseteq Token
    /\ resent \in Nat

-----------------------------------------------------------------------------

Init ==
    /\ user = [exists |-> FALSE, verified |-> FALSE, token |-> None, live |-> FALSE]
    /\ recorded = 0
    /\ window = [k \in Keys |-> Closed]
    /\ mailed = {}
    /\ call = [p \in Proc |-> Idle]
    /\ created = 0
    /\ lost = {}
    /\ resent = 0

\* randomBytes(32) draws a new token: one that no row and no request refers to
\* stands for it, and its old link, which is refused anyway, is forgotten.
Draw(t) ==
    /\ t \notin {user.token} \cup {call[p].token : p \in Proc}
    /\ mailed' = mailed \ {t}
    /\ lost' = lost \ {t}

-----------------------------------------------------------------------------
(* register                                                                *)

\* From findOne on: an e-mail that has a row is refused.
StartRegister(p) ==
    /\ At(p, "idle") /\ ~user.exists
    /\ \E t \in Token : Draw(t) /\ Go(p, [Idle EXCEPT !.pc = "insert", !.token = t])
    /\ UNCHANGED <<user, recorded, window, created, resent>>

\* Mutant: the row is written whether or not another request has inserted it.
InsertUserUpsert(p) ==
    /\ At(p, "insert")
    /\ user' = [exists |-> TRUE, verified |-> FALSE, token |-> call[p].token, live |-> TRUE]
    /\ created' = created + 1
    /\ Go(p, [call[p] EXCEPT !.pc = "history"])
    /\ UNCHANGED <<recorded, window, mailed, lost, resent>>

\* users.email is unique: of two requests that found no row one is refused.
InsertUser(p) ==
    /\ At(p, "insert")
    /\ IF user.exists
       THEN Go(p, Idle) /\ UNCHANGED <<user, created>>
       ELSE /\ user' = [exists |-> TRUE, verified |-> FALSE, token |-> call[p].token, live |-> TRUE]
            /\ created' = created + 1
            /\ Go(p, [call[p] EXCEPT !.pc = "history"])
    /\ UNCHANGED <<recorded, window, mailed, lost, resent>>

InsertHistory(p) ==
    /\ At(p, "history")
    /\ recorded' = recorded + 1
    /\ Go(p, [call[p] EXCEPT !.pc = "mail"])
    /\ UNCHANGED <<user, window, mailed, created, lost, resent>>

-----------------------------------------------------------------------------
(* resendVerificationEmail                                                 *)

StartResend(p) ==
    /\ At(p, "idle")
    /\ Go(p, [Idle EXCEPT !.pc = "count", !.again = TRUE])
    /\ UNCHANGED <<user, recorded, window, mailed, created, lost, resent>>

\* The counter allows the request: on to the next one, or to the user.
Allowed(c) == IF c.key = "email" THEN [c EXCEPT !.pc = "count", !.key = "ip"]
              ELSE [c EXCEPT !.pc = "load", !.key = "email"]

\* Mutant: the count before the request is compared.
CountResendLate(p) ==
    /\ At(p, "count")
    /\ LET k == call[p].key
           n == window[k].count
       IN  /\ window' = [window EXCEPT ![k].count = IF n > Limit[k] THEN n ELSE n + 1]
           /\ Go(p, IF n = 0 THEN [call[p] EXCEPT !.pc = "expire"]
                    ELSE IF n > Limit[k] THEN Idle
                    ELSE Allowed(call[p]))
    /\ UNCHANGED <<user, recorded, mailed, created, lost, resent>>

\* INCR; the first of a window goes on to set the key's time to live.
CountResend(p) ==
    /\ At(p, "count")
    /\ LET k == call[p].key
           n == window[k].count
       IN  /\ window' = [window EXCEPT ![k].count = IF n > Limit[k] THEN n ELSE n + 1]
           /\ Go(p, IF n = 0 THEN [call[p] EXCEPT !.pc = "expire"]
                    ELSE IF n >= Limit[k] THEN Idle
                    ELSE Allowed(call[p]))
    /\ UNCHANGED <<user, recorded, mailed, created, lost, resent>>

ExpireWindow(p) ==
    /\ At(p, "expire")
    /\ window' = [window EXCEPT ![call[p].key].ends = TRUE]
    /\ Go(p, Allowed(call[p]))
    /\ UNCHANGED <<user, recorded, mailed, created, lost, resent>>

WindowEnds(k) ==
    /\ window[k].ends
    /\ window' = [window EXCEPT ![k] = Closed]
    /\ resent' = IF k = "email" THEN 0 ELSE resent
    /\ UNCHANGED <<user, recorded, mailed, call, created, lost>>

\* findOne: nothing is sent to an e-mail without a row, or verified.
LoadUser(p) ==
    /\ At(p, "load")
    /\ IF user.exists /\ ~user.verified
       THEN \E t \in Token : Draw(t) /\ Go(p, [call[p] EXCEPT !.pc = "save", !.token = t])
       ELSE Go(p, Idle) /\ UNCHANGED <<mailed, lost>>
    /\ UNCHANGED <<user, recorded, window, created, resent>>

\* Mutant: save() writes every column of the row as it was read.
SaveTokenRow(p) ==
    /\ At(p, "save")
    /\ user' = [user EXCEPT !.verified = FALSE, !.token = call[p].token, !.live = TRUE]
    /\ Go(p, [call[p] EXCEPT !.pc = "mail"])
    /\ UNCHANGED <<recorded, window, mailed, created, lost, resent>>

\* save() writes the token and its expiry.
SaveToken(p) ==
    /\ At(p, "save")
    /\ user' = [user EXCEPT !.token = call[p].token, !.live = TRUE]
    /\ Go(p, [call[p] EXCEPT !.pc = "mail"])
    /\ UNCHANGED <<recorded, window, mailed, created, lost, resent>>

-----------------------------------------------------------------------------

\* Mutant: the mail carries the token of the row as it was loaded.
SendMailOld(p) ==
    /\ At(p, "mail")
    /\ UNCHANGED <<mailed, lost>>
    /\ resent' = IF call[p].again THEN resent + 1 ELSE resent
    /\ Go(p, Idle)
    /\ UNCHANGED <<user, recorded, window, created>>

\* sendVerificationEmail swallows its errors.
SendMail(p) ==
    /\ At(p, "mail")
    /\ \/ mailed' = mailed \cup {call[p].token} /\ UNCHANGED lost
       \/ lost' = lost \cup {call[p].token} /\ UNCHANGED mailed
    /\ resent' = IF call[p].again THEN resent + 1 ELSE resent
    /\ Go(p, Idle)
    /\ UNCHANGED <<user, recorded, window, created>>

-----------------------------------------------------------------------------
(* verifyEmail                                                             *)

\* findOne by the token of a link, not expired; any other link is refused.
StartVerify(p) ==
    /\ At(p, "idle")
    /\ user.token \in mailed /\ user.live
    /\ Go(p, [Idle EXCEPT !.pc = "verify", !.token = user.token])
    /\ UNCHANGED <<user, recorded, window, mailed, created, lost, resent>>

\* save(), whatever the token is by now.
SaveVerified(p) ==
    /\ At(p, "verify")
    /\ user' = [user EXCEPT !.verified = TRUE, !.token = None, !.live = FALSE]
    /\ Go(p, Idle)
    /\ UNCHANGED <<recorded, window, mailed, created, lost, resent>>

LinkExpires ==
    /\ user.live
    /\ user' = [user EXCEPT !.live = FALSE]
    /\ UNCHANGED <<recorded, window, mailed, call, created, lost, resent>>

-----------------------------------------------------------------------------

\* A statement rejects or the replica dies: the rest is not run.
Fail(p) ==
    /\ CanFail /\ ~At(p, "idle")
    /\ lost' = IF call[p].pc \in {"history", "mail"} THEN lost \cup {call[p].token} ELSE lost
    /\ Go(p, Idle)
    /\ UNCHANGED <<user, recorded, window, mailed, created, resent>>

Next ==
    \/ LinkExpires
    \/ \E k \in Keys : WindowEnds(k)
    \/ \E p \in Proc :
          \/ StartRegister(p) \/ InsertUser(p) \/ InsertHistory(p)
          \/ StartResend(p) \/ CountResend(p) \/ ExpireWindow(p) \/ LoadUser(p) \/ SaveToken(p)
          \/ SendMail(p) \/ StartVerify(p) \/ SaveVerified(p) \/ Fail(p)

Spec == Init /\ [][Next]_vars
-----------------------------------------------------------------------------
(* Properties.                                                             *)

\* A resend and a registration read the row before another request verified
\* it, and save it after: the account stays verified.
VerifiedStays == [][user.verified => user'.verified]_vars

\* The link that works is one that was sent: when every request has ended, the
\* token of an account not yet verified is in a mail, or its mail was lost.
LinkArrives ==
    (\A p \in Proc : At(p, "idle")) /\ user.exists /\ ~user.verified
        => user.token \in mailed \cup lost

\* A window lets EmailLimit links be sent again; those that passed the count in
\* an earlier window, and are sent in this one, are at most one per request.
ResendBound == resent <= EmailLimit + Cardinality(Proc)

\* Requests between the INCR and the PEXPIRE of a counter.
Starting(k) == {p \in Proc : At(p, "expire") /\ call[p].key = k}

\* A window is given its end once, by the request that started it, while its key
\* exists; a counter without an end waits for it, or a request died there.
WindowHasEnd == \A k \in Keys :
    /\ window[k].ends => window[k].count > 0
    /\ \A p \in Starting(k) : window[k].count > 0 /\ ~window[k].ends /\ Starting(k) = {p}
    /\ window[k].count > 0 => window[k].ends \/ CanFail \/ Starting(k) # {}
=============================================================================
