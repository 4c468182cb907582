---------------------------- MODULE SecondFactor ----------------------------
(***************************************************************************)
(* How a login of one user goes on once its password is right: the second  *)
(* factor, the temporary token, the device it comes from and the session   *)
(* (src/services/AuthService.ts: login, verifyMfaLogin,                    *)
(* verifyAndEnableMFA; MFAService.ts, DeviceManager.ts), while other       *)
(* requests enable MFA, trust the device or revoke it.  setupMFA answers a *)
(* secret and backup codes and keeps nothing; nobody calls blockDevice.    *)
(*                                                                         *)
(* An action is one statement and the code up to the next.  The row of     *)
(* users is loaded once, at the start: what a login decides about MFA it   *)
(* decides on that instance.  One device fingerprint; no clock: a          *)
(* temporary token may expire at any moment.                               *)
(***************************************************************************)
EXTENDS Integers, FiniteSets, Requests

CONSTANTS
    Secret,  \* TOTP secrets
    Code,    \* backup codes, as the user receives them
    Ticket,  \* temporary tokens crypto.randomBytes can draw
    Device,  \* ids of rows of devices
    FirstScore, Bonus, TrustAt, FullScore  \* 20, 5, 80 and 100 of trust_score

ASSUME ProcAssumption == IsFiniteSet(Proc) /\ Proc # {}
ASSUME ScoreAssumption ==
    /\ Bonus \in Nat \ {0} /\ FullScore \in Nat
    /\ FirstScore \in 0 .. FullScore /\ TrustAt \in 0 .. FullScore

VARIABLES
    mfa,      \* users.mfa_secret, None while mfa_enabled is false
    codes,    \* users.mfa_backup_codes
    tickets,  \* temporary tokens alive in Redis
    device,   \* rows of devices: none, active or revoked
    trusted,  \* rows whose trust_level is TRUSTED
    score,    \* trust_score of each row
    weak,     \* (history variable) sessions created since MFA was last enabled
              \* without a code of the secret enabled then
    uses,     \* (history variable) logins completed with each temporary token
    refused   \* (history variable) logins whose INSERT of the device was refused
              \* since a device was last revoked, those in between excluded

vars == <<mfa, codes, tickets, device, trusted, score, call, weak, uses, refused>>

None == "none"

ASSUME NoneAssumption == None \notin Secret \cup Ticket \cup Device

Idle == [pc |-> "idle", ticket |-> None, proof |-> None, device |-> None, score |-> 0]

Score == 0 .. FullScore

Call == [pc     : {"idle", "challenge", "claim", "loadMfa", "find", "touch", "insert",
                   "session", "saveTrust", "saveRevoke"},
         ticket : Ticket \cup {None},    \* temporary token it was given
         proof  : Secret \cup {None},    \* secret its code was verified against
         device : Device \cup {None},    \* row it has loaded and will save
         score  : Score]                 \* trust_score of that row then

\* hashBackupCode: the stored form of a code is never the code itself.
Hashed(c) == <<"sha256", c>>

TypeOK ==
    /\ mfa \in Secret \cup {None}
    /\ codes \subseteq {Hashed(c) : c \in Code}
    /\ tickets \subseteq Ticket
    /\ device \in [Device -> {"none", "active", "revoked"}]
    /\ trusted \subseteq Device
    /\ score \in [Device -> Score]
    /\ call \in [Proc -> Call]
    /\ weak \in Nat
    /\ uses \in [Ticket -> Nat]
    /\ refused \in Nat

-----------------------------------------------------------------------------

Active == {d \in Device : device[d] = "active"}

\* The score of a device that is used once more.
Raised(s) == IF s + Bonus < FullScore THEN s + Bonus ELSE FullScore

\* isTrusted
IsTrusted(d) == d \in trusted /\ TrustAt <= score[d]

\* A request with the row it works on: save() writes what differs from it.
Loaded(c, d) == [c EXCEPT !.device = d, !.score = score[d]]

Init ==
    /\ mfa = None
    /\ codes = {}
    /\ tickets = {}
    /\ device = [d \in Device |-> "none"]
    /\ trusted = {}
    /\ score = [d \in Device |-> 0]
    /\ call = [p \in Proc |-> Idle]
    /\ weak = 0
    /\ uses = [t \in Ticket |-> 0]
    /\ refused = 0

-----------------------------------------------------------------------------
(* verifyAndEnableMFA                                                      *)

\* Mutant: the backup codes are stored as they are shown to the user.
EnableMfaPlain ==
    /\ \E s \in Secret : mfa' = s
    /\ codes' = Code
    /\ weak' = 0
    /\ UNCHANGED <<tickets, device, trusted, score, call, uses, refused>>

\* Any secret of the body, with a code of it: neither what setupMFA offered nor
\* whether MFA is enabled already is looked at.
EnableMfa ==
    /\ \E s \in Secret : mfa' = s
    /\ codes' = {Hashed(c) : c \in Code}
    /\ weak' = 0
    /\ UNCHANGED <<tickets, device, trusted, score, call, uses, refused>>

-----------------------------------------------------------------------------
(* login, from findOne on, and verifyMfaLogin.                             *)

\* The caller's token is a TOTP code of the secret loaded: the login goes on.
ProveTotp(p) ==
    /\ Go(p, [call[p] EXCEPT !.pc = "find", !.proof = mfa])
    /\ UNCHANGED codes

\* Mutant: whether MFA is enabled is not looked at.
LoginPlain(p) ==
    /\ At(p, "idle")
    /\ Go(p, [Idle EXCEPT !.pc = "find"])
    /\ UNCHANGED <<mfa, codes, tickets, device, trusted, score, weak, uses, refused>>

\* What a login does about MFA: nothing, ask for a code, or verify the one given.
Login(p) ==
    /\ At(p, "idle")
    /\ \/ mfa = None /\ Go(p, [Idle EXCEPT !.pc = "find"]) /\ UNCHANGED codes
       \/ mfa # None /\ Go(p, [Idle EXCEPT !.pc = "challenge"]) /\ UNCHANGED codes
       \/ mfa # None /\ ProveTotp(p)
    /\ UNCHANGED <<mfa, tickets, device, trusted, score, weak, uses, refused>>

\* setTempToken
SetTicket(p) ==
    /\ At(p, "challenge")
    /\ \E t \in Ticket \ tickets :
          /\ \A q \in Proc : call[q].ticket # t
          /\ tickets' = tickets \cup {t}
          /\ uses' = [uses EXCEPT ![t] = 0]
    /\ Go(p, Idle)
    /\ UNCHANGED <<mfa, codes, device, trusted, score, weak, refused>>

\* getTempToken: the GET,
StartMfa(p) ==
    /\ At(p, "idle")
    /\ \E t \in tickets : Go(p, [Idle EXCEPT !.pc = "claim", !.ticket = t])
    /\ UNCHANGED <<mfa, codes, tickets, device, trusted, score, weak, uses, refused>>

\* Mutant: the DEL is left to the expiry of the key.
ClaimTicketKept(p) ==
    /\ At(p, "claim")
    /\ Go(p, [call[p] EXCEPT !.pc = "loadMfa"])
    /\ UNCHANGED <<mfa, codes, tickets, device, trusted, score, weak, uses, refused>>

\* and the DEL, before the code is looked at.
ClaimTicket(p) ==
    /\ At(p, "claim")
    /\ tickets' = tickets \ {call[p].ticket}
    /\ Go(p, [call[p] EXCEPT !.pc = "loadMfa"])
    /\ UNCHANGED <<mfa, codes, device, trusted, score, weak, uses, refused>>

\* findByPk: the secret is the one the row holds now.
VerifyMfa(p) ==
    /\ At(p, "loadMfa")
    /\ ProveTotp(p)
    /\ UNCHANGED <<mfa, tickets, device, trusted, score, weak, uses, refused>>

\* Any other token is tried as a backup code: useBackupCode looks the token up
\* in the stored list (indexOf), and the login ends if it is not there.
TryBackupCode(p, c) ==
    /\ At(p, "loadMfa") \/ (At(p, "idle") /\ mfa # None)
    /\ codes' = codes \ {c}
    /\ Go(p, IF c \in codes THEN [call[p] EXCEPT !.pc = "find", !.proof = mfa] ELSE Idle)
    /\ UNCHANGED <<mfa, tickets, device, trusted, score, weak, uses, refused>>

-----------------------------------------------------------------------------
(* registerDevice, then createSession.                                     *)

\* Mutant: only a trusted device is recognised.
FindDeviceTrusted(p) ==
    /\ At(p, "find")
    /\ \/ Go(p, [call[p] EXCEPT !.pc = "session"])
       \/ Active \cap trusted = {} /\ Go(p, [call[p] EXCEPT !.pc = "insert"])
       \/ \E d \in Active \cap trusted : Go(p, Loaded([call[p] EXCEPT !.pc = "touch"], d))
    /\ UNCHANGED <<mfa, codes, tickets, device, trusted, score, weak, uses, refused>>

\* findOne of a row not revoked, if the client sends a fingerprint.
FindDevice(p) ==
    /\ At(p, "find")
    /\ \/ Go(p, [call[p] EXCEPT !.pc = "session"])
       \/ Active = {} /\ Go(p, [call[p] EXCEPT !.pc = "insert"])
       \/ \E d \in Active : Go(p, Loaded([call[p] EXCEPT !.pc = "touch"], d))
    /\ UNCHANGED <<mfa, codes, tickets, device, trusted, score, weak, uses, refused>>

Touched(p) ==
    /\ score' = IF call[p].score < FullScore
                THEN [score EXCEPT ![call[p].device] = Raised(call[p].score)] ELSE score
    /\ Go(p, [call[p] EXCEPT !.pc = "session", !.device = None, !.score = 0])
    /\ UNCHANGED <<mfa, codes, tickets, trusted, weak, uses, refused>>

\* Mutant: save() writes every column of the row as it was read.
TouchDeviceRow(p) ==
    /\ At(p, "touch")
    /\ device' = [device EXCEPT ![call[p].device] = "active"]
    /\ Touched(p)

\* save() writes last use, count and place, which are not modelled, and the score
\* that was read, raised: what a trust saved in between is written over.
TouchDevice(p) ==
    /\ At(p, "touch")
    /\ UNCHANGED device
    /\ Touched(p)

\* The INSERT: the index on user and fingerprint of the rows not revoked is
\* unique, so the login fails if another request has inserted the device since.
InsertDevice(p) ==
    /\ At(p, "insert")
    /\ IF Active # {}
       THEN refused' = refused + 1 /\ Go(p, Idle) /\ UNCHANGED <<device, trusted, score>>
       ELSE \E d \in Device :
               /\ \A q \in Proc : call[q].device # d
               /\ device' = [device EXCEPT ![d] = "active"]
               /\ trusted' = trusted \ {d}
               /\ score' = [score EXCEPT ![d] = FirstScore]
               /\ Go(p, [call[p] EXCEPT !.pc = "session"])
               /\ UNCHANGED refused
    /\ UNCHANGED <<mfa, codes, tickets, weak, uses>>

\* createSession, the tokens and recordLogin, and the answer.
CompleteLogin(p) ==
    /\ At(p, "session")
    /\ weak' = IF mfa # None /\ call[p].proof # mfa THEN weak + 1 ELSE weak
    /\ uses' = IF call[p].ticket = None THEN uses ELSE [uses EXCEPT ![call[p].ticket] = @ + 1]
    /\ Go(p, Idle)
    /\ UNCHANGED <<mfa, codes, tickets, device, trusted, score, refused>>

-----------------------------------------------------------------------------
(* trustDevice and revokeDevice, for the routes of an authenticated user.  *)

StartTrust(p) ==
    /\ At(p, "idle")
    /\ \E d \in Active : Go(p, Loaded([Idle EXCEPT !.pc = "saveTrust"], d))
    /\ UNCHANGED <<mfa, codes, tickets, device, trusted, score, weak, uses, refused>>

SaveTrust(p) ==
    /\ At(p, "saveTrust")
    /\ trusted' = trusted \cup {call[p].device}
    /\ score' = IF call[p].score # FullScore
                THEN [score EXCEPT ![call[p].device] = FullScore] ELSE score
    /\ Go(p, Idle)
    /\ UNCHANGED <<mfa, codes, tickets, device, weak, uses, refused>>

StartRevoke(p) ==
    /\ At(p, "idle")
    /\ \E d \in Active : Go(p, [Idle EXCEPT !.pc = "saveRevoke", !.device = d])
    /\ UNCHANGED <<mfa, codes, tickets, device, trusted, score, weak, uses, refused>>

SaveRevoke(p) ==
    /\ At(p, "saveRevoke")
    /\ device' = [device EXCEPT ![call[p].device] = "revoked"]
    /\ refused' = 0
    /\ Go(p, Idle)
    /\ UNCHANGED <<mfa, codes, tickets, trusted, score, weak, uses>>

Devices(p) == StartTrust(p) \/ SaveTrust(p) \/ StartRevoke(p) \/ SaveRevoke(p)

-----------------------------------------------------------------------------

TicketExpires ==
    /\ \E t \in tickets : tickets' = tickets \ {t}
    /\ UNCHANGED <<mfa, codes, device, trusted, score, call, weak, uses, refused>>

\* A statement rejects or the replica dies: the rest is not run.
Fail(p) ==
    /\ CanFail /\ ~At(p, "idle")
    /\ Go(p, Idle)
    /\ UNCHANGED <<mfa, codes, tickets, device, trusted, score, weak, uses, refused>>

Next ==
    \/ EnableMfa \/ TicketExpires
    \/ \E p \in Proc :
          \/ Login(p) \/ SetTicket(p) \/ StartMfa(p) \/ ClaimTicket(p) \/ VerifyMfa(p)
          \/ \E c \in Code : TryBackupCode(p, c)
          \/ FindDevice(p) \/ TouchDevice(p) \/ InsertDevice(p) \/ CompleteLogin(p)
          \/ Devices(p) \/ Fail(p)

Spec == Init /\ [][Next]_vars
-----------------------------------------------------------------------------
(* Properties.                                                             *)

\* A login decides about MFA on the row it loaded at its start.  Once MFA is
\* enabled, or enabled anew with another secret, the sessions created without
\* a code of that secret are those of logins in flight at that moment.
WeakBound == weak <= Cardinality(Proc)

\* The GET and the DEL of a temporary token are two commands: the token can
\* complete several logins, but only of requests that overlap, and none once
\* one of them has come to the DEL.
TicketBound == \A t \in Ticket : uses[t] <= Cardinality(Proc)

\* First logins from one device that overlap are refused, whatever their
\* password, but for one; all later ones find the device.
RefusalBound == refused < Cardinality(Proc)

\* The device is trusted, and so it is after the logins that have read its row
\* and not yet saved it.
FirmlyTrusted(d) ==
    /\ IsTrusted(d)
    /\ \A p \in Proc : At(p, "touch") /\ call[p].device = d => TrustAt <= Raised(call[p].score)

\* Logins and trusts save rows they read before the device was revoked or
\* trusted.  They take back neither mark; but a login writes the score it read,
\* raised, over the full score of a trust, and the device is trusted no longer.
\* Logins that read the row later do not: once the others have saved, a device
\* that is trusted stays so.  Only a new row starts again.
DeviceMarksStick ==
    [][\A d \in Device :
          \/ device[d] = "revoked" /\ device'[d] # "revoked"
          \/ d \in trusted /\ d \notin trusted'
          \/ FirmlyTrusted(d) /\ ~FirmlyTrusted(d)'
          => \E p \in Proc : InsertDevice(p)]_vars

\* "Try backup codes" (AuthService.ts:423 and :585): a code that the user was
\* given when MFA was enabled, and has not used, proves the second factor.
BackupCodeWorks ==
    [][\A p \in Proc, c \in Code :
          /\ At(p, "loadMfa") /\ codes = {Hashed(b) : b \in Code}
          /\ TryBackupCode(p, c)
          => call'[p].pc = "find"]_vars
=============================================================================
