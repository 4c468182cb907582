-------------------------- MODULE RegistrationProofs --------------------------
(***************************************************************************)
(* For every number of requests and tokens and every limit: the type       *)
(* invariant of Registration and its properties.  The link of an account   *)
(* that is not verified has been sent, or lost, or a request is still on   *)
(* its way to send it; what has been sent again in a window, with the      *)
(* requests that may still send, is bounded by what the window has         *)
(* counted; and windows have an end.                                       *)
(***************************************************************************)
EXTENDS Registration, FiniteSetTheorems, TLAPS

\* Requests that have drawn a token.
DrawnInv == \A p \in Proc :
    call[p].pc \in {"insert", "history", "save", "mail"} => call[p].token \in Token

WindowInv ==
    /\ window \in [Keys -> [count : Nat, ends : BOOLEAN]]
    /\ \A k \in Keys : window[k].count <= Limit[k] + 1

\* One row is inserted, and one request goes on to record its password.
RowInv ==
    /\ created = IF user.exists THEN 1 ELSE 0
    /\ recorded \in 0..1
    /\ ~user.exists => recorded = 0
    /\ user.verified \/ user.live => user.exists
    /\ \A p \in Proc : call[p].pc \in {"history", "save", "verify"} => user.exists
    /\ \A p \in Proc : call[p].pc = "history" => recorded = 0
    /\ \A p, q \in Proc : call[p].pc = "history" /\ call[q].pc = "history" => p = q

\* A request that is on its way to send the link.
Sends(p) == call[p].pc \in {"history", "mail"} /\ call[p].token = user.token

SentInv ==
    user.exists /\ ~user.verified => user.token \in mailed \cup lost \/ \E p \in Proc : Sends(p)

\* Resends that have passed the count of the e-mail.
HasPassed(c) ==
    /\ c.again /\ c.pc # "idle"
    /\ c.pc = "count" => c.key = "ip"

Passed == {p \in Proc : HasPassed(call[p])}

ResendInv ==
    /\ resent + Cardinality(Passed) <= window["email"].count + Cardinality(Proc)
    /\ resent + Cardinality(Passed) <= EmailLimit + Cardinality(Proc)

Types ==
    /\ user \in [exists : BOOLEAN, verified : BOOLEAN, token : Token \cup {None}, live : BOOLEAN]
    /\ mailed \subseteq Token
    /\ call \in [Proc -> Call]
    /\ lost \subseteq Token
    /\ resent \in Nat

RegistrationInv ==
    Types /\ WindowInv /\ DrawnInv /\ RowInv /\ SentInv /\ ResendInv

-----------------------------------------------------------------------------
(* Counting requests.                                                      *)

LEMMA Fewer ==
  ASSUME NEW A, NEW B, A \subseteq B, B \subseteq Proc
  PROVE  /\ Cardinality(A) \in Nat /\ Cardinality(B) \in Nat /\ Cardinality(Proc) \in Nat
         /\ Cardinality(A) <= Cardinality(B) /\ Cardinality(B) <= Cardinality(Proc)
<1>1. IsFiniteSet(B) /\ Cardinality(B) <= Cardinality(Proc)
  BY ProcAssumption, FS_Subset
<1>2. IsFiniteSet(A) /\ Cardinality(A) <= Cardinality(B)
  BY <1>1, FS_Subset
<1> QED
  BY <1>1, <1>2, ProcAssumption, FS_CardinalityType

LEMMA OneFewer ==
  ASSUME NEW A, NEW B, NEW p \in B, A \subseteq B \ {p}, B \subseteq Proc
  PROVE  /\ Cardinality(A) \in Nat /\ Cardinality(B) \in Nat
         /\ Cardinality(A) + 1 <= Cardinality(B)
<1>1. IsFiniteSet(B)
  BY ProcAssumption, FS_Subset
<1>2. Cardinality(B \ {p}) = Cardinality(B) - 1
  BY <1>1, FS_RemoveElement
<1>3. Cardinality(A) \in Nat /\ Cardinality(A) <= Cardinality(B \ {p})
  BY Fewer
<1> QED
  BY <1>2, <1>3, Fewer

LEMMA OneMore ==
  ASSUME NEW A, NEW B, NEW p \in Proc, A \subseteq B \cup {p}, B \subseteq Proc
  PROVE  /\ Cardinality(A) \in Nat /\ Cardinality(B) \in Nat
         /\ Cardinality(A) <= Cardinality(B) + 1
<1>1. IsFiniteSet(B)
  BY ProcAssumption, FS_Subset
<1>2. IsFiniteSet(B \cup {p}) /\ Cardinality(B) \in Nat
      /\ Cardinality(B \cup {p}) \in {Cardinality(B), Cardinality(B) + 1}
  BY <1>1, FS_AddElement, FS_CardinalityType
<1>3. Cardinality(A) \in Nat /\ Cardinality(A) <= Cardinality(B \cup {p})
  BY Fewer
<1> QED
  BY <1>2, <1>3, Fewer

LEMMA IdleCall ==
  /\ Idle \in Call /\ Idle.pc = "idle" /\ Idle.key = "email"
  /\ Idle.token = None /\ Idle.again = FALSE
  BY DEF Idle, Call, Keys

\* A step that moves one request.
LEMMA Moved ==
  ASSUME RegistrationInv, NEW p \in Proc, NEW c \in Call, Go(p, c)
  PROVE  /\ call' \in [Proc -> Call]
         /\ call'[p] = c
         /\ \A q \in Proc \ {p} : call'[q] = call[q]
  BY DEF RegistrationInv, Types, Go

\* What is known of a request and of the windows before a step.
LEMMA Here ==
  ASSUME RegistrationInv, NEW p \in Proc
  PROVE  /\ call[p] \in Call
         /\ call[p].token \in Token \cup {None} /\ call[p].key \in Keys /\ call[p].again \in BOOLEAN
         /\ \A k \in Keys : window[k] \in [count : Nat, ends : BOOLEAN]
         /\ window["email"].count \in Nat
  BY DEF RegistrationInv, Types, WindowInv, Call, Keys

LEMMA LimitType ==
  Limit["email"] = EmailLimit /\ \A k \in Keys : Limit[k] \in Nat \ {0}
  BY LimitAssumption DEF Limit, Keys

\* No resend more has passed the count, and the window has not gone back.
LEMMA ResendKept ==
  ASSUME RegistrationInv, NEW p \in Proc, \A q \in Proc \ {p} : call'[q] = call[q],
         HasPassed(call'[p]) => HasPassed(call[p]), resent' = resent,
         window'["email"].count \in Nat, window'["email"].count >= window["email"].count
  PROVE  ResendInv'
<1>1. Passed' \subseteq Passed /\ Passed \subseteq Proc
  BY DEF Passed
<1>2. /\ Cardinality(Passed') \in Nat /\ Cardinality(Passed) \in Nat
      /\ Cardinality(Passed') <= Cardinality(Passed) /\ Cardinality(Proc) \in Nat
  BY <1>1, Fewer
<1>3. "email" \in Keys
  BY DEF Keys
<1> QED
  BY <1>2, <1>3, Here, LimitType, LimitAssumption DEF RegistrationInv, Types, ResendInv

-----------------------------------------------------------------------------
(* One lemma per action.                                                   *)

LEMMA InsertedUser ==
  ASSUME NEW t \in Token \cup {None}
  PROVE  [exists |-> TRUE, verified |-> FALSE, token |-> t, live |-> TRUE]
           \in [exists : BOOLEAN, verified : BOOLEAN, token : Token \cup {None}, live : BOOLEAN]
  OBVIOUS

\* Allowed goes on to the other counter, or to the user.
LEMMA AllowedCall ==
  ASSUME NEW b \in Call
  PROVE  /\ Allowed(b) \in Call /\ Allowed(b).again = b.again /\ Allowed(b).token = b.token
         /\ Allowed(b).pc \in {"count", "load"}
         /\ Allowed(b).pc = "count" => Allowed(b).key = "ip"
  BY DEF Allowed, Call, Keys

LEMMA RegistrationInit == Init => RegistrationInv
<1> SUFFICES ASSUME Init PROVE RegistrationInv
  OBVIOUS
<1>1. Passed = {}
  BY DEF Init, Passed, HasPassed, Idle
<1>2. ResendInv
  <2>1. Cardinality(Passed) = 0 /\ Cardinality(Proc) \in Nat
    BY <1>1, ProcAssumption, FS_EmptySet, FS_CardinalityType
  <2>2. window["email"].count = 0 /\ resent = 0
    BY DEF Init, Keys, Closed
  <2> QED
    BY <2>1, <2>2, LimitAssumption DEF ResendInv
<1>3. WindowInv
  BY LimitType DEF Init, Closed, WindowInv
<1>4. Types
  BY DEF Init, Types, Call, Idle, Keys
<1>5. DrawnInv /\ RowInv /\ SentInv
  BY DEF Init, DrawnInv, RowInv, SentInv, Idle
<1> QED
  BY <1>2, <1>3, <1>4, <1>5 DEF RegistrationInv

\* findOne of register: the token drawn is of nobody's link.
LEMMA StartRegisterKeeps ==
  ASSUME RegistrationInv, NEW p \in Proc, StartRegister(p)
  PROVE  RegistrationInv'
<1> USE DEF RegistrationInv
<1>1. PICK c \in Call : Go(p, c) /\ c.pc = "insert" /\ c.token \in Token /\ c.again = FALSE
  <2>1. PICK t \in Token : Go(p, [Idle EXCEPT !.pc = "insert", !.token = t])
    BY DEF StartRegister
  <2> DEFINE d == [Idle EXCEPT !.pc = "insert", !.token = t]
  <2>2. d \in Call /\ d.pc = "insert" /\ d.token = t /\ d.again = FALSE
    BY DEF Idle, Call, Keys
  <2>3. Go(p, d)
    BY <2>1
  <2> HIDE DEF d
  <2> QED
    BY <2>2, <2>3
<1>2. call'[p] = c /\ (\A q \in Proc \ {p} : call'[q] = call[q]) /\ call' \in [Proc -> Call]
  BY <1>1, Moved
<1>3. Types'
  BY <1>2, Here DEF Types, DrawnInv, StartRegister, At, Draw
<1>4. WindowInv' /\ window'["email"].count = window["email"].count
  <2>1. UNCHANGED window
    BY DEF StartRegister, Draw
  <2> QED
    BY <2>1 DEF WindowInv
<1>5. DrawnInv'
  BY <1>1, <1>2, IdleCall DEF DrawnInv, StartRegister, At
<1>6. RowInv'
  BY <1>1, <1>2, IdleCall DEF RowInv, Types, StartRegister, At
<1>7. SentInv'
  BY <1>1, <1>2, IdleCall DEF SentInv, Sends, Types, StartRegister, At, Draw
<1>8. ResendInv'
  <2>1. HasPassed(c) => HasPassed(call[p])
    BY <1>1, IdleCall DEF HasPassed, StartRegister, At
  <2>2. resent' = resent
    BY DEF StartRegister
  <2> QED
    BY <1>2, <1>4, <2>1, <2>2, Here, ResendKept
<1> QED
  BY <1>3, <1>4, <1>5, <1>6, <1>7, <1>8

\* The INSERT: once there is a row no other is inserted.
LEMMA InsertUserKeeps ==
  ASSUME RegistrationInv, NEW p \in Proc, InsertUser(p)
  PROVE  RegistrationInv'
<1> USE DEF RegistrationInv
<1>1. PICK c \in Call : Go(p, c) /\ 
        \/ c = Idle /\ UNCHANGED <<user, created>>
        \/ /\ ~user.exists /\ call[p].pc = "insert"
           /\ c.pc = "history" /\ c.token = call[p].token /\ c.again = call[p].again
  <2>1. CASE user.exists
    BY <2>1, IdleCall DEF InsertUser
  <2>2. CASE ~user.exists
    <3> DEFINE d == [call[p] EXCEPT !.pc = "history"]
    <3>1. d \in Call /\ d.pc = "history" /\ d.token = call[p].token /\ d.again = call[p].again
      BY Here DEF Call
    <3>2. Go(p, d)
      BY <2>2 DEF InsertUser
    <3> HIDE DEF d
    <3> QED
      BY <2>2, <3>1, <3>2 DEF InsertUser, At
  <2> QED
    BY <2>1, <2>2
<1>2. call'[p] = c /\ (\A q \in Proc \ {p} : call'[q] = call[q]) /\ call' \in [Proc -> Call]
  BY <1>1, Moved
<1>3. Types'
  <2>1. user' = user \/ user' = [exists |-> TRUE, verified |-> FALSE, token |-> call[p].token, live |-> TRUE]
    BY DEF InsertUser
  <2>2. user' \in [exists : BOOLEAN, verified : BOOLEAN, token : Token \cup {None}, live : BOOLEAN]
    <3>1. CASE user' = user
      BY <3>1 DEF Types
    <3>2. CASE user' # user
      <4>1. call[p].token \in Token \cup {None}
        BY Here
      <4>2. user' = [exists |-> TRUE, verified |-> FALSE, token |-> call[p].token, live |-> TRUE]
        BY <2>1, <3>2
      <4> QED
        BY <4>1, <4>2, InsertedUser, Zenon
    <3> QED
      BY <3>1, <3>2
  <2> QED
    BY <1>2, <2>2 DEF Types, InsertUser
<1>4. WindowInv' /\ window'["email"].count = window["email"].count
  <2>1. UNCHANGED window
    BY DEF InsertUser
  <2> QED
    BY <2>1 DEF WindowInv
<1>5. DrawnInv'
  BY <1>1, <1>2, IdleCall DEF DrawnInv, InsertUser, At
<1>6. RowInv'
  BY <1>1, <1>2, IdleCall DEF RowInv, Types, InsertUser, At
<1>7. SentInv'
  BY <1>1, <1>2, IdleCall DEF SentInv, Sends, Types, InsertUser, At
<1>8. ResendInv'
  <2>1. HasPassed(c) => HasPassed(call[p])
    BY <1>1, IdleCall DEF HasPassed, InsertUser, At
  <2>2. resent' = resent
    BY DEF InsertUser
  <2> QED
    BY <1>2, <1>4, <2>1, <2>2, Here, ResendKept
<1> QED
  BY <1>3, <1>4, <1>5, <1>6, <1>7, <1>8

\* Only the request that inserted the row is here.
LEMMA InsertHistoryKeeps ==
  ASSUME RegistrationInv, NEW p \in Proc, InsertHistory(p)
  PROVE  RegistrationInv'
<1> USE DEF RegistrationInv
<1>1. PICK c \in Call : Go(p, c) /\ c.pc = "mail" /\ c.token = call[p].token /\ c.again = call[p].again
  <2> DEFINE d == [call[p] EXCEPT !.pc = "mail"]
  <2>1. d \in Call /\ d.pc = "mail" /\ d.token = call[p].token /\ d.again = call[p].again
    BY Here DEF Call
  <2>2. Go(p, d)
    BY DEF InsertHistory
  <2> HIDE DEF d
  <2> QED
    BY <2>1, <2>2
<1>2. call'[p] = c /\ (\A q \in Proc \ {p} : call'[q] = call[q]) /\ call' \in [Proc -> Call]
  BY <1>1, Moved
<1>3. Types'
  BY <1>2, Here DEF Types, DrawnInv, InsertHistory, At
<1>4. WindowInv' /\ window'["email"].count = window["email"].count
  <2>1. UNCHANGED window
    BY DEF InsertHistory
  <2> QED
    BY <2>1 DEF WindowInv
<1>5. DrawnInv'
  BY <1>1, <1>2, IdleCall DEF DrawnInv, InsertHistory, At
<1>6. RowInv'
  BY <1>1, <1>2, IdleCall DEF RowInv, Types, InsertHistory, At
<1>7. SentInv'
  BY <1>1, <1>2, IdleCall DEF SentInv, Sends, Types, InsertHistory, At
<1>8. ResendInv'
  <2>1. HasPassed(c) => HasPassed(call[p])
    BY <1>1, IdleCall DEF HasPassed, InsertHistory, At
  <2>2. resent' = resent
    BY DEF InsertHistory
  <2> QED
    BY <1>2, <1>4, <2>1, <2>2, Here, ResendKept
<1> QED
  BY <1>3, <1>4, <1>5, <1>6, <1>7, <1>8

\* A resend starts before the count.
LEMMA StartResendKeeps ==
  ASSUME RegistrationInv, NEW p \in Proc, StartResend(p)
  PROVE  RegistrationInv'
<1> USE DEF RegistrationInv
<1>1. PICK c \in Call : Go(p, c) /\ c.pc = "count" /\ c.key = "email"
  <2> DEFINE d == [Idle EXCEPT !.pc = "count", !.again = TRUE]
  <2>1. d \in Call /\ d.pc = "count" /\ d.key = "email"
    BY Here DEF Idle, Call, Keys
  <2>2. Go(p, d)
    BY DEF StartResend
  <2> HIDE DEF d
  <2> QED
    BY <2>1, <2>2
<1>2. call'[p] = c /\ (\A q \in Proc \ {p} : call'[q] = call[q]) /\ call' \in [Proc -> Call]
  BY <1>1, Moved
<1>3. Types'
  BY <1>2, Here DEF Types, DrawnInv, StartResend, At
<1>4. WindowInv' /\ window'["email"].count = window["email"].count
  <2>1. UNCHANGED window
    BY DEF StartResend
  <2> QED
    BY <2>1 DEF WindowInv
<1>5. DrawnInv'
  BY <1>1, <1>2, IdleCall DEF DrawnInv, StartResend, At
<1>6. RowInv'
  BY <1>1, <1>2, IdleCall DEF RowInv, Types, StartResend, At
<1>7. SentInv'
  BY <1>1, <1>2, IdleCall DEF SentInv, Sends, Types, StartResend, At
<1>8. ResendInv'
  <2>1. HasPassed(c) => HasPassed(call[p])
    BY <1>1, IdleCall DEF HasPassed, StartResend, At
  <2>2. resent' = resent
    BY DEF StartResend
  <2> QED
    BY <1>2, <1>4, <2>1, <2>2, Here, ResendKept
<1> QED
  BY <1>3, <1>4, <1>5, <1>6, <1>7, <1>8

\* PEXPIRE: the request has passed already.
LEMMA ExpireWindowKeeps ==
  ASSUME RegistrationInv, NEW p \in Proc, ExpireWindow(p)
  PROVE  RegistrationInv'
<1> USE DEF RegistrationInv
<1>1. PICK c \in Call : Go(p, c) /\ c.pc \in {"count", "load"} /\ c.again = call[p].again
                       /\ (c.pc = "count" => c.key = "ip")
  <2>1. Go(p, Allowed(call[p]))
    BY DEF ExpireWindow
  <2> QED
    BY <2>1, Here, AllowedCall
<1>2. call'[p] = c /\ (\A q \in Proc \ {p} : call'[q] = call[q]) /\ call' \in [Proc -> Call]
  BY <1>1, Moved
<1>3. Types'
  BY <1>2, Here DEF Types, DrawnInv, ExpireWindow, At
<1>4. WindowInv' /\ window'["email"].count = window["email"].count
  BY Here, LimitType DEF ExpireWindow, WindowInv, Keys
<1>5. DrawnInv'
  BY <1>1, <1>2, IdleCall DEF DrawnInv, ExpireWindow, At
<1>6. RowInv'
  BY <1>1, <1>2, IdleCall DEF RowInv, Types, ExpireWindow, At
<1>7. SentInv'
  BY <1>1, <1>2, IdleCall DEF SentInv, Sends, Types, ExpireWindow, At
<1>8. ResendInv'
  <2>1. HasPassed(c) => HasPassed(call[p])
    BY <1>1, IdleCall DEF HasPassed, ExpireWindow, At
  <2>2. resent' = resent
    BY DEF ExpireWindow
  <2> QED
    BY <1>2, <1>4, <2>1, <2>2, Here, ResendKept
<1> QED
  BY <1>3, <1>4, <1>5, <1>6, <1>7, <1>8

\* A resend draws its token.
LEMMA LoadUserKeeps ==
  ASSUME RegistrationInv, NEW p \in Proc, LoadUser(p)
  PROVE  RegistrationInv'
<1> USE DEF RegistrationInv
<1>1. PICK c \in Call : Go(p, c) /\ 
        \/ c = Idle
        \/ user.exists /\ c.pc = "save" /\ c.token \in Token /\ c.again = call[p].again
  <2>1. CASE Go(p, Idle)
    <3>1. Idle \in Call
      BY IdleCall
    <3> QED
      BY <2>1, <3>1, Zenon
  <2>2. CASE user.exists /\ \E t \in Token : Go(p, [call[p] EXCEPT !.pc = "save", !.token = t])
    <3>1. PICK t \in Token : Go(p, [call[p] EXCEPT !.pc = "save", !.token = t])
      BY <2>2
    <3> DEFINE d == [call[p] EXCEPT !.pc = "save", !.token = t]
    <3>2. d \in Call /\ d.pc = "save" /\ d.token = t /\ d.again = call[p].again
      BY Here DEF Call
    <3>3. Go(p, d)
      BY <3>1
    <3> HIDE DEF d
    <3> QED
      BY <2>2, <3>2, <3>3
  <2> QED
    BY <2>1, <2>2 DEF LoadUser
<1>2. call'[p] = c /\ (\A q \in Proc \ {p} : call'[q] = call[q]) /\ call' \in [Proc -> Call]
  BY <1>1, Moved
<1>3. Types'
  BY <1>2, Here DEF Types, DrawnInv, LoadUser, At, Draw
<1>4. WindowInv' /\ window'["email"].count = window["email"].count
  <2>1. UNCHANGED window
    BY DEF LoadUser, Draw
  <2> QED
    BY <2>1 DEF WindowInv
<1>5. DrawnInv'
  BY <1>1, <1>2, IdleCall DEF DrawnInv, LoadUser, At
<1>6. RowInv'
  <2>1. UNCHANGED <<user, recorded, created>>
    BY DEF LoadUser
  <2> QED
    BY <1>1, <1>2, <2>1, IdleCall DEF RowInv
<1>7. SentInv'
  BY <1>1, <1>2, IdleCall DEF SentInv, Sends, Types, LoadUser, At, Draw
<1>8. ResendInv'
  <2>1. HasPassed(c) => HasPassed(call[p])
    BY <1>1, IdleCall DEF HasPassed, LoadUser, At
  <2>2. resent' = resent
    BY DEF LoadUser
  <2> QED
    BY <1>2, <1>4, <2>1, <2>2, Here, ResendKept
<1> QED
  BY <1>3, <1>4, <1>5, <1>6, <1>7, <1>8

\* The token saved is the one the mail will carry.
LEMMA SaveTokenKeeps ==
  ASSUME RegistrationInv, NEW p \in Proc, SaveToken(p)
  PROVE  RegistrationInv'
<1> USE DEF RegistrationInv
<1>1. PICK c \in Call : Go(p, c) /\ c.pc = "mail" /\ c.token = call[p].token /\ c.again = call[p].again
  <2> DEFINE d == [call[p] EXCEPT !.pc = "mail"]
  <2>1. d \in Call /\ d.pc = "mail" /\ d.token = call[p].token /\ d.again = call[p].again
    BY Here DEF Call
  <2>2. Go(p, d)
    BY DEF SaveToken
  <2> HIDE DEF d
  <2> QED
    BY <2>1, <2>2
<1>2. call'[p] = c /\ (\A q \in Proc \ {p} : call'[q] = call[q]) /\ call' \in [Proc -> Call]
  BY <1>1, Moved
<1>3. Types'
  BY <1>2, Here DEF Types, DrawnInv, SaveToken, At
<1>4. WindowInv' /\ window'["email"].count = window["email"].count
  <2>1. UNCHANGED window
    BY DEF SaveToken
  <2> QED
    BY <2>1 DEF WindowInv
<1>5. DrawnInv'
  BY <1>1, <1>2, IdleCall DEF DrawnInv, SaveToken, At
<1>6. RowInv'
  BY <1>1, <1>2, IdleCall DEF RowInv, Types, SaveToken, At
<1>7. SentInv'
  BY <1>1, <1>2, IdleCall DEF SentInv, Sends, Types, SaveToken, At
<1>8. ResendInv'
  <2>1. HasPassed(c) => HasPassed(call[p])
    BY <1>1, IdleCall DEF HasPassed, SaveToken, At
  <2>2. resent' = resent
    BY DEF SaveToken
  <2> QED
    BY <1>2, <1>4, <2>1, <2>2, Here, ResendKept
<1> QED
  BY <1>3, <1>4, <1>5, <1>6, <1>7, <1>8

\* findOne of verifyEmail.
LEMMA StartVerifyKeeps ==
  ASSUME RegistrationInv, NEW p \in Proc, StartVerify(p)
  PROVE  RegistrationInv'
<1> USE DEF RegistrationInv
<1>1. PICK c \in Call : Go(p, c) /\ c.pc = "verify" /\ c.again = FALSE
  <2> DEFINE d == [Idle EXCEPT !.pc = "verify", !.token = user.token]
  <2>1. d \in Call /\ d.pc = "verify" /\ d.again = FALSE
    BY Here DEF RegistrationInv, Types, Idle, Call, Keys
  <2>2. Go(p, d)
    BY DEF StartVerify
  <2> HIDE DEF d
  <2> QED
    BY <2>1, <2>2
<1>2. call'[p] = c /\ (\A q \in Proc \ {p} : call'[q] = call[q]) /\ call' \in [Proc -> Call]
  BY <1>1, Moved
<1>3. Types'
  BY <1>2, Here DEF Types, DrawnInv, StartVerify, At
<1>4. WindowInv' /\ window'["email"].count = window["email"].count
  <2>1. UNCHANGED window
    BY DEF StartVerify
  <2> QED
    BY <2>1 DEF WindowInv
<1>5. DrawnInv'
  BY <1>1, <1>2, IdleCall DEF DrawnInv, StartVerify, At
<1>6. RowInv'
  BY <1>1, <1>2, IdleCall DEF RowInv, Types, StartVerify, At
<1>7. SentInv'
  BY <1>1, <1>2, IdleCall DEF SentInv, Sends, Types, StartVerify, At
<1>8. ResendInv'
  <2>1. HasPassed(c) => HasPassed(call[p])
    BY <1>1, IdleCall DEF HasPassed, StartVerify, At
  <2>2. resent' = resent
    BY DEF StartVerify
  <2> QED
    BY <1>2, <1>4, <2>1, <2>2, Here, ResendKept
<1> QED
  BY <1>3, <1>4, <1>5, <1>6, <1>7, <1>8

\* No link is owed to a verified account.
LEMMA SaveVerifiedKeeps ==
  ASSUME RegistrationInv, NEW p \in Proc, SaveVerified(p)
  PROVE  RegistrationInv'
<1> USE DEF RegistrationInv
<1>1. PICK c \in Call : Go(p, c) /\ c = Idle
  BY IdleCall DEF SaveVerified
<1>2. call'[p] = c /\ (\A q \in Proc \ {p} : call'[q] = call[q]) /\ call' \in [Proc -> Call]
  BY <1>1, Moved
<1>3. Types'
  BY <1>2, Here DEF Types, DrawnInv, SaveVerified, At
<1>4. WindowInv' /\ window'["email"].count = window["email"].count
  <2>1. UNCHANGED window
    BY DEF SaveVerified
  <2> QED
    BY <2>1 DEF WindowInv
<1>5. DrawnInv'
  BY <1>1, <1>2, IdleCall DEF DrawnInv, SaveVerified, At
<1>6. RowInv'
  BY <1>1, <1>2, IdleCall DEF RowInv, Types, SaveVerified, At
<1>7. SentInv'
  BY <1>1, <1>2, IdleCall DEF SentInv, Sends, Types, SaveVerified, At
<1>8. ResendInv'
  <2>1. HasPassed(c) => HasPassed(call[p])
    BY <1>1, IdleCall DEF HasPassed, SaveVerified, At
  <2>2. resent' = resent
    BY DEF SaveVerified
  <2> QED
    BY <1>2, <1>4, <2>1, <2>2, Here, ResendKept
<1> QED
  BY <1>3, <1>4, <1>5, <1>6, <1>7, <1>8

\* A request that dies before its mail loses the link.
LEMMA FailKeeps ==
  ASSUME RegistrationInv, NEW p \in Proc, Fail(p)
  PROVE  RegistrationInv'
<1> USE DEF RegistrationInv
<1>1. PICK c \in Call : Go(p, c) /\ c = Idle
  BY IdleCall DEF Fail
<1>2. call'[p] = c /\ (\A q \in Proc \ {p} : call'[q] = call[q]) /\ call' \in [Proc -> Call]
  BY <1>1, Moved
<1>3. Types'
  BY <1>2, Here DEF Types, DrawnInv, Fail, At
<1>4. WindowInv' /\ window'["email"].count = window["email"].count
  <2>1. UNCHANGED window
    BY DEF Fail
  <2> QED
    BY <2>1 DEF WindowInv
<1>5. DrawnInv'
  BY <1>1, <1>2, IdleCall DEF DrawnInv, Fail, At
<1>6. RowInv'
  BY <1>1, <1>2, IdleCall DEF RowInv, Types, Fail, At
<1>7. SentInv'
  BY <1>1, <1>2, IdleCall DEF SentInv, Sends, Types, Fail, At
<1>8. ResendInv'
  <2>1. HasPassed(c) => HasPassed(call[p])
    BY <1>1, IdleCall DEF HasPassed, Fail, At
  <2>2. resent' = resent
    BY DEF Fail
  <2> QED
    BY <1>2, <1>4, <2>1, <2>2, Here, ResendKept
<1> QED
  BY <1>3, <1>4, <1>5, <1>6, <1>7, <1>8

\* INCR: a resend passes the e-mail's count only as the count grows.
LEMMA CountResendKeeps ==
  ASSUME RegistrationInv, NEW p \in Proc, CountResend(p)
  PROVE  RegistrationInv'
<1> USE DEF RegistrationInv
<1> DEFINE k == call[p].key
           n == window[k].count
<1>1. call[p].pc = "count" /\ k \in Keys /\ n \in Nat /\ Limit[k] \in Nat \ {0}
      /\ UNCHANGED <<user, recorded, mailed, created, lost, resent>>
  BY Here, LimitType DEF CountResend, At
<1>2. window' = [window EXCEPT ![k].count = IF n > Limit[k] THEN n ELSE n + 1]
  BY DEF CountResend
<1>3. WindowInv' /\ window'["email"].count \in Nat
      /\ window'["email"].count >= window["email"].count
      /\ (k = "email" /\ n < EmailLimit => window'["email"].count = window["email"].count + 1)
  BY <1>1, <1>2, Here, LimitType DEF WindowInv, Keys
<1>4. PICK c \in Call :
        /\ Go(p, c)
        /\ \/ c = Idle
           \/ /\ c.pc \in {"expire", "count", "load"}
              /\ n < Limit[k] \/ n = 0
              /\ c.pc = "count" => c.key = "ip"
              /\ c.again = call[p].again
  <2>1. CASE n = 0
    <3> DEFINE d == [call[p] EXCEPT !.pc = "expire"]
    <3>1. d \in Call /\ d.pc = "expire" /\ d.again = call[p].again
      BY Here DEF Call
    <3>2. Go(p, d)
      BY <2>1 DEF CountResend
    <3> HIDE DEF d
    <3> QED
      BY <2>1, <3>1, <3>2
  <2>2. CASE n # 0 /\ n >= Limit[k]
    <3>1. Go(p, Idle)
      BY <2>2 DEF CountResend
    <3> QED
      BY <3>1, IdleCall, Zenon
  <2>3. CASE n # 0 /\ ~(n >= Limit[k])
    <3>1. Go(p, Allowed(call[p]))
      BY <2>3 DEF CountResend
    <3>2. n < Limit[k]
      BY <1>1, <2>3
    <3> HIDE DEF n, k
    <3> QED
      BY <3>1, <3>2, Here, AllowedCall
  <2> QED
    BY <2>1, <2>2, <2>3
<1>5. call'[p] = c /\ (\A q \in Proc \ {p} : call'[q] = call[q]) /\ call' \in [Proc -> Call]
  BY <1>4, Moved
<1>6. Types'
  BY <1>1, <1>5 DEF Types
<1>7. DrawnInv' /\ RowInv' /\ SentInv'
  BY <1>1, <1>4, <1>5, IdleCall DEF DrawnInv, RowInv, SentInv, Sends
<1>8. ResendInv'
  <2>1. CASE HasPassed(c) => HasPassed(call[p])
    BY <1>1, <1>3, <1>5, <2>1, ResendKept
  <2>2. CASE HasPassed(c) /\ ~HasPassed(call[p])
    <3>1. c # Idle
      BY <2>2, IdleCall DEF HasPassed
    <3>2. call[p].again /\ (n < Limit[k] \/ n = 0)
      BY <1>4, <2>2, <3>1 DEF HasPassed
    <3>3. k = "email" /\ n < EmailLimit
      <4>1. k = "email"
        BY <1>1, <2>2, <3>2 DEF HasPassed, Keys
      <4> QED
        BY <1>1, <3>2, <4>1, LimitType
    <3>4. Passed' \subseteq Passed \cup {p} /\ Passed \subseteq Proc
      BY <1>5 DEF Passed
    <3>5. /\ Cardinality(Passed') \in Nat /\ Cardinality(Passed) \in Nat
          /\ Cardinality(Passed') <= Cardinality(Passed) + 1
      BY <3>4, OneMore
    <3>6. Cardinality(Proc) \in Nat
      BY ProcAssumption, FS_CardinalityType
    <3> QED
      BY <1>1, <1>3, <3>2, <3>3, <3>5, <3>6, Here, LimitAssumption DEF ResendInv, Types
  <2> QED
    BY <2>1, <2>2
<1> QED
  BY <1>3, <1>6, <1>7, <1>8

\* The mail is sent or lost; a resend is counted as it stops to be on its way.
LEMMA SendMailKeeps ==
  ASSUME RegistrationInv, NEW p \in Proc, SendMail(p)
  PROVE  RegistrationInv'
<1> USE DEF RegistrationInv
<1>1. call[p].pc = "mail" /\ UNCHANGED <<user, recorded, window, created>>
      /\ call[p].token \in Token
  BY DEF SendMail, At, DrawnInv
<1>2. call'[p] = Idle /\ (\A q \in Proc \ {p} : call'[q] = call[q]) /\ call' \in [Proc -> Call]
  BY IdleCall, Moved DEF SendMail
<1>3. Types'
  BY <1>1, <1>2 DEF Types, SendMail
<1>4. WindowInv'
  BY <1>1 DEF WindowInv
<1>5. DrawnInv' /\ RowInv'
  BY <1>1, <1>2, IdleCall DEF DrawnInv, RowInv
<1>6. SentInv'
  BY <1>1, <1>2 DEF SentInv, Sends, SendMail
<1>7. ResendInv'
  <2>1. CASE ~call[p].again
    BY <1>1, <1>2, <2>1, IdleCall, Here, ResendKept DEF SendMail, HasPassed
  <2>2. CASE call[p].again
    <3>1. p \in Passed /\ Passed' \subseteq Passed \ {p} /\ Passed \subseteq Proc
      BY <1>1, <1>2, <2>2, IdleCall DEF Passed, HasPassed
    <3>2. /\ Cardinality(Passed') \in Nat /\ Cardinality(Passed) \in Nat
          /\ Cardinality(Passed') + 1 <= Cardinality(Passed)
      BY <3>1, OneFewer
    <3>3. resent' = resent + 1
      BY <2>2 DEF SendMail
    <3>4. Cardinality(Proc) \in Nat
      BY ProcAssumption, FS_CardinalityType
    <3> QED
      BY <1>1, <3>2, <3>3, <3>4, Here, LimitAssumption DEF ResendInv, Types
  <2> QED
    BY <2>1, <2>2
<1> QED
  BY <1>3, <1>4, <1>5, <1>6, <1>7

\* A new window counts from nothing; those that passed before are no more than Proc.
LEMMA WindowEndsKeeps ==
  ASSUME RegistrationInv, NEW k \in Keys, WindowEnds(k)
  PROVE  RegistrationInv'
<1> USE DEF RegistrationInv
<1>1. UNCHANGED <<user, recorded, mailed, call, created, lost>>
      /\ window' = [window EXCEPT ![k] = Closed]
      /\ resent' = IF k = "email" THEN 0 ELSE resent
  BY DEF WindowEnds
<1>2. Types' /\ DrawnInv' /\ RowInv' /\ SentInv'
  BY <1>1 DEF Types, DrawnInv, RowInv, SentInv, Sends
<1>3. WindowInv'
  BY <1>1, LimitType DEF WindowInv, Closed
<1>4. ResendInv'
  <2>1. Passed' = Passed /\ Passed \subseteq Proc
    BY <1>1 DEF Passed
  <2>2. Cardinality(Passed) \in Nat /\ Cardinality(Proc) \in Nat
        /\ Cardinality(Passed) <= Cardinality(Proc)
    BY <2>1, Fewer
  <2>3. CASE k = "email"
    <3>1. resent' = 0 /\ window'["email"].count = 0
      BY <1>1, <2>3 DEF WindowInv, Closed
    <3> QED
      BY <2>1, <2>2, <3>1, LimitAssumption DEF ResendInv
  <2>4. CASE k # "email"
    <3>1. resent' = resent /\ window'["email"] = window["email"]
      BY <1>1, <2>4 DEF WindowInv, Keys
    <3> QED
      BY <2>1, <3>1 DEF ResendInv
  <2> QED
    BY <2>3, <2>4
<1> QED
  BY <1>2, <1>3, <1>4

LEMMA LinkExpiresKeeps ==
  ASSUME RegistrationInv, LinkExpires
  PROVE  RegistrationInv'
<1> USE DEF RegistrationInv
<1>1. UNCHANGED <<recorded, window, mailed, call, created, lost, resent>>
      /\ user' = [user EXCEPT !.live = FALSE]
  BY DEF LinkExpires
<1>2. Types' /\ DrawnInv' /\ RowInv' /\ SentInv'
  BY <1>1 DEF Types, DrawnInv, RowInv, SentInv, Sends
<1>3. WindowInv' /\ ResendInv'
  BY <1>1 DEF WindowInv, ResendInv, Passed
<1> QED
  BY <1>2, <1>3

LEMMA RegistrationStep == RegistrationInv /\ [Next]_vars => RegistrationInv'
<1> SUFFICES ASSUME RegistrationInv, [Next]_vars PROVE RegistrationInv'
  OBVIOUS
<1>1. CASE LinkExpires
  BY <1>1, LinkExpiresKeeps
<1>2. ASSUME NEW k \in Keys, WindowEnds(k) PROVE RegistrationInv'
  BY <1>2, WindowEndsKeeps
<1>3. ASSUME NEW p \in Proc, StartRegister(p) \/ InsertUser(p) \/ InsertHistory(p)
      PROVE  RegistrationInv'
  BY <1>3, StartRegisterKeeps, InsertUserKeeps, InsertHistoryKeeps
<1>4. ASSUME NEW p \in Proc, StartResend(p) \/ CountResend(p) \/ ExpireWindow(p)
      PROVE  RegistrationInv'
  BY <1>4, StartResendKeeps, CountResendKeeps, ExpireWindowKeeps
<1>5. ASSUME NEW p \in Proc, LoadUser(p) \/ SaveToken(p) \/ SendMail(p)
      PROVE  RegistrationInv'
  BY <1>5, LoadUserKeeps, SaveTokenKeeps, SendMailKeeps
<1>6. ASSUME NEW p \in Proc, StartVerify(p) \/ SaveVerified(p) \/ Fail(p)
      PROVE  RegistrationInv'
  BY <1>6, StartVerifyKeeps, SaveVerifiedKeeps, FailKeeps
<1>7. CASE UNCHANGED vars
  BY <1>7 DEF vars, RegistrationInv, Types, WindowInv, DrawnInv, RowInv, SentInv, Sends,
              ResendInv, Passed
<1> QED
  BY <1>1, <1>2, <1>3, <1>4, <1>5, <1>6, <1>7 DEF Next

LEMMA RegistrationAlways == Spec => []RegistrationInv
  BY RegistrationInit, RegistrationStep, PTL DEF Spec

-----------------------------------------------------------------------------
(* The theorems.                                                           *)

\* Every variable keeps its type: of concurrent registrations one inserts the
\* row and records its password, whatever fails.
THEOREM RegistrationTypes == Spec => []TypeOK
<1>1. RegistrationInv => TypeOK
  <2> SUFFICES ASSUME RegistrationInv PROVE TypeOK
    OBVIOUS
  <2>1. \A k \in Keys : window[k] \in [count : 0..(Limit[k] + 1), ends : BOOLEAN]
    BY LimitType DEF RegistrationInv, WindowInv
  <2> QED
    BY <2>1 DEF RegistrationInv, Types, RowInv, TypeOK
<1> QED
  BY <1>1, RegistrationAlways, PTL

\* The token of an account not verified has been sent, or its mail was lost,
\* once every request has ended: no resend replaces it without a mail.
THEOREM Links == Spec => []LinkArrives
<1>1. RegistrationInv => LinkArrives
  BY DEF RegistrationInv, SentInv, Sends, At, LinkArrives
<1> QED
  BY <1>1, RegistrationAlways, PTL

\* checkEmailResendLimit: what is sent again in one window of the e-mail is at
\* most the limit and one for each request that can be in flight.
THEOREM Resends == Spec => []ResendBound
<1>1. RegistrationInv => ResendBound
  <2> SUFFICES ASSUME RegistrationInv PROVE ResendBound
    OBVIOUS
  <2>1. Passed \subseteq Proc
    BY DEF Passed
  <2>2. Cardinality(Passed) \in Nat /\ Cardinality(Proc) \in Nat
    BY <2>1, Fewer
  <2> QED
    BY <2>2, LimitAssumption DEF RegistrationInv, Types, ResendInv, ResendBound
<1> QED
  BY <1>1, RegistrationAlways, PTL

\* No save of a row that was read before takes a verification back.
THEOREM Verified == Spec => VerifiedStays
<1>1. RegistrationInv /\ [Next]_vars => [user.verified => user'.verified]_vars
  <2> SUFFICES ASSUME RegistrationInv, Next, user.verified PROVE user'.verified
    BY DEF vars
  <2>1. user.exists /\ user \in [exists : BOOLEAN, verified : BOOLEAN, token : Token \cup {None},
                                 live : BOOLEAN]
    BY DEF RegistrationInv, Types, RowInv
  <2>2. \/ UNCHANGED user
        \/ user' = [user EXCEPT !.live = FALSE]
        \/ \E p \in Proc : user' = [user EXCEPT !.token = call[p].token, !.live = TRUE]
        \/ user' = [user EXCEPT !.verified = TRUE, !.token = None, !.live = FALSE]
    BY <2>1 DEF Next, LinkExpires, WindowEnds, StartRegister, InsertUser, InsertHistory,
       StartResend, CountResend, ExpireWindow, LoadUser, SaveToken, SendMail, StartVerify,
       SaveVerified, Fail
  <2> QED
    BY <2>1, <2>2
<1> QED
  BY <1>1, RegistrationAlways, PTL DEF Spec, VerifiedStays

-----------------------------------------------------------------------------
(* Windows have an end.                                                    *)

\* A step that touches no counter, and starts no window; only in a crash may a
\* request leave its window without an end.
LEMMA WindowsKept ==
  ASSUME WindowHasEnd, UNCHANGED window,
         \A k \in Keys : Starting(k)' \subseteq Starting(k) /\ (CanFail \/ Starting(k)' = Starting(k))
  PROVE  WindowHasEnd'
<1> SUFFICES ASSUME NEW k \in Keys
             PROVE  /\ window[k].ends => window[k].count > 0
                    /\ \A p \in Starting(k)' :
                          window[k].count > 0 /\ ~window[k].ends /\ Starting(k)' = {p}
                    /\ window[k].count > 0 => window[k].ends \/ CanFail \/ Starting(k)' # {}
  BY DEF WindowHasEnd
<1> QED
  BY DEF WindowHasEnd

\* Which windows the request that moved is starting.
LEMMA StartingMoved ==
  ASSUME RegistrationInv, NEW p \in Proc, NEW c, Go(p, c), NEW k \in Keys
  PROVE  Starting(k)' = IF c.pc = "expire" /\ c.key = k THEN Starting(k) \cup {p} ELSE Starting(k) \ {p}
<1>1. call'[p] = c /\ \A q \in Proc \ {p} : call'[q] = call[q]
  BY DEF RegistrationInv, Types, Go
<1> QED
  BY <1>1 DEF Starting, At

LEMMA CountWindow ==
  ASSUME RegistrationInv, WindowHasEnd, NEW p \in Proc, CountResend(p)
  PROVE  WindowHasEnd'
<1>0. PICK key \in Keys : key = call[p].key
  BY Here
<1> DEFINE n == window[key].count
<1>1. n \in Nat /\ Limit[key] \in Nat \ {0} /\ call[p].pc = "count"
  BY <1>0, Here, LimitType DEF CountResend, At
<1>2. /\ \A k \in Keys \ {key} : window'[k] = window[k]
      /\ window'[key].ends = window[key].ends
      /\ window'[key].count \in Nat /\ window'[key].count > 0
  <2>1. window' = [window EXCEPT ![key].count = IF n > Limit[key] THEN n ELSE n + 1]
    BY <1>0 DEF CountResend
  <2>2. window \in [Keys -> [count : Nat, ends : BOOLEAN]]
    BY DEF RegistrationInv, WindowInv
  <2>3. (IF n > Limit[key] THEN n ELSE n + 1) \in Nat /\ (IF n > Limit[key] THEN n ELSE n + 1) > 0
    BY <1>1
  <2> HIDE DEF n
  <2> QED
    BY <1>1, <2>1, <2>2, <2>3
<1>3. \A k \in Keys : p \notin Starting(k)
  BY <1>1 DEF Starting, At
<1>4. CASE n = 0
  <2> DEFINE c == [call[p] EXCEPT !.pc = "expire"]
  <2>1. Go(p, c) /\ c.pc = "expire" /\ c.key = key
    <3>1. call[p] \in Call
      BY Here
    <3> QED
      BY <1>0, <1>4, <3>1 DEF CountResend, Call
  <2> HIDE DEF c
  <2>2. Starting(key)' = Starting(key) \cup {p}
    BY <1>1, <2>1, StartingMoved
  <2>3. \A k \in Keys \ {key} : Starting(k)' = Starting(k)
    BY <1>3, <2>1, StartingMoved
  <2>4. Starting(key) = {} /\ ~window[key].ends
    BY <1>1, <1>4 DEF WindowHasEnd
  <2>5. Starting(key)' = {p}
    BY <2>2, <2>4
  <2> HIDE DEF n
  <2> QED
    BY <1>1, <1>2, <2>3, <2>4, <2>5 DEF WindowHasEnd
<1>5. CASE n # 0
  <2>1. PICK c : Go(p, c) /\ c.pc # "expire"
    <3>1. CASE n >= Limit[key]
      BY <1>0, <1>5, <3>1, IdleCall DEF CountResend
    <3>2. CASE ~(n >= Limit[key])
      <4>1. Go(p, Allowed(call[p]))
        BY <1>0, <1>5, <3>2 DEF CountResend
      <4> QED
        BY <4>1, Here, AllowedCall
    <3> QED
      BY <3>1, <3>2
  <2>2. \A k \in Keys : Starting(k)' = Starting(k)
    BY <1>3, <2>1, StartingMoved
  <2>3. n > 0
    BY <1>1, <1>5
  <2>4. ASSUME NEW k \in Keys
        PROVE  /\ window'[k].ends => window'[k].count > 0
               /\ \A q \in Starting(k) :
                     window'[k].count > 0 /\ ~window'[k].ends /\ Starting(k) = {q}
               /\ window'[k].count > 0 => window'[k].ends \/ CanFail \/ Starting(k) # {}
    <3> HIDE DEF n
    <3>1. CASE k = key
      <4>1. window[key].count > 0
        BY <2>3 DEF n
      <4> QED
        BY <1>1, <1>2, <3>1, <4>1 DEF WindowHasEnd
    <3>2. CASE k # key
      BY <1>2, <3>2 DEF WindowHasEnd
    <3> QED
      BY <3>1, <3>2
  <2> QED
    BY <2>2, <2>4 DEF WindowHasEnd
<1> QED
  BY <1>4, <1>5

LEMMA ExpireWindowEnds ==
  ASSUME RegistrationInv, WindowHasEnd, NEW p \in Proc, ExpireWindow(p)
  PROVE  WindowHasEnd'
<1>0. PICK key \in Keys : key = call[p].key
  BY Here
<1>1. p \in Starting(key)
  BY <1>0 DEF ExpireWindow, Starting
<1>2. Starting(key) = {p} /\ window[key].count > 0
  BY <1>1 DEF WindowHasEnd
<1>3. /\ \A k \in Keys \ {key} : window'[k] = window[k]
      /\ window'[key].ends /\ window'[key].count = window[key].count
  BY <1>0 DEF ExpireWindow, RegistrationInv, WindowInv
<1>4. PICK c : Go(p, c) /\ c.pc # "expire"
  BY Here, AllowedCall DEF ExpireWindow
<1>5. \A k \in Keys : Starting(k)' = Starting(k) \ {p}
  BY <1>4, StartingMoved
<1>6. Starting(key)' = {}
  BY <1>1, <1>2, <1>5
<1>7. \A k \in Keys \ {key} : Starting(k)' = Starting(k)
  BY <1>0, <1>5 DEF Starting
<1>8. ASSUME NEW k \in Keys
      PROVE  /\ window'[k].ends => window'[k].count > 0
             /\ \A q \in Starting(k)' :
                   window'[k].count > 0 /\ ~window'[k].ends /\ Starting(k)' = {q}
             /\ window'[k].count > 0 => window'[k].ends \/ CanFail \/ Starting(k)' # {}
  <2>1. CASE k = key
    BY <1>2, <1>3, <1>6, <2>1
  <2>2. CASE k # key
    BY <1>3, <1>7, <2>2 DEF WindowHasEnd
  <2> QED
    BY <2>1, <2>2
<1> QED
  BY <1>8 DEF WindowHasEnd

LEMMA WindowHasEndStep ==
  RegistrationInv /\ WindowHasEnd /\ [Next]_vars => WindowHasEnd'
<1> SUFFICES ASSUME RegistrationInv, WindowHasEnd, [Next]_vars PROVE WindowHasEnd'
  OBVIOUS
<1>1. ASSUME NEW p \in Proc, CountResend(p) PROVE WindowHasEnd'
  BY <1>1, CountWindow
<1>2. ASSUME NEW p \in Proc, ExpireWindow(p) PROVE WindowHasEnd'
  BY <1>2, ExpireWindowEnds
<1>3. ASSUME NEW k \in Keys, WindowEnds(k) PROVE WindowHasEnd'
  <2>1. /\ \A j \in Keys \ {k} : window'[j] = window[j]
        /\ ~window'[k].ends /\ window'[k].count = 0
    BY <1>3 DEF WindowEnds, Closed, RegistrationInv, WindowInv
  <2>2. \A j \in Keys : Starting(j)' = Starting(j)
    BY <1>3 DEF WindowEnds, Starting, At
  <2>3. Starting(k) = {}
    BY <1>3 DEF WindowEnds, WindowHasEnd
  <2> QED
    BY <2>1, <2>2, <2>3 DEF WindowHasEnd
\* Every other statement moves a request that is not at the PEXPIRE elsewhere.
<1>4. ASSUME NEW p \in Proc, ~At(p, "expire"), UNCHANGED window,
             \E c : Go(p, c) /\ c.pc # "expire"
      PROVE  WindowHasEnd'
  <2>1. \A k \in Keys : Starting(k)' = Starting(k) \ {p} /\ p \notin Starting(k)
    BY <1>4, StartingMoved DEF Starting
  <2> QED
    BY <1>4, <2>1, WindowsKept
<1>5. ASSUME NEW p \in Proc, StartRegister(p) \/ LoadUser(p) PROVE WindowHasEnd'
  <2>1. ~At(p, "expire") /\ UNCHANGED window
    BY <1>5 DEF StartRegister, LoadUser, At
  <2>2. \E c : Go(p, c) /\ c.pc # "expire"
    <3>1. CASE StartRegister(p)
      <4>1. PICK t \in Token : Go(p, [Idle EXCEPT !.pc = "insert", !.token = t])
        BY <3>1 DEF StartRegister
      <4>2. [Idle EXCEPT !.pc = "insert", !.token = t].pc # "expire"
        BY DEF Idle
      <4> QED
        BY <4>1, <4>2
    <3>2. ASSUME NEW t \in Token, Go(p, [call[p] EXCEPT !.pc = "save", !.token = t])
          PROVE  \E c : Go(p, c) /\ c.pc # "expire"
      <4>1. [call[p] EXCEPT !.pc = "save", !.token = t].pc # "expire"
        BY Here DEF Call
      <4> QED
        BY <3>2, <4>1
    <3>3. CASE LoadUser(p)
      BY <3>2, <3>3, IdleCall DEF LoadUser
    <3> QED
      BY <1>5, <3>1, <3>3
  <2> QED
    BY <1>4, <2>1, <2>2
<1>6. ASSUME NEW p \in Proc, InsertUser(p) \/ InsertHistory(p) \/ SaveToken(p) PROVE WindowHasEnd'
  <2>1. ~At(p, "expire") /\ UNCHANGED window
    BY <1>6 DEF InsertUser, InsertHistory, SaveToken, At
  <2>2. \A x \in {"history", "mail"} : [call[p] EXCEPT !.pc = x].pc # "expire"
    BY Here DEF Call
  <2>3. \E c : Go(p, c) /\ c.pc # "expire"
    BY <1>6, <2>2, IdleCall DEF InsertUser, InsertHistory, SaveToken
  <2> QED
    BY <1>4, <2>1, <2>3
<1>7. ASSUME NEW p \in Proc, StartResend(p) \/ SendMail(p) \/ StartVerify(p) \/ SaveVerified(p)
      PROVE  WindowHasEnd'
  <2>1. ~At(p, "expire") /\ UNCHANGED window
    BY <1>7 DEF StartResend, SendMail, StartVerify, SaveVerified, At
  <2>2. \E c : Go(p, c) /\ c.pc # "expire"
    <3>1. CASE StartVerify(p)
      <4>1. Go(p, [Idle EXCEPT !.pc = "verify", !.token = user.token])
        BY <3>1 DEF StartVerify
      <4>2. [Idle EXCEPT !.pc = "verify", !.token = user.token].pc # "expire"
        BY DEF Idle
      <4> QED
        BY <4>1, <4>2
    <3>2. CASE StartResend(p)
      <4>1. [Idle EXCEPT !.pc = "count", !.again = TRUE].pc # "expire"
        BY DEF Idle
      <4> QED
        BY <3>2, <4>1 DEF StartResend
    <3>3. CASE SendMail(p) \/ SaveVerified(p)
      BY <3>3, IdleCall DEF SendMail, SaveVerified
    <3> QED
      BY <1>7, <3>1, <3>2, <3>3
  <2> QED
    BY <1>4, <2>1, <2>2
<1>8. ASSUME NEW p \in Proc, Fail(p) PROVE WindowHasEnd'
  <2>1. UNCHANGED window /\ CanFail /\ Go(p, Idle)
    BY <1>8 DEF Fail
  <2>2. \A k \in Keys : Starting(k)' = Starting(k) \ {p}
    BY <2>1, StartingMoved, IdleCall
  <2> QED
    BY <2>1, <2>2, WindowsKept
<1>9. CASE LinkExpires \/ UNCHANGED vars
  <2>1. UNCHANGED <<window, call>>
    BY <1>9 DEF LinkExpires, vars
  <2>2. \A k \in Keys : Starting(k)' = Starting(k)
    BY <2>1 DEF Starting, At
  <2> QED
    BY <2>1, <2>2, WindowsKept
<1> QED
  BY <1>1, <1>2, <1>3, <1>5, <1>6, <1>7, <1>8, <1>9 DEF Next

\* A limit that refuses resends is never left without an end, but by a crash
\* between the INCR and the PEXPIRE; and no PEXPIRE meets a key that is gone,
\* or prolongs a window (RateLimiter.ts: checkEmailResendLimit).
THEOREM WindowsEnd == Spec => []WindowHasEnd
<1>1. Init => WindowHasEnd
  BY DEF Init, WindowHasEnd, Starting, At, Idle, Closed
<1>2. RegistrationInv /\ WindowHasEnd /\ [Next]_vars => WindowHasEnd'
  BY WindowHasEndStep
<1> QED
  BY <1>1, <1>2, RegistrationAlways, PTL DEF Spec
=============================================================================
