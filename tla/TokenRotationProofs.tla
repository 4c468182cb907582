------------------------ MODULE TokenRotationProofs ------------------------
(***************************************************************************)
(* For every number of requests, families and seconds: the type invariant  *)
(* of TokenRotation, and its properties Rotated, MarksStick and            *)
(* SpentStaysSpent.  All follow from RotationInv, which is inductive; the  *)
(* number of successors of a token needs Forks as well, which counts them  *)
(* with the requests that may yet insert one.  With RotationInv each       *)
(* statement of a request is one step of TokenFamily, or none.             *)
(***************************************************************************)
EXTENDS TokenRotation, FiniteSetTheorems, TLAPS

LEMMA TokenParts ==
  ASSUME NEW t \in Token
  PROVE  /\ FamilyOf(t) \in Family
         /\ SignedAt(t) \in 0 .. MaxTime
         /\ t # NoToken
         /\ t = <<FamilyOf(t), SignedAt(t)>>
  BY DEF Token, FamilyOf, SignedAt, NoToken

LEMMA NewToken ==
  ASSUME NEW f \in Family, NEW i \in 0 .. MaxTime
  PROVE  /\ <<f, i>> \in Token
         /\ FamilyOf(<<f, i>>) = f
         /\ SignedAt(<<f, i>>) = i
  BY DEF Token, FamilyOf, SignedAt

LEMMA IdleCall == Idle \in Call /\ Idle.pc = "idle" /\ Idle.token = NoToken /\ Idle.new = NoToken
  BY DEF Idle, Call

\* A step that only moves one request.
LEMMA Moved ==
  ASSUME TypeOK, NEW p \in Proc, NEW c \in Call, Go(p, c)
  PROVE  /\ call' \in [Proc -> Call]
         /\ call'[p] = c
         /\ \A q \in Proc \ {p} : call'[q] = call[q]
  BY DEF TypeOK, Go

-----------------------------------------------------------------------------

LEMMA RotationInit == Init => RotationInv
<1> SUFFICES ASSUME Init PROVE RotationInv
  OBVIOUS
<1>1. TypeOK
  BY IdleCall, LifeAssumption DEF Init, TypeOK, Reasons
<1>2. Tree /\ Rows /\ FreshFamily
  BY IdleCall DEF Init, Tree, Rows, FreshFamily, LoggingIn
<1>3. \A p \in Proc : Locals(call[p])
  BY IdleCall DEF Init, Locals
<1> QED
  BY <1>1, <1>2, <1>3 DEF RotationInv

\* A step that changes one request and neither rows nor clock keeps the
\* invariant if the new locals fit.
LEMMA MoveKeeps ==
  ASSUME RotationInv, NEW p \in Proc, NEW c \in Call, Go(p, c),
         UNCHANGED <<now, stored, chain>>, used \subseteq used', used' \subseteq Token,
         reason' \in [Token -> Reasons],
         issued' \subseteq stored,
         c.token # NoToken => c.token \in stored,
         Locals(c)',
         LoggingIn(c) => /\ \A t \in stored : FamilyOf(t) # FamilyOf(c.new)
                         /\ \A q \in Proc \ {p} : LoggingIn(call[q]) =>
                               FamilyOf(call[q].new) # FamilyOf(c.new)
  PROVE  RotationInv'
<1> USE DEF RotationInv
<1>1. TypeOK'
  BY Moved DEF TypeOK
<1>2. Tree'
  BY DEF Tree
<1>3. Rows'
  BY Moved DEF Rows
<1>4. FreshFamily'
  BY Moved DEF FreshFamily, LoggingIn
<1>5. \A q \in Proc : Locals(call[q])'
  <2>1. ASSUME NEW q \in Proc \ {p} PROVE Locals(call[q])'
    BY Moved DEF Locals
  <2>2. Locals(call[p])'
    BY Moved DEF Locals
  <2> QED
    BY <2>1, <2>2
<1> QED
  BY <1>1, <1>2, <1>3, <1>4, <1>5

LEMMA IdleKeeps ==
  ASSUME RotationInv, NEW p \in Proc, Go(p, Idle),
         UNCHANGED <<now, stored, chain>>, used' = used, reason' \in [Token -> Reasons],
         issued' \subseteq stored
  PROVE  RotationInv'
<1>1. Locals(Idle)' /\ ~LoggingIn(Idle)
  BY IdleCall DEF Locals, LoggingIn
<1> QED
  BY <1>1, IdleCall, MoveKeeps DEF RotationInv, TypeOK

\* Revoking rows disturbs nothing else.
LEMMA RevokeKeeps ==
  ASSUME RotationInv, NEW S, NEW why \in Reasons, RevokeWhere(S, why)
  PROVE  reason' \in [Token -> Reasons]
  BY DEF RotationInv, TypeOK, RevokeWhere

\* What is known of a request before its next step.
LEMMA Here ==
  ASSUME RotationInv, NEW p \in Proc
  PROVE  /\ TypeOK
         /\ call[p] \in Call
         /\ call[p].token \in Token \cup {NoToken}
         /\ call[p].new \in Token \cup {NoToken}
         /\ Locals(call[p])
         /\ call[p].token # NoToken => call[p].token \in stored /\ call[p].token \in Token
  BY DEF RotationInv, TypeOK, Call, Rows

-----------------------------------------------------------------------------
(* One lemma per action.                                                   *)

LEMMA StartLoginKeeps ==
  ASSUME RotationInv, NEW p \in Proc, StartLogin(p)
  PROVE  RotationInv'
<1>1. PICK f \in Family :
        /\ \A t \in stored : FamilyOf(t) # f
        /\ \A q \in Proc : call[q].new # NoToken => FamilyOf(call[q].new) # f
        /\ Go(p, [Idle EXCEPT !.pc = "create", !.new = <<f, now>>])
  BY DEF StartLogin
<1>2. now \in 0 .. MaxTime
  BY DEF RotationInv, TypeOK
<1>3. PICK c \in Call :
        /\ Go(p, c)
        /\ c.pc = "create" /\ c.token = NoToken
        /\ c.new \in Token /\ FamilyOf(c.new) = f /\ SignedAt(c.new) = now
  <2> DEFINE d == [Idle EXCEPT !.pc = "create", !.new = <<f, now>>]
  <2>1. /\ d \in Call /\ d.pc = "create" /\ d.token = NoToken
        /\ d.new \in Token /\ FamilyOf(d.new) = f /\ SignedAt(d.new) = now
    BY <1>2, NewToken, IdleCall DEF Idle, Call
  <2>2. Go(p, d)
    BY <1>1
  <2> HIDE DEF d
  <2> QED
    BY <2>1, <2>2
<1>4. UNCHANGED <<now, stored, used, reason, chain, issued>>
  BY DEF StartLogin
<1>5. Locals(c)'
  BY <1>2, <1>3, <1>4, TokenParts DEF Locals
<1>6. \A q \in Proc : LoggingIn(call[q]) => FamilyOf(call[q].new) # FamilyOf(c.new)
  BY <1>1, <1>3, Here DEF LoggingIn, Locals
<1> QED
  BY <1>1, <1>3, <1>4, <1>5, <1>6, MoveKeeps DEF RotationInv, TypeOK, Rows

LEMMA StartRefreshKeeps ==
  ASSUME RotationInv, NEW p \in Proc, StartRefresh(p)
  PROVE  RotationInv'
<1>1. PICK t \in issued : Go(p, [Idle EXCEPT !.pc = "find", !.token = t])
  BY DEF StartRefresh
<1>2. t \in Token /\ t \in stored
  BY DEF RotationInv, TypeOK, Rows
<1>3. PICK c \in Call : Go(p, c) /\ c.pc = "find" /\ c.token = t
  <2> DEFINE d == [Idle EXCEPT !.pc = "find", !.token = t]
  <2>1. d \in Call /\ d.pc = "find" /\ d.token = t
    BY <1>2, IdleCall DEF Idle, Call
  <2> HIDE DEF d
  <2> QED
    BY <1>1, <2>1 DEF d
<1>4. UNCHANGED <<now, stored, used, reason, chain, issued>>
  BY DEF StartRefresh
<1>5. Locals(c)' /\ ~LoggingIn(c)
  BY <1>2, <1>3, TokenParts DEF Locals, LoggingIn
<1> QED
  BY <1>2, <1>3, <1>4, <1>5, MoveKeeps DEF RotationInv, TypeOK, Rows

\* The statement a request comes to; its tokens stay.
LEMMA NextStatement ==
  ASSUME RotationInv, NEW p \in Proc, NEW pc \in {"theft", "mark", "sign", "reply"},
         Go(p, [call[p] EXCEPT !.pc = pc])
  PROVE  \E c \in Call : /\ Go(p, c)
                         /\ c.pc = pc /\ c.token = call[p].token /\ c.new = call[p].new
<1> DEFINE c == [call[p] EXCEPT !.pc = pc]
<1>1. c \in Call /\ c.pc = pc /\ c.token = call[p].token /\ c.new = call[p].new
  BY Here DEF Call
<1>2. Go(p, c)
  OBVIOUS
<1> HIDE DEF c
<1> QED
  BY <1>1, <1>2

LEMMA FindTokenKeeps ==
  ASSUME RotationInv, NEW p \in Proc, FindToken(p)
  PROVE  RotationInv'
<1>1. UNCHANGED <<now, stored, used, reason, chain, issued>>
  BY DEF FindToken
<1>2. call[p].token # NoToken /\ call[p].token \in stored
  BY Here DEF FindToken, At, Locals
<1>3. \/ Go(p, Idle)
      \/ Go(p, [call[p] EXCEPT !.pc = "theft"])
      \/ Go(p, [call[p] EXCEPT !.pc = "mark"])
  BY Zenon DEF FindToken
<1>4. ASSUME NEW pc \in {"theft", "mark"}, Go(p, [call[p] EXCEPT !.pc = pc])
      PROVE  RotationInv'
  <2>1. PICK c \in Call : Go(p, c) /\ c.pc = pc /\ c.token = call[p].token
    BY <1>4, NextStatement
  <2>2. Locals(c)' /\ ~LoggingIn(c)
    BY <1>2, <2>1 DEF Locals, LoggingIn
  <2> QED
    BY <1>1, <1>2, <2>1, <2>2, MoveKeeps DEF RotationInv, TypeOK, Rows
<1> QED
  BY <1>1, <1>3, <1>4, IdleKeeps DEF RotationInv, TypeOK, Rows

LEMMA MarkAsUsedKeeps ==
  ASSUME RotationInv, NEW p \in Proc, MarkAsUsed(p)
  PROVE  RotationInv'
<1>1. PICK c \in Call : Go(p, c) /\ c.pc = "sign" /\ c.token = call[p].token
  BY NextStatement DEF MarkAsUsed
<1>2. call[p].token # NoToken /\ call[p].token \in stored /\ call[p].token \in Token
  BY Here DEF MarkAsUsed, At, Locals
<1>3. /\ UNCHANGED <<now, stored, reason, chain, issued>>
      /\ used' = used \cup {call[p].token}
  BY DEF MarkAsUsed
<1>4. Locals(c)' /\ ~LoggingIn(c)
  BY <1>1, <1>2, <1>3 DEF Locals, LoggingIn
<1>5. /\ used \subseteq used' /\ used' \subseteq Token
      /\ reason' \in [Token -> Reasons] /\ issued' \subseteq stored
  BY <1>2, <1>3 DEF RotationInv, TypeOK, Rows
<1> QED
  BY <1>1, <1>2, <1>3, <1>4, <1>5, MoveKeeps

LEMMA SignPairKeeps ==
  ASSUME RotationInv, NEW p \in Proc, SignPair(p)
  PROVE  RotationInv'
<1>1. /\ call[p].token # NoToken /\ call[p].token \in Token /\ call[p].token \in stored
      /\ call[p].token \in used
      /\ now \in 0 .. MaxTime /\ SignedAt(call[p].token) <= now
  BY Here DEF SignPair, At, Locals, RotationInv, TypeOK, Rows
<1>2. PICK t \in Token : t = call[p].token
  BY <1>1
<1>3. PICK n \in Token : n = <<FamilyOf(t), now>> /\ FamilyOf(n) = FamilyOf(t) /\ SignedAt(n) = now
  BY <1>1, TokenParts, NewToken
<1>4. PICK c \in Call : Go(p, c) /\ c.pc = "create" /\ c.token = t /\ c.new = n
  <2> DEFINE d == [call[p] EXCEPT !.pc = "create", !.new = n]
  <2>1. d \in Call /\ d.pc = "create" /\ d.token = t /\ d.new = n
    BY <1>2, Here DEF Call
  <2>2. Go(p, d)
    BY <1>2, <1>3 DEF SignPair
  <2> HIDE DEF d
  <2> QED
    BY <2>1, <2>2
<1>5. UNCHANGED <<now, stored, used, reason, chain, issued>>
  BY DEF SignPair
<1>6. Locals(c)' /\ ~LoggingIn(c)
  BY <1>1, <1>2, <1>3, <1>4, <1>5, TokenParts DEF Locals, LoggingIn
<1>7. /\ used \subseteq used' /\ used' \subseteq Token
      /\ reason' \in [Token -> Reasons] /\ issued' \subseteq stored
  BY <1>5 DEF RotationInv, TypeOK, Rows
<1> QED
  BY <1>1, <1>2, <1>4, <1>5, <1>6, <1>7, MoveKeeps


\* Inserting a row: the one action that extends the chain.
LEMMA CreateTokenKeeps ==
  ASSUME RotationInv, NEW p \in Proc, CreateToken(p)
  PROVE  RotationInv'
<1>1. UNCHANGED <<now, used, reason, issued>>
  BY DEF CreateToken
<1>2. PICK old \in Token \cup {NoToken}, new \in Token :
        /\ old = call[p].token /\ new = call[p].new
        /\ call[p].pc = "create" /\ SignedAt(new) <= now
        /\ old # NoToken => /\ old \in Token /\ old \in stored /\ old \in used
                            /\ FamilyOf(new) = FamilyOf(old) /\ SignedAt(old) <= SignedAt(new)
  BY Here DEF CreateToken, At, Locals
<1>3. CASE new \in stored
  BY <1>1, <1>2, <1>3, IdleKeeps DEF CreateToken, RotationInv, TypeOK, Rows
<1>4. CASE new \notin stored
  <2>1. PICK c \in Call : Go(p, c) /\ c.pc = "reply" /\ c.token = old /\ c.new = new
    BY <1>2, <1>4, NextStatement DEF CreateToken
  <2>2. /\ stored' = stored \cup {new}
        /\ chain' = IF old = NoToken THEN chain ELSE chain \cup {<<old, new>>}
    BY <1>2, <1>4 DEF CreateToken
  <2>3. /\ call' \in [Proc -> Call] /\ call'[p] = c
        /\ \A q \in Proc \ {p} : call'[q] = call[q]
    BY <2>1, Here, Moved
  <2>4. TypeOK'
    BY <1>1, <1>2, <2>2, <2>3 DEF RotationInv, TypeOK
  <2>5. Tree'
    <3>1. CASE old = NoToken
      BY <1>1, <2>2, <3>1 DEF RotationInv, Tree
    <3>2. CASE old # NoToken
      <4>1. chain' = chain \cup {<<old, new>>}
        BY <2>2, <3>2
      <4>2. SignedAt(old) < SignedAt(new)
        BY <1>2, <1>4, <3>2, TokenParts
      <4>3. \A e \in chain : e[2] # new
        BY <1>4 DEF RotationInv, Tree
      <4> QED
        BY <1>1, <1>2, <2>2, <3>2, <4>1, <4>2, <4>3 DEF RotationInv, Tree
    <3> QED
      BY <3>1, <3>2
  <2>6. Rows'
    BY <1>1, <1>2, <2>1, <2>2, <2>3 DEF RotationInv, Rows
  <2>7. FreshFamily'
    <3> SUFFICES ASSUME NEW q \in Proc, LoggingIn(call'[q])
                 PROVE  /\ \A t \in stored' : FamilyOf(t) # FamilyOf(call'[q].new)
                        /\ \A r \in Proc \ {q} :
                              LoggingIn(call'[r]) => FamilyOf(call'[r].new) # FamilyOf(call'[q].new)
      BY DEF FreshFamily, LoggingIn
    <3>1. q # p /\ call'[q] = call[q]
      BY <2>1, <2>3 DEF LoggingIn
    <3>2. FamilyOf(new) # FamilyOf(call[q].new)
      <4>1. CASE old = NoToken
        BY <1>2, <3>1, <4>1 DEF RotationInv, FreshFamily, LoggingIn
      <4>2. CASE old # NoToken
        BY <1>2, <3>1, <4>2 DEF RotationInv, FreshFamily
      <4> QED
        BY <4>1, <4>2
    <3>3. \A r \in Proc \ {q} : LoggingIn(call'[r]) => r # p
      BY <2>1, <2>3 DEF LoggingIn
    <3> QED
      BY <2>2, <2>3, <3>1, <3>2, <3>3 DEF RotationInv, FreshFamily
  <2>8. ASSUME NEW q \in Proc PROVE Locals(call[q])'
    <3>1. CASE q = p
      BY <1>1, <1>2, <2>1, <2>2, <2>3, <3>1, TokenParts DEF Locals
    <3>2. CASE q # p
      BY <1>1, <2>2, <2>3, <3>2 DEF RotationInv, Locals
    <3> QED
      BY <3>1, <3>2
  <2> QED
    BY <2>4, <2>5, <2>6, <2>7, <2>8 DEF RotationInv
<1> QED
  BY <1>3, <1>4

LEMMA ReplyKeeps ==
  ASSUME RotationInv, NEW p \in Proc, Reply(p)
  PROVE  RotationInv'
<1>1. call[p].new \in stored
  BY Here DEF Reply, At, Locals
<1> QED
  BY <1>1, IdleKeeps DEF Reply, RotationInv, TypeOK, Rows

\* Steps that write revokedAt, or nothing.
LEMMA SameRows ==
  ASSUME RotationInv, UNCHANGED <<now, stored, used, chain, issued, call>>,
         reason' \in [Token -> Reasons]
  PROVE  RotationInv'
<1>1. TypeOK'
  BY DEF RotationInv, TypeOK
<1>2. Tree' /\ Rows' /\ FreshFamily'
  BY DEF RotationInv, Tree, Rows, FreshFamily, LoggingIn
<1>3. \A p \in Proc : Locals(call[p])'
  BY DEF RotationInv, Locals
<1> QED
  BY <1>1, <1>2, <1>3 DEF RotationInv

LEMMA TickKeeps ==
  ASSUME RotationInv, Tick
  PROVE  RotationInv'
<1>1. now \in 0 .. MaxTime /\ now' = now + 1 /\ now' \in 0 .. MaxTime
  BY LifeAssumption DEF Tick, RotationInv, TypeOK
<1>2. UNCHANGED <<stored, used, reason, chain, issued, call>>
  BY DEF Tick
<1>3. TypeOK'
  BY <1>1, <1>2 DEF RotationInv, TypeOK
<1>4. Tree' /\ FreshFamily'
  BY <1>2 DEF RotationInv, Tree, FreshFamily, LoggingIn
<1>5. Rows'
  <2>1. ASSUME NEW t \in stored PROVE SignedAt(t) <= now'
    <3>1. SignedAt(t) \in 0 .. MaxTime /\ SignedAt(t) <= now
      BY TokenParts DEF RotationInv, TypeOK, Rows
    <3> QED
      BY <1>1, <3>1
  <2> QED
    BY <1>2, <2>1 DEF RotationInv, Rows
<1>6. ASSUME NEW p \in Proc PROVE Locals(call[p])'
  <2>1. call[p].pc = "create" => SignedAt(call[p].new) <= now'
    <3> SUFFICES ASSUME call[p].pc = "create" PROVE SignedAt(call[p].new) <= now'
      OBVIOUS
    <3>1. call[p].new \in Token /\ SignedAt(call[p].new) <= now
      BY Here DEF Locals
    <3>2. SignedAt(call[p].new) \in 0 .. MaxTime
      BY <3>1, TokenParts
    <3> QED
      BY <1>1, <3>1, <3>2
  <2> QED
    BY <1>2, <2>1, Here DEF Locals
<1> QED
  BY <1>3, <1>4, <1>5, <1>6 DEF RotationInv

LEMMA RotationStep == RotationInv /\ [Next]_vars => RotationInv'
<1> SUFFICES ASSUME RotationInv, [Next]_vars PROVE RotationInv'
  OBVIOUS
<1> USE DEF Reasons
<1>1. CASE Tick
  BY <1>1, TickKeeps
<1>2. CASE Logout \/ ResetPassword
  BY <1>2, RevokeKeeps, SameRows DEF Logout, ResetPassword
<1>3. ASSUME NEW p \in Proc, StartLogin(p) \/ StartRefresh(p) PROVE RotationInv'
  BY <1>3, StartLoginKeeps, StartRefreshKeeps
<1>4. ASSUME NEW p \in Proc, RevokeFamily(p) PROVE RotationInv'
  BY <1>4, RevokeKeeps, IdleKeeps DEF RevokeFamily, RotationInv, TypeOK, Rows
<1>5. ASSUME NEW p \in Proc, Refresh(p) PROVE RotationInv'
  BY <1>4, <1>5, FindTokenKeeps, MarkAsUsedKeeps, SignPairKeeps DEF Refresh
<1>6. ASSUME NEW p \in Proc, CreateToken(p) \/ Reply(p) PROVE RotationInv'
  BY <1>6, CreateTokenKeeps, ReplyKeeps
<1>7. ASSUME NEW p \in Proc, Fail(p) PROVE RotationInv'
  BY <1>7, IdleKeeps DEF Fail, RotationInv, TypeOK, Rows
<1>8. CASE UNCHANGED vars
  BY <1>8, SameRows DEF vars, RotationInv, TypeOK
<1> QED
  BY <1>1, <1>2, <1>3, <1>5, <1>6, <1>7, <1>8 DEF Next

-----------------------------------------------------------------------------
(* How many successors a token can have.                                   *)

LEMMA ExchangingFinite ==
  ASSUME NEW t
  PROVE  /\ IsFiniteSet(Exchanging(t)) /\ Exchanging(t) \subseteq Proc
         /\ Cardinality(Exchanging(t)) \in Nat /\ Cardinality(Proc) \in Nat
         /\ Cardinality(Exchanging(t)) <= Cardinality(Proc)
<1>1. Exchanging(t) \subseteq Proc
  BY DEF Exchanging
<1> QED
  BY <1>1, ProcAssumption, FS_Subset, FS_CardinalityType

\* No row, and no request that gets past the checks.
LEMMA NoMore ==
  ASSUME Forks, UNCHANGED <<stored, chain>>,
         \A t \in stored : Exchanging(t)' \subseteq Exchanging(t)
  PROVE  Forks'
<1> SUFFICES ASSUME NEW t \in stored
             PROVE  /\ IsFiniteSet(Successors(t)')
                    /\ Cardinality(Successors(t)') + Cardinality(Exchanging(t)')
                         <= Cardinality(Proc)
  BY DEF Forks
<1>1. Successors(t)' = Successors(t)
  BY DEF Successors
<1>2. Cardinality(Exchanging(t)') <= Cardinality(Exchanging(t))
      /\ Cardinality(Exchanging(t)') \in Nat
  BY ExchangingFinite, FS_Subset, FS_CardinalityType
<1>3. Cardinality(Successors(t)) \in Nat
  BY FS_CardinalityType DEF Forks
<1> QED
  BY <1>1, <1>2, <1>3, ExchangingFinite DEF Forks

Past(c) == c.pc \in {"mark", "sign", "create"}

\* A request that moves on, and has not got past the checks by that.
LEMMA MovesOn ==
  ASSUME RotationInv, Forks, UNCHANGED <<stored, chain>>, NEW p \in Proc, NEW c, Go(p, c),
         Past(c) => c.token = NoToken \/ (Past(call[p]) /\ c.token = call[p].token)
  PROVE  Forks'
<1>1. ASSUME NEW t \in stored, NEW q \in Exchanging(t)' PROVE q \in Exchanging(t)
  <2>1. t # NoToken
    BY TokenParts DEF RotationInv, TypeOK
  <2>2. q \in Proc /\ Past(call'[q]) /\ call'[q].token = t
    BY DEF Exchanging, Past
  <2>3. call'[p] = c /\ (q # p => call'[q] = call[q])
    BY <2>2, Here DEF TypeOK, Go
  <2> QED
    BY <2>1, <2>2, <2>3 DEF Exchanging, Past
<1> QED
  BY <1>1, NoMore

LEMMA EndsHere ==
  ASSUME RotationInv, Forks, UNCHANGED <<stored, chain>>, NEW p \in Proc, Go(p, Idle)
  PROVE  Forks'
  BY IdleCall, MovesOn DEF Past

\* A token found unused has no successor yet.
LEMMA FindForks ==
  ASSUME RotationInv, Forks, NEW p \in Proc, FindToken(p)
  PROVE  Forks'
<1>1. UNCHANGED <<stored, chain>>
  BY DEF FindToken
<1>2. \/ Go(p, Idle)
      \/ Go(p, [call[p] EXCEPT !.pc = "theft"])
      \/ call[p].token \notin used /\ Go(p, [call[p] EXCEPT !.pc = "mark"])
  BY Zenon DEF FindToken
<1>3. CASE Go(p, [call[p] EXCEPT !.pc = "theft"])
  <2>1. PICK c \in Call : Go(p, c) /\ c.pc = "theft"
    BY <1>3, NextStatement
  <2> QED
    BY <1>1, <2>1, MovesOn DEF Past
<1>4. CASE call[p].token \notin used /\ Go(p, [call[p] EXCEPT !.pc = "mark"])
  <2> SUFFICES ASSUME NEW t \in stored
               PROVE  /\ IsFiniteSet(Successors(t)')
                      /\ Cardinality(Successors(t)') + Cardinality(Exchanging(t)')
                           <= Cardinality(Proc)
    BY <1>1 DEF Forks
  <2>1. Successors(t)' = Successors(t)
    BY <1>1 DEF Successors
  <2>2. CASE t = call[p].token
    <3>1. Successors(t) = {}
      BY <1>4, <2>2 DEF Successors, RotationInv, Tree
    <3>2. Exchanging(t)' \subseteq Proc
      BY DEF Exchanging
    <3>3. Cardinality(Exchanging(t)') <= Cardinality(Proc) /\ Cardinality(Exchanging(t)') \in Nat
      BY <3>2, ProcAssumption, FS_Subset, FS_CardinalityType
    <3> QED
      BY <2>1, <3>1, <3>3, FS_EmptySet
  <2>3. CASE t # call[p].token
    <3>1. PICK c \in Call : Go(p, c) /\ c.token = call[p].token
      BY <1>4, NextStatement
    <3>2. ASSUME NEW q \in Exchanging(t)' PROVE q \in Exchanging(t)
      <4>1. q \in Proc /\ Past(call'[q]) /\ call'[q].token = t
        BY DEF Exchanging, Past
      <4>2. q # p /\ call'[q] = call[q]
        BY <2>3, <3>1, <4>1, Here, Moved
      <4> QED
        BY <4>1, <4>2 DEF Exchanging, Past
    <3>3. Cardinality(Exchanging(t)') <= Cardinality(Exchanging(t))
          /\ Cardinality(Exchanging(t)') \in Nat
      BY <3>2, ExchangingFinite, FS_Subset, FS_CardinalityType
    <3>4. Cardinality(Successors(t)) \in Nat
      BY FS_CardinalityType DEF Forks
    <3> QED
      BY <2>1, <3>3, <3>4, ExchangingFinite DEF Forks
  <2> QED
    BY <2>2, <2>3
<1> QED
  BY <1>1, <1>2, <1>3, <1>4, EndsHere

\* The request that inserts a successor is one less to insert another.
LEMMA CreateForks ==
  ASSUME RotationInv, Forks, NEW p \in Proc, CreateToken(p), call[p].new \notin stored
  PROVE  Forks'
<1>1. PICK old \in Token \cup {NoToken}, new \in Token :
        /\ old = call[p].token /\ new = call[p].new /\ call[p].pc = "create"
        /\ old # NoToken => old \in stored
  BY Here DEF CreateToken, At, Locals
<1>2. PICK c \in Call : Go(p, c) /\ c.pc = "reply"
  BY NextStatement DEF CreateToken
<1>3. /\ stored' = stored \cup {new} /\ new \notin stored
      /\ chain' = IF old = NoToken THEN chain ELSE chain \cup {<<old, new>>}
  BY <1>1 DEF CreateToken
<1>4. call'[p] = c /\ \A q \in Proc \ {p} : call'[q] = call[q]
  BY <1>2, Here, Moved
<1>5. ASSUME NEW t PROVE Exchanging(t)' = Exchanging(t) \ {p}
  BY <1>2, <1>4 DEF Exchanging
<1> SUFFICES ASSUME NEW t \in stored'
             PROVE  /\ IsFiniteSet(Successors(t)')
                    /\ Cardinality(Successors(t)') + Cardinality(Exchanging(t)')
                         <= Cardinality(Proc)
  BY DEF Forks
<1>6. CASE t = new
  <2>1. Successors(t)' = {}
    BY <1>1, <1>3, <1>6 DEF Successors, RotationInv, Tree
  <2>2. Exchanging(t)' \subseteq Proc
    BY DEF Exchanging
  <2>3. Cardinality(Exchanging(t)') <= Cardinality(Proc) /\ Cardinality(Exchanging(t)') \in Nat
    BY <2>2, ProcAssumption, FS_Subset, FS_CardinalityType
  <2> QED
    BY <2>1, <2>3, FS_EmptySet
<1>7. CASE t \in stored /\ t # old
  <2>1. Successors(t)' = Successors(t)
    BY <1>3, <1>7 DEF Successors
  <2>2. Cardinality(Exchanging(t)') <= Cardinality(Exchanging(t))
        /\ Cardinality(Exchanging(t)') \in Nat
    BY <1>5, ExchangingFinite, FS_Subset, FS_CardinalityType
  <2>3. Cardinality(Successors(t)) \in Nat
    BY <1>7, FS_CardinalityType DEF Forks
  <2> QED
    BY <1>7, <2>1, <2>2, <2>3, ExchangingFinite DEF Forks
<1>8. CASE t \in stored /\ t = old
  <2>1. old # NoToken
    BY <1>8, TokenParts DEF RotationInv, TypeOK
  <2>2. Successors(t)' = Successors(t) \cup {<<t, new>>}
    BY <1>3, <1>8, <2>1 DEF Successors
  <2>3. IsFiniteSet(Successors(t)) /\ Cardinality(Successors(t)) \in Nat
    BY <1>8, FS_CardinalityType DEF Forks
  <2>4. IsFiniteSet(Successors(t)')
        /\ Cardinality(Successors(t)') <= Cardinality(Successors(t)) + 1
        /\ Cardinality(Successors(t)') \in Nat
    <3>1. PICK S, x : S = Successors(t) /\ x = <<t, new>>
      OBVIOUS
    <3>2. IsFiniteSet(S \cup {x}) /\ Cardinality(S \cup {x}) \in Nat
          /\ Cardinality(S \cup {x}) = IF x \in S THEN Cardinality(S) ELSE Cardinality(S) + 1
      BY <2>3, <3>1, FS_AddElement, FS_CardinalityType
    <3>3. Cardinality(S \cup {x}) <= Cardinality(S) + 1
      BY <2>3, <3>1, <3>2
    <3> QED
      BY <2>2, <3>1, <3>2, <3>3
  <2>5. p \in Exchanging(t)
    BY <1>1, <1>8 DEF Exchanging
  <2>6. Cardinality(Exchanging(t)') = Cardinality(Exchanging(t)) - 1
    BY <1>5, <2>5, ExchangingFinite, FS_RemoveElement
  <2> QED
    BY <1>8, <2>3, <2>4, <2>6, ExchangingFinite DEF Forks
<1> QED
  BY <1>3, <1>6, <1>7, <1>8

LEMMA ForksInit == Init => Forks
  BY DEF Init, Forks

LEMMA ForksStep == RotationInv /\ Forks /\ [Next]_vars => Forks'
<1> SUFFICES ASSUME RotationInv, Forks, [Next]_vars PROVE Forks'
  OBVIOUS
<1>1. ASSUME UNCHANGED <<stored, chain, call>> PROVE Forks'
  BY <1>1, NoMore DEF Exchanging
<1>2. CASE Tick \/ Logout \/ ResetPassword \/ UNCHANGED vars
  BY <1>1, <1>2 DEF Tick, Logout, ResetPassword, vars
<1>3. ASSUME NEW p \in Proc, StartLogin(p) PROVE Forks'
  <2>1. PICK f \in Family : Go(p, [Idle EXCEPT !.pc = "create", !.new = <<f, now>>])
    BY <1>3 DEF StartLogin
  <2>2. [Idle EXCEPT !.pc = "create", !.new = <<f, now>>].token = NoToken
    BY DEF Idle
  <2> QED
    BY <1>3, <2>1, <2>2, MovesOn DEF StartLogin
<1>4. ASSUME NEW p \in Proc, StartRefresh(p) PROVE Forks'
  <2>1. PICK t \in issued : Go(p, [Idle EXCEPT !.pc = "find", !.token = t])
    BY <1>4 DEF StartRefresh
  <2>2. ~Past([Idle EXCEPT !.pc = "find", !.token = t])
    BY DEF Idle, Past
  <2> QED
    BY <1>4, <2>1, <2>2, MovesOn DEF StartRefresh
<1>5. ASSUME NEW p \in Proc, MarkAsUsed(p) PROVE Forks'
  <2>1. PICK c \in Call : Go(p, c) /\ c.token = call[p].token
    BY <1>5, NextStatement DEF MarkAsUsed
  <2> QED
    BY <1>5, <2>1, MovesOn DEF MarkAsUsed, At, Past
<1>6. ASSUME NEW p \in Proc, SignPair(p) PROVE Forks'
  <2>1. PICK n : n = <<FamilyOf(call[p].token), now>>
    OBVIOUS
  <2>2. [call[p] EXCEPT !.pc = "create", !.new = n].token = call[p].token
    BY Here DEF Call
  <2> QED
    BY <1>6, <2>1, <2>2, MovesOn DEF SignPair, At, Past
<1>7. ASSUME NEW p \in Proc, CreateToken(p) PROVE Forks'
  BY <1>7, CreateForks, EndsHere DEF CreateToken
<1>8. ASSUME NEW p \in Proc, RevokeFamily(p) \/ Reply(p) \/ Fail(p) PROVE Forks'
  BY <1>8, EndsHere DEF RevokeFamily, Reply, Fail
<1> QED
  BY <1>2, <1>3, <1>4, <1>5, <1>6, <1>7, <1>8, FindForks DEF Next, Refresh

-----------------------------------------------------------------------------
(* The theorems.                                                           *)

\* Every variable keeps its type: the marks and the chain speak of tokens, the
\* locals of a request (refreshTokens, login) of tokens it was given or signed.
THEOREM TokenTypes == Spec => []TypeOK
<1>1. RotationInv => TypeOK
  BY DEF RotationInv
<1> QED
  BY <1>1, RotationInit, RotationStep, PTL DEF Spec

\* The rows of a family form a tree of rotations, in which a parent is used and
\* has no more successors than requests can be in flight, however the statements
\* of refreshTokens interleave and whichever request dies between markAsUsed
\* and the insertion of the next token.
THEOREM Rotation == Spec => []Rotated
<1>1. RotationInv /\ Forks => Rotated
  <2> SUFFICES ASSUME RotationInv, Forks, NEW t \in stored
               PROVE  Cardinality(Successors(t)) <= Cardinality(Proc)
    BY DEF Rotated, RotationInv
  <2>1. Cardinality(Successors(t)) \in Nat
    BY FS_CardinalityType DEF Forks
  <2> QED
    BY <2>1, ExchangingFinite DEF Forks
<1> QED
  BY <1>1, RotationInit, RotationStep, ForksInit, ForksStep, PTL DEF Spec

\* What a step does to the marks of the rows.
LEMMA MarksStep ==
  ASSUME RotationInv, Next
  PROVE  /\ used \subseteq used'
         /\ \A t \in Token : Revoked(t) => Revoked(t)'
         /\ \A t \in Token : reason[t] = "theft" => reason'[t] # "reset"
<1>1. CASE UNCHANGED <<used, reason>>
  BY <1>1 DEF Revoked
<1>2. CASE Logout
  BY <1>2 DEF Logout, RevokeWhere, Revoked
<1>3. CASE ResetPassword
  BY <1>3 DEF ResetPassword, RevokeWhere, Revoked
<1>4. ASSUME NEW p \in Proc, RevokeFamily(p)
      PROVE  /\ used \subseteq used'
             /\ \A t \in Token : Revoked(t) => Revoked(t)'
             /\ \A t \in Token : reason[t] = "theft" => reason'[t] # "reset"
  BY <1>4 DEF RevokeFamily, RevokeWhere, Revoked
<1>5. ASSUME NEW p \in Proc, MarkAsUsed(p)
      PROVE  /\ used \subseteq used'
             /\ \A t \in Token : Revoked(t) => Revoked(t)'
             /\ \A t \in Token : reason[t] = "theft" => reason'[t] # "reset"
  BY <1>5 DEF MarkAsUsed, Revoked
<1>6. ASSUME NEW p \in Proc,
             \/ StartLogin(p) \/ StartRefresh(p) \/ FindToken(p) \/ SignPair(p)
             \/ CreateToken(p) \/ Reply(p) \/ Fail(p)
      PROVE  UNCHANGED <<used, reason>>
  BY <1>6 DEF StartLogin, StartRefresh, FindToken, SignPair, CreateToken, Reply, Fail
<1>7. CASE Tick
  BY <1>1, <1>7 DEF Tick
<1> QED
  BY <1>1, <1>2, <1>3, <1>4, <1>5, <1>6, <1>7 DEF Next, Refresh

\* A used or revoked row stays so, and a reset does not relabel a theft:
\* markAsUsed and revoke save rows that were read long before, and save the
\* changed column only.
THEOREM Marks == Spec => MarksStick
<1>1. RotationInv /\ [Next]_vars =>
        [/\ used \subseteq used'
         /\ \A t \in Token : Revoked(t) => Revoked(t)'
         /\ \A t \in Token : reason[t] = "theft" => reason'[t] # "reset"]_vars
  BY MarksStep
<1> QED
  BY <1>1, RotationInit, RotationStep, PTL DEF Spec, MarksStick

-----------------------------------------------------------------------------

LEMMA StillInvalid ==
  ASSUME RotationInv, Next, NEW t \in Token, ~IsValid(t)
  PROVE  ~IsValid(t)'
<1>1. now \in 0 .. MaxTime /\ (now' = now \/ now' = now + 1)
  BY DEF RotationInv, TypeOK, Next, Tick, Logout, ResetPassword, StartLogin, StartRefresh, Refresh,
         FindToken, MarkAsUsed, SignPair, RevokeFamily, CreateToken, Reply, Fail
<1>2. Expired(t) => Expired(t)'
  <2>1. SignedAt(t) \in 0 .. MaxTime
    BY TokenParts
  <2> QED
    BY <1>1, <2>1, LifeAssumption DEF Expired
<1> QED
  BY <1>2, MarksStep DEF IsValid

\* A spent family gets no row.
LEMMA SpentRows ==
  ASSUME RotationInv, Next, NEW f \in Family, Spent(f)
  PROVE  /\ stored \subseteq stored'
         /\ \A t \in stored' \ stored : FamilyOf(t) # f
<1>1. ASSUME NEW p \in Proc, CreateToken(p), call[p].new \notin stored
      PROVE  FamilyOf(call[p].new) # f
  <2>1. call[p].pc = "create" /\ call[p].new \in Token
    BY <1>1, Here DEF CreateToken, At, Locals
  <2>2. CASE call[p].token = NoToken
    BY <2>1, <2>2 DEF RotationInv, FreshFamily, LoggingIn, Spent
  <2>3. CASE call[p].token # NoToken
    BY <2>1, <2>3, Here DEF Locals, Spent
  <2> QED
    BY <2>2, <2>3
<1>2. ASSUME NEW p \in Proc, CreateToken(p)
      PROVE  stored' = stored \/ (call[p].new \notin stored /\ stored' = stored \cup {call[p].new})
  BY <1>2 DEF CreateToken
<1>3. CASE \E p \in Proc : CreateToken(p)
  BY <1>1, <1>2, <1>3
<1>4. CASE ~\E p \in Proc : CreateToken(p)
  BY <1>4 DEF Next, Tick, Logout, ResetPassword, StartLogin, StartRefresh, Refresh,
              FindToken, MarkAsUsed, SignPair, RevokeFamily, Reply, Fail
<1> QED
  BY <1>3, <1>4

Holds(c, f) == c.pc \in {"mark", "sign", "create"} /\ c.token # NoToken /\ FamilyOf(c.token) = f

\* No request passes the checks with a token of a spent family.
LEMMA SpentCalls ==
  ASSUME RotationInv, Next, NEW f \in Family, Spent(f), NEW p \in Proc
  PROVE  ~Holds(call'[p], f)
<1>1. ~Holds(call[p], f) /\ ~Holds(Idle, f)
  BY IdleCall DEF Spent, Holds
<1>2. CASE call'[p] = call[p] \/ call'[p] = Idle
  BY <1>1, <1>2
<1>3. ASSUME NEW q \in Proc, NEW c, Go(q, c), ~Holds(c, f)
      PROVE  ~Holds(call'[p], f)
  BY <1>1, <1>3, Here DEF TypeOK, Go
<1>4. CASE Tick \/ Logout \/ ResetPassword
  BY <1>2, <1>4 DEF Tick, Logout, ResetPassword
<1>5. ASSUME NEW q \in Proc, StartLogin(q) PROVE ~Holds(call'[p], f)
  <2>1. PICK g : Go(q, [Idle EXCEPT !.pc = "create", !.new = <<g, now>>])
    BY <1>5 DEF StartLogin
  <2>2. [Idle EXCEPT !.pc = "create", !.new = <<g, now>>].token = NoToken
    BY DEF Idle
  <2> QED
    BY <1>3, <2>1, <2>2 DEF Holds
<1>6. ASSUME NEW q \in Proc, StartRefresh(q) PROVE ~Holds(call'[p], f)
  <2>1. PICK t : Go(q, [Idle EXCEPT !.pc = "find", !.token = t])
    BY <1>6 DEF StartRefresh
  <2>2. [Idle EXCEPT !.pc = "find", !.token = t].pc = "find"
    BY DEF Idle
  <2> QED
    BY <1>3, <2>1, <2>2 DEF Holds
<1>7. ASSUME NEW q \in Proc, Go(q, Idle) PROVE ~Holds(call'[p], f)
  BY <1>1, <1>3, <1>7
<1>8. ASSUME NEW q \in Proc, NEW pc \in {"theft", "mark", "sign", "reply"},
             Go(q, [call[q] EXCEPT !.pc = pc]),
             pc \in {"mark", "sign"} => FamilyOf(call[q].token) # f
      PROVE  ~Holds(call'[p], f)
  <2> DEFINE c == [call[q] EXCEPT !.pc = pc]
  <2>1. c.pc = pc /\ c.token = call[q].token
    BY Here DEF Call
  <2>2. Go(q, c)
    BY <1>8
  <2> HIDE DEF c
  <2>3. ~Holds(c, f)
    BY <1>8, <2>1 DEF Holds
  <2> QED
    BY <1>3, <2>2, <2>3
<1>9. ASSUME NEW q \in Proc, FindToken(q) PROVE ~Holds(call'[p], f)
  <2>1. call[q].token \in stored /\ call[q].token \in Token
    BY <1>9, Here DEF FindToken, At, Locals
  <2>2. \/ Go(q, Idle)
        \/ Go(q, [call[q] EXCEPT !.pc = "theft"])
        \/ IsValid(call[q].token) /\ Go(q, [call[q] EXCEPT !.pc = "mark"])
    BY <1>9, Zenon DEF FindToken
  <2>3. IsValid(call[q].token) => FamilyOf(call[q].token) # f
    BY <2>1 DEF Spent
  <2> QED
    BY <1>7, <1>8, <2>2, <2>3
<1>10. ASSUME NEW q \in Proc, MarkAsUsed(q) PROVE ~Holds(call'[p], f)
  <2>1. FamilyOf(call[q].token) # f
    BY <1>10, Here DEF MarkAsUsed, At, Locals, Spent
  <2> QED
    BY <1>8, <1>10, <2>1 DEF MarkAsUsed
<1>11. ASSUME NEW q \in Proc, SignPair(q) PROVE ~Holds(call'[p], f)
  <2>1. FamilyOf(call[q].token) # f
    BY <1>11, Here DEF SignPair, At, Locals, Spent
  <2> DEFINE c == [call[q] EXCEPT !.pc = "create", !.new = <<FamilyOf(call[q].token), now>>]
  <2>2. c.token = call[q].token
    BY Here DEF Call
  <2>3. Go(q, c)
    BY <1>11 DEF SignPair
  <2> HIDE DEF c
  <2>4. ~Holds(c, f)
    BY <2>1, <2>2 DEF Holds
  <2> QED
    BY <1>3, <2>3, <2>4
<1>12. ASSUME NEW q \in Proc, CreateToken(q) PROVE ~Holds(call'[p], f)
  BY <1>7, <1>8, <1>12 DEF CreateToken
<1>13. ASSUME NEW q \in Proc, RevokeFamily(q) \/ Reply(q) \/ Fail(q) PROVE ~Holds(call'[p], f)
  BY <1>7, <1>13 DEF RevokeFamily, Reply, Fail
<1> QED
  BY <1>4, <1>5, <1>6, <1>9, <1>10, <1>11, <1>12, <1>13 DEF Next, Refresh

LEMMA SpentStep ==
  ASSUME RotationInv, Next, NEW f \in Family, Spent(f)
  PROVE  Spent(f)'
<1>1. \E t \in stored' : FamilyOf(t) = f
  BY SpentRows DEF Spent
<1>2. ASSUME NEW t \in stored', FamilyOf(t) = f PROVE ~IsValid(t)'
  BY <1>2, SpentRows, StillInvalid DEF Spent, RotationInv, TypeOK
<1>3. \A p \in Proc : call'[p].pc \in {"mark", "sign", "create"} /\ call'[p].token # NoToken
                         => FamilyOf(call'[p].token) # f
  BY SpentCalls DEF Holds
<1> QED
  BY <1>1, <1>2, <1>3 DEF Spent

\* A family that a logout, a password reset, a theft or the clock has spent,
\* with no request past the checks of refreshTokens, is never extended and
\* has no valid token again, whatever the clients present.
THEOREM SpentForGood == Spec => SpentStaysSpent
<1>1. RotationInv /\ [Next]_vars => [\A f \in Family : Spent(f) => Spent(f)']_vars
  BY SpentStep
<1> QED
  BY <1>1, RotationInit, RotationStep, PTL DEF Spec, SpentStaysSpent

-----------------------------------------------------------------------------
(* TokenRotation implements TokenFamily.                                   *)

Valid == {t \in stored : IsValid(t)}

Claims == [p \in Proc |-> ClaimOf(call[p])]

LEMMA ClaimFacts ==
  /\ \A c : c.pc \notin {"mark", "sign", "create"} => ClaimOf(c) = <<>>
  /\ \A c : Past(c) /\ c.token # NoToken => ClaimOf(c) = c.token
  /\ \A c : LoggingIn(c) => ClaimOf(c) = <<FamilyOf(c.new)>>
  BY DEF ClaimOf, LoggingIn, Past

\* What a request may claim: a token that has a row, or the family it opens.
LEMMA ClaimKinds ==
  ASSUME RotationInv, NEW p \in Proc
  PROVE  \/ Past(call[p]) /\ call[p].token \in stored /\ ClaimOf(call[p]) = call[p].token
         \/ LoggingIn(call[p]) /\ call[p].new \in Token
            /\ ClaimOf(call[p]) = <<FamilyOf(call[p].new)>>
         \/ ~Past(call[p]) /\ ClaimOf(call[p]) = <<>>
  BY Here, ClaimFacts DEF Locals, Past, LoggingIn

\* The claims after a step that moves one request.
LEMMA ClaimMoved ==
  ASSUME RotationInv, NEW p \in Proc, NEW c \in Call, Go(p, c)
  PROVE  Claims' = [Claims EXCEPT ![p] = ClaimOf(c)]
<1>1. call' \in [Proc -> Call] /\ call'[p] = c /\ \A q \in Proc \ {p} : call'[q] = call[q]
  BY Moved, Here
<1>2. ASSUME NEW q \in Proc
      PROVE  Claims'[q] = [Claims EXCEPT ![p] = ClaimOf(c)][q]
  BY <1>1 DEF Claims
<1> QED
  BY <1>2 DEF Claims

LEMMA ClaimAt ==
  ASSUME NEW p \in Proc
  PROVE  Claims[p] = ClaimOf(call[p])
  BY DEF Claims

\* A step that brings no row makes no token valid.
LEMMA ValidShrinks ==
  ASSUME RotationInv, Next, stored' = stored
  PROVE  Valid' \subseteq Valid
<1>1. \A t \in stored : t \in Token
  BY DEF RotationInv, TypeOK
<1> QED
  BY <1>1, StillInvalid DEF Valid

\* A step that brings no row, and after which every request claims what it did.
LEMMA Invalidates ==
  ASSUME RotationInv, Next, stored' = stored, Claims' = Claims
  PROVE  Promise!Invalidate
  BY ValidShrinks DEF Promise!Invalidate, Valid, Claims

LEMMA SameClaim ==
  ASSUME RotationInv, NEW p \in Proc, NEW c \in Call, Go(p, c), ClaimOf(c) = ClaimOf(call[p])
  PROVE  Claims' = Claims
  BY ClaimMoved, ClaimAt DEF Claims

-----------------------------------------------------------------------------
(* One lemma per kind of step.                                             *)

\* StartLogin opens a family.
LEMMA LoginOpens ==
  ASSUME RotationInv, NEW p \in Proc, StartLogin(p)
  PROVE  \E f \in Family : Promise!Open(p, f)
<1>1. PICK f \in Family :
        /\ \A t \in stored : FamilyOf(t) # f
        /\ \A q \in Proc : call[q].new # NoToken => FamilyOf(call[q].new) # f
        /\ Go(p, [Idle EXCEPT !.pc = "create", !.new = <<f, now>>])
  BY DEF StartLogin
<1>2. now \in 0 .. MaxTime
  BY DEF RotationInv, TypeOK
<1>3. PICK c \in Call : Go(p, c) /\ ClaimOf(c) = <<f>>
  <2> DEFINE d == [Idle EXCEPT !.pc = "create", !.new = <<f, now>>]
  <2>1. d \in Call /\ LoggingIn(d) /\ FamilyOf(d.new) = f
    BY <1>2, NewToken, IdleCall DEF Idle, Call, LoggingIn
  <2>2. Go(p, d)
    BY <1>1
  <2> HIDE DEF d
  <2>3. ClaimOf(d) = <<f>>
    BY <2>1, ClaimFacts
  <2> QED
    BY <2>1, <2>2, <2>3
<1>4. Claims[p] = <<>>
  BY ClaimAt, ClaimFacts DEF StartLogin, At
<1>5. {t \in stored : t[1] = f} = {}
  BY <1>1 DEF FamilyOf
<1>6. ASSUME NEW q \in Proc PROVE Claims[q] # <<f>>
  <2>1. CASE Past(call[q]) /\ call[q].token \in stored /\ ClaimOf(call[q]) = call[q].token
    <3>1. call[q].token \in Token /\ FamilyOf(call[q].token) # f
      BY <1>1, <2>1 DEF RotationInv, TypeOK
    <3>2. call[q].token = <<FamilyOf(call[q].token), SignedAt(call[q].token)>>
      BY <3>1, TokenParts
    <3> QED
      BY <2>1, <3>2, ClaimAt
  <2>2. CASE LoggingIn(call[q]) /\ call[q].new \in Token
             /\ ClaimOf(call[q]) = <<FamilyOf(call[q].new)>>
    <3>1. FamilyOf(call[q].new) # f
      BY <1>1, <2>2, TokenParts
    <3> QED
      BY <2>2, <3>1, ClaimAt
  <2>3. CASE ClaimOf(call[q]) = <<>>
    BY <2>3, ClaimAt
  <2> QED
    BY <2>1, <2>2, <2>3, ClaimKinds
<1>7. Claims' = [Claims EXCEPT ![p] = <<f>>]
  BY <1>3, ClaimMoved
<1>8. stored' = stored /\ Valid' = Valid
  BY DEF StartLogin, Valid, IsValid, Expired, Revoked
<1> QED
  BY <1>4, <1>5, <1>6, <1>7, <1>8
  DEF Promise!Open, Promise!Of, Promise!NoClaim, Claims, Valid

\* FindToken claims a token that is valid; otherwise nothing.
LEMMA FindClaims ==
  ASSUME RotationInv, Next, NEW p \in Proc, FindToken(p)
  PROVE  Promise!Invalidate \/ \E t \in Valid : Promise!Claim(p, t)
<1> DEFINE t == call[p].token
<1>1. call[p].pc = "find" /\ t \in stored /\ t \in Token
  BY Here DEF FindToken, At, Locals
<1>2. Claims[p] = <<>> /\ ClaimOf(call[p]) = <<>>
  BY <1>1, ClaimAt, ClaimFacts
<1>3. stored' = stored /\ Valid' = Valid
  BY DEF FindToken, Valid, IsValid, Expired, Revoked
<1>4. CASE Go(p, Idle)
  <2>1. ClaimOf(Idle) = <<>>
    BY IdleCall, ClaimFacts
  <2> QED
    BY <1>2, <1>3, <1>4, <2>1, IdleCall, SameClaim, Invalidates
<1>5. CASE Go(p, [call[p] EXCEPT !.pc = "theft"])
  <2> DEFINE c == [call[p] EXCEPT !.pc = "theft"]
  <2>1. c \in Call /\ c.pc = "theft"
    BY Here DEF Call
  <2>2. Go(p, c)
    BY <1>5
  <2> HIDE DEF c
  <2>3. ClaimOf(c) = <<>>
    BY <2>1, ClaimFacts
  <2> QED
    BY <1>2, <1>3, <2>1, <2>2, <2>3, SameClaim, Invalidates
<1>6. CASE IsValid(t) /\ Go(p, [call[p] EXCEPT !.pc = "mark"])
  <2> DEFINE c == [call[p] EXCEPT !.pc = "mark"]
  <2>1. c \in Call /\ c.pc = "mark" /\ c.token = t
    BY Here DEF Call
  <2>2. Go(p, c)
    BY <1>6
  <2> HIDE DEF c
  <2>3. ClaimOf(c) = t
    BY <1>1, <2>1, TokenParts, ClaimFacts DEF Past
  <2>4. Claims' = [Claims EXCEPT ![p] = t]
    BY <2>1, <2>2, <2>3, ClaimMoved
  <2>5. t \in Valid
    BY <1>1, <1>6 DEF Valid
  <2>6. Promise!Claim(p, t)
    BY <1>2, <1>3, <2>4, <2>5 DEF Promise!Claim, Promise!NoClaim, Claims, Valid
  <2> QED
    BY <2>5, <2>6
<1>7. \/ Go(p, Idle)
      \/ Go(p, [call[p] EXCEPT !.pc = "theft"])
      \/ IsValid(t) /\ Go(p, [call[p] EXCEPT !.pc = "mark"])
  BY Zenon DEF FindToken
<1> QED
  BY <1>4, <1>5, <1>6, <1>7

\* A request that ends drops what it claims.
LEMMA EndDrops ==
  ASSUME RotationInv, NEW p \in Proc, Go(p, Idle),
         UNCHANGED <<now, stored, used, reason>>
  PROVE  Promise!Drop(p)
<1>1. ClaimOf(Idle) = <<>>
  BY IdleCall, ClaimFacts
<1>2. Claims' = [Claims EXCEPT ![p] = <<>>]
  BY <1>1, IdleCall, ClaimMoved
<1>3. Valid' = Valid
  BY DEF Valid, IsValid, Expired, Revoked
<1> QED
  BY <1>2, <1>3 DEF Promise!Drop, Promise!NoClaim, Claims, Valid

\* CreateToken issues a token for what is claimed, or drops the claim.
LEMMA CreateIssues ==
  ASSUME RotationInv, NEW p \in Proc, CreateToken(p)
  PROVE  Promise!Drop(p) \/ \E t \in Promise!Token : Promise!Issue(p, t)
<1> DEFINE new == call[p].new
<1>1. call[p].pc = "create" /\ new \in Token
  BY Here DEF CreateToken, At, Locals
<1>2. CASE new \in stored
  BY <1>2, EndDrops DEF CreateToken
<1>3. CASE new \notin stored
  <2> DEFINE c == [call[p] EXCEPT !.pc = "reply"]
  <2>1. c \in Call /\ c.pc = "reply"
    BY Here DEF Call
  <2>2. Go(p, c) /\ stored' = stored \cup {new} /\ UNCHANGED <<now, used, reason>>
    BY <1>3 DEF CreateToken
  <2> HIDE DEF c
  <2>3. ClaimOf(c) = <<>>
    BY <2>1, ClaimFacts
  <2>4. Claims' = [Claims EXCEPT ![p] = <<>>]
    BY <2>1, <2>2, <2>3, ClaimMoved
  <2>5. Promise!Extends(Claims[p], new[1])
    <3>1. CASE call[p].token = NoToken
      <4>1. Claims[p] = <<new[1]>>
        BY <1>1, <3>1, ClaimAt, ClaimFacts DEF FamilyOf, LoggingIn
      <4> QED
        BY <4>1 DEF Promise!Extends
    <3>2. CASE call[p].token # NoToken
      <4>1. Claims[p] = call[p].token
        BY <1>1, <3>2, ClaimAt, ClaimFacts DEF Past
      <4>2. call[p].token \in stored /\ call[p].token \in used
            /\ call[p].token[1] = new[1]
        BY <1>1, <3>2, Here DEF Locals, FamilyOf
      <4> QED
        BY <4>1, <4>2 DEF Promise!Extends, Promise!Of, IsValid
    <3> QED
      BY <3>1, <3>2
  <2>6. Valid' = Valid \/ Valid' = Valid \cup {new}
    <3>1. \A t : IsValid(t)' <=> IsValid(t)
      BY <2>2 DEF IsValid, Expired, Revoked
    <3> QED
      BY <2>2, <3>1 DEF Valid
  <2>7. new \in Promise!Token
    BY <1>1 DEF Token, Promise!Token
  <2>8. Promise!Issue(p, new)
    BY <1>3, <2>2, <2>4, <2>5, <2>6 DEF Promise!Issue, Promise!NoClaim, Promise!Extends, Promise!Of, Claims, Valid
  <2> QED
    BY <2>7, <2>8
<1> QED
  BY <1>2, <1>3

\* A request goes on to another statement with the claim it has.
LEMMA KeepsClaim ==
  ASSUME RotationInv, Next, NEW p \in Proc,
         \/ StartRefresh(p) \/ MarkAsUsed(p) \/ SignPair(p) \/ RevokeFamily(p) \/ Reply(p)
  PROVE  Promise!Invalidate
<1>1. stored' = stored
  BY DEF StartRefresh, MarkAsUsed, SignPair, RevokeFamily, Reply
<1>2. CASE StartRefresh(p)
  <2>1. PICK t \in issued : Go(p, [Idle EXCEPT !.pc = "find", !.token = t])
    BY <1>2 DEF StartRefresh
  <2> DEFINE c == [Idle EXCEPT !.pc = "find", !.token = t]
  <2>2. c \in Call /\ c.pc = "find"
    BY DEF RotationInv, TypeOK, Idle, Call
  <2>3. Go(p, c)
    BY <2>1
  <2> HIDE DEF c
  <2>4. ClaimOf(c) = <<>> /\ ClaimOf(call[p]) = <<>>
    BY <1>2, <2>2, ClaimFacts DEF StartRefresh, At
  <2> QED
    BY <1>1, <2>2, <2>3, <2>4, SameClaim, Invalidates
<1>3. CASE MarkAsUsed(p)
  <2> DEFINE c == [call[p] EXCEPT !.pc = "sign"]
  <2>1. c \in Call /\ c.pc = "sign" /\ c.token = call[p].token
    BY Here DEF Call
  <2>2. Go(p, c) /\ call[p].pc = "mark"
    BY <1>3 DEF MarkAsUsed, At
  <2> HIDE DEF c
  <2>3. call[p].token # NoToken
    BY <2>2, Here DEF Locals
  <2>4. ClaimOf(c) = ClaimOf(call[p])
    BY <2>1, <2>2, <2>3, ClaimFacts DEF Past
  <2> QED
    BY <1>1, <2>1, <2>2, <2>4, SameClaim, Invalidates
<1>4. CASE SignPair(p)
  <2> DEFINE c == [call[p] EXCEPT !.pc = "create", !.new = <<FamilyOf(call[p].token), now>>]
  <2>1. call[p].pc = "sign" /\ call[p].token \in Token /\ now \in 0 .. MaxTime
    BY <1>4, Here DEF SignPair, At, Locals, TypeOK
  <2>2. <<FamilyOf(call[p].token), now>> \in Token
        /\ FamilyOf(<<FamilyOf(call[p].token), now>>) = FamilyOf(call[p].token)
    BY <2>1, TokenParts, NewToken
  <2>3. c \in Call /\ c.pc = "create" /\ c.token = call[p].token
    BY <2>2, Here DEF Call
  <2>4. Go(p, c)
    BY <1>4 DEF SignPair
  <2> HIDE DEF c
  <2>5. ClaimOf(c) = ClaimOf(call[p])
    BY <2>1, <2>3, TokenParts, ClaimFacts DEF Past
  <2> QED
    BY <1>1, <2>3, <2>4, <2>5, SameClaim, Invalidates
<1>5. CASE RevokeFamily(p) \/ Reply(p)
  <2>1. Go(p, Idle) /\ call[p].pc \in {"theft", "reply"}
    BY <1>5 DEF RevokeFamily, Reply, At
  <2>2. ClaimOf(Idle) = <<>> /\ ClaimOf(call[p]) = <<>>
    BY <2>1, IdleCall, ClaimFacts
  <2> QED
    BY <1>1, <2>1, <2>2, IdleCall, SameClaim, Invalidates
<1> QED
  BY <1>2, <1>3, <1>4, <1>5

\* Logouts, resets and the clock move no request.
LEMMA OthersInvalidate ==
  ASSUME RotationInv, Next, Tick \/ Logout \/ ResetPassword
  PROVE  Promise!Invalidate
<1>1. stored' = stored /\ Claims' = Claims
  BY DEF Tick, Logout, ResetPassword, Claims
<1> QED
  BY <1>1, Invalidates

-----------------------------------------------------------------------------

LEMMA FamilyInit == Init => Promise!Init
<1>1. Init => \A p \in Proc : ClaimOf(call[p]) = <<>>
  BY IdleCall, ClaimFacts DEF Init
<1> QED
  BY <1>1 DEF Init, Promise!Init, Promise!NoClaim

LEMMA FamilyStep == RotationInv /\ [Next]_vars => [Promise!Next]_(Promise!vars)
<1> SUFFICES ASSUME RotationInv, [Next]_vars
             PROVE  [Promise!Next]_(Promise!vars)
  OBVIOUS
<1>1. CASE UNCHANGED vars
  <2>1. UNCHANGED <<stored, Valid, Claims>>
    BY <1>1 DEF vars, Valid, Claims, IsValid, Expired, Revoked
  <2> QED
    BY <2>1 DEF Promise!vars, Valid, Claims
<1>2. CASE Next
  <2>1. CASE Tick \/ Logout \/ ResetPassword
    BY <1>2, <2>1, OthersInvalidate DEF Promise!Next
  <2>2. ASSUME NEW p \in Proc, StartLogin(p) PROVE Promise!Next
    BY <2>2, LoginOpens DEF Promise!Next
  <2>3. ASSUME NEW p \in Proc, FindToken(p) PROVE Promise!Next
    BY <1>2, <2>3, FindClaims DEF Promise!Next, Valid
  <2>4. ASSUME NEW p \in Proc, CreateToken(p) PROVE Promise!Next
    BY <2>4, CreateIssues DEF Promise!Next
  <2>5. ASSUME NEW p \in Proc,
               \/ StartRefresh(p) \/ MarkAsUsed(p) \/ SignPair(p) \/ RevokeFamily(p) \/ Reply(p)
        PROVE  Promise!Next
    BY <1>2, <2>5, KeepsClaim DEF Promise!Next
  <2>6. ASSUME NEW p \in Proc, Fail(p) PROVE Promise!Next
    BY <2>6, EndDrops DEF Fail, Promise!Next
  <2> QED
    BY <1>2, <2>1, <2>2, <2>3, <2>4, <2>5, <2>6 DEF Next, Refresh
<1> QED
  BY <1>1, <1>2

\* The statements of login, refreshTokens, logout and resetPassword, however
\* they interleave and fail, amount to what TokenFamily promises: a token comes
\* into being only for a login, or in exchange for a token that was valid when
\* the request read it and is not any more, and no token becomes valid again.
THEOREM Implements == Spec => ImplementsTokenFamily
<1> QED
  BY FamilyInit, FamilyStep, RotationInit, RotationStep, PTL
  DEF Spec, ImplementsTokenFamily, Promise!Spec
=============================================================================
