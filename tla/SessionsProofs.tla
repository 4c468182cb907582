--------------------------- MODULE SessionsProofs ---------------------------
(***************************************************************************)
(* For every number of requests, ids, limit and lifetime, the properties   *)
(* of Sessions: its types, that the index of sessions never outgrows the   *)
(* limit by more than the requests in flight explain, that no session      *)
(* handed out outlives the index that lists it, that every step of a       *)
(* request brings it nearer to its end, and that only a validation in      *)
(* flight brings a session back.                                           *)
(***************************************************************************)
EXTENDS Sessions, TLAPS, FiniteSetTheorems

-----------------------------------------------------------------------------
(* Types.                                                                  *)

LEMMA IdleType == Idle \in Call
  BY DEF Idle, Call, NoId, Commands, Callers

\* A record of locals with one field replaced is a record of locals.
LEMMA Update ==
  ASSUME NEW c \in Call
  PROVE  /\ \A x \in Commands : [c EXCEPT !.pc = x] \in Call
         /\ \A x \in Callers : [c EXCEPT !.sub = x] \in Call
         /\ \A x \in AuthKinds \cup {"login", "reset"} : [c EXCEPT !.kind = x] \in Call
         /\ \A x \in SessionId : [c EXCEPT !.cur = x] \in Call
         /\ \A x \in SessionId : [c EXCEPT !.new = x] \in Call
         /\ \A x \in SessionId \cup {NoId} : [c EXCEPT !.at = x] \in Call
         /\ \A x \in SUBSET SessionId : [c EXCEPT !.todo = x] \in Call
         /\ \A x \in Nat : [c EXCEPT !.n = x] \in Call
         /\ \A x \in Nat : [c EXCEPT !.t = x] \in Call
<1>1. \A x \in Commands : [c EXCEPT !.pc = x] \in Call
  BY DEF Call
<1>2. \A x \in Callers : [c EXCEPT !.sub = x] \in Call
  BY DEF Call
<1>3. \A x \in AuthKinds \cup {"login", "reset"} : [c EXCEPT !.kind = x] \in Call
  BY DEF Call
<1>4. \A x \in SessionId : [c EXCEPT !.cur = x] \in Call
  BY DEF Call
<1>5. \A x \in SessionId : [c EXCEPT !.new = x] \in Call
  BY DEF Call
<1>6. \A x \in SessionId \cup {NoId} : [c EXCEPT !.at = x] \in Call
  BY DEF Call
<1>7. \A x \in SUBSET SessionId : [c EXCEPT !.todo = x] \in Call
  BY DEF Call
<1>8. \A x \in Nat : [c EXCEPT !.n = x] \in Call
  BY DEF Call
<1>9. \A x \in Nat : [c EXCEPT !.t = x] \in Call
  BY DEF Call
<1> QED
  BY <1>1, <1>2, <1>3, <1>4, <1>5, <1>6, <1>7, <1>8, <1>9

LEMMA FieldType ==
  ASSUME NEW c \in Call
  PROVE  /\ c.cur \in SessionId \cup {NoId} /\ c.new \in SessionId \cup {NoId}
         /\ c.at \in SessionId \cup {NoId} /\ c.todo \in SUBSET SessionId
         /\ c.n \in Nat /\ c.t \in Nat
  BY DEF Call

\* The index key is set or lost with values of its type.
LEMMA SetIndexType ==
  ASSUME TypeOK, NEW S \in SUBSET SessionId, IsFiniteSet(S), SetIndex(S)
  PROVE  index' \in SUBSET SessionId /\ indexEnd' \in Nat /\ IsFiniteSet(index')
  BY NumberAssumption DEF TypeOK, SetIndex, Never

\* A stored value is replaced by one of its type.
LEMMA SessionType ==
  ASSUME TypeOK, NEW s \in SessionId
  PROVE  /\ \A v \in [createdAt : Nat, lastActivityAt : Nat, end : Nat] :
               [session EXCEPT ![s] = v] \in [SessionId -> [createdAt : Nat, lastActivityAt : Nat, end : Nat]]
         /\ [session EXCEPT ![s].end = 0] \in [SessionId -> [createdAt : Nat, lastActivityAt : Nat, end : Nat]]
         /\ session[s].createdAt \in Nat /\ session[s].lastActivityAt \in Nat /\ session[s].end \in Nat
  BY DEF TypeOK

LEMMA IndexType ==
  TypeInv => Index \in SUBSET SessionId /\ IsFiniteSet(Index) /\ Cardinality(Index) \in Nat
  BY FS_EmptySet, FS_CardinalityType DEF Index, TypeInv, TypeOK

-----------------------------------------------------------------------------
(* What the locals hold at each command.                                   *)

LEMMA IdleOK == CallOK(Idle)
  BY DEF CallOK, PcFits, Idle, AuthKinds

\* The locals move on to another command, for the same caller or a new one.
LEMMA MoveOK ==
  ASSUME NEW c \in Call, CallOK(c), NEW pc \in Commands
  PROVE  /\ PcFits(pc, c.kind, c.sub) =>
               [c EXCEPT !.pc = pc] \in Call /\ CallOK([c EXCEPT !.pc = pc])
         /\ \A sub \in Callers : PcFits(pc, c.kind, sub) =>
               /\ [c EXCEPT !.pc = pc, !.sub = sub] \in Call
               /\ CallOK([c EXCEPT !.pc = pc, !.sub = sub])
<1>1. ASSUME PcFits(pc, c.kind, c.sub) PROVE CallOK([c EXCEPT !.pc = pc])
  BY <1>1 DEF CallOK, Call
<1>2. ASSUME NEW sub \in Callers, PcFits(pc, c.kind, sub)
      PROVE  CallOK([c EXCEPT !.pc = pc, !.sub = sub])
  BY <1>2 DEF CallOK, Call
<1>3. \A sub \in Callers : [c EXCEPT !.pc = pc, !.sub = sub] \in Call
  BY Update
<1> QED
  BY <1>1, <1>2, <1>3, Update

\* These fields do not matter to CallOK.
LEMMA OtherOK ==
  ASSUME NEW c \in Call, CallOK(c), NEW x
  PROVE  /\ CallOK([c EXCEPT !.todo = x]) /\ CallOK([c EXCEPT !.at = x])
         /\ CallOK([c EXCEPT !.n = x]) /\ CallOK([c EXCEPT !.t = x])
<1>1. CallOK([c EXCEPT !.todo = x])
  BY DEF CallOK, Call
<1>2. CallOK([c EXCEPT !.at = x])
  BY DEF CallOK, Call
<1>3. CallOK([c EXCEPT !.n = x])
  BY DEF CallOK, Call
<1>4. CallOK([c EXCEPT !.t = x])
  BY DEF CallOK, Call
<1> QED
  BY <1>1, <1>2, <1>3, <1>4

LEMMA NewOK ==
  ASSUME NEW c \in Call, c.kind \in Kinds, c.kind \in AuthKinds, c.cur \in SessionId,
         PcFits(c.pc, c.kind, c.sub), NEW s \in SessionId
  PROVE  CallOK([c EXCEPT !.new = s])
  BY DEF CallOK, Call, AuthKinds

LEMMA HandlerOK ==
  ASSUME NEW c \in Call, CallOK(c), c.kind \in AuthKinds
  PROVE  Handler(c) \in Call /\ CallOK(Handler(c))
<1> DEFINE h == [[c EXCEPT !.n = 0] EXCEPT !.t = 0]
<1>1. h \in Call /\ CallOK(h) /\ h.kind = c.kind
  <2> DEFINE g == [c EXCEPT !.n = 0]
  <2>1. g \in Call /\ CallOK(g)
    BY Update, OtherOK
  <2>2. g.kind = c.kind
    BY DEF Call
  <2> HIDE DEF g
  <2>3. [g EXCEPT !.t = 0] \in Call /\ CallOK([g EXCEPT !.t = 0])
    BY <2>1, Update, OtherOK
  <2>4. [g EXCEPT !.t = 0].kind = c.kind
    BY <2>1, <2>2 DEF Call
  <2> QED
    BY <2>3, <2>4 DEF g
<1>2. \A pc \in Commands : [[c EXCEPT !.sub = "none", !.n = 0, !.t = 0] EXCEPT !.pc = pc]
                            = [h EXCEPT !.pc = pc, !.sub = "none"]
  BY DEF Call
<1> HIDE DEF h
<1>3. \A pc \in Commands : PcFits(pc, c.kind, "none") =>
          /\ [h EXCEPT !.pc = pc, !.sub = "none"] \in Call
          /\ CallOK([h EXCEPT !.pc = pc, !.sub = "none"])
  BY <1>1, MoveOK DEF Callers
<1>4. CASE c.kind \in {"logout", "delete"}
  <2>1. PcFits("revDel", c.kind, "none") /\ "revDel" \in Commands
    BY DEF PcFits, Commands
  <2> QED
    BY <1>2, <1>3, <1>4, <2>1 DEF Handler
<1>5. CASE c.kind = "list"
  <2>1. PcFits("listRange", c.kind, "none") /\ "listRange" \in Commands
    BY <1>5 DEF PcFits, Commands
  <2> QED
    BY <1>2, <1>3, <1>5, <2>1 DEF Handler
<1>6. CASE c.kind = "password"
  <2>1. PcFits("allRange", c.kind, "none") /\ "allRange" \in Commands
    BY <1>6 DEF PcFits, Commands
  <2> QED
    BY <1>2, <1>3, <1>6, <2>1 DEF Handler
<1>7. CASE c.kind = "read"
  BY <1>7, IdleType, IdleOK DEF Handler
<1> QED
  BY <1>4, <1>5, <1>6, <1>7 DEF AuthKinds

LEMMA NextListedOK ==
  ASSUME NEW c \in Call, CallOK(c), c.kind = "list", NEW left \in SUBSET SessionId
  PROVE  NextListed(c, left) \in Call /\ CallOK(NextListed(c, left))
<1> DEFINE d == [c EXCEPT !.pc = "get", !.sub = "list"]
<1>1. d \in Call /\ CallOK(d)
  <2>1. PcFits("get", c.kind, "list")
    BY DEF PcFits, AuthKinds
  <2> QED
    BY <2>1, MoveOK DEF Callers, Commands
<1> HIDE DEF d
<1>2. [d EXCEPT !.todo = left] \in Call /\ CallOK([d EXCEPT !.todo = left])
  BY <1>1, Update, OtherOK
<1>3. [d EXCEPT !.todo = left, !.at = NoId] \in Call /\ CallOK([d EXCEPT !.todo = left, !.at = NoId])
  BY <1>2, Update, OtherOK
<1> QED
  BY <1>3, IdleType, IdleOK DEF NextListed, d

LEMMA MissingOK ==
  ASSUME NEW c \in Call, CallOK(c)
  PROVE  Missing(c) \in Call /\ CallOK(Missing(c))
<1>1. CASE c.sub = "list"
  <2>1. PcFits("listRem", c.kind, c.sub)
    BY <1>1 DEF CallOK, PcFits, AuthKinds
  <2> QED
    BY <1>1, <2>1, MoveOK DEF Missing, Commands
<1>2. CASE c.sub = "keep"
  <2> DEFINE d == [c EXCEPT !.pc = "get", !.sub = "regen"]
  <2>1. PcFits("get", c.kind, "regen")
    BY <1>2 DEF CallOK, PcFits, AuthKinds
  <2>2. d \in Call /\ CallOK(d)
    BY <2>1, MoveOK DEF Callers, Commands
  <2> HIDE DEF d
  <2>3. [d EXCEPT !.at = NoId] \in Call /\ CallOK([d EXCEPT !.at = NoId])
    BY <2>2, Update, OtherOK
  <2> QED
    BY <1>2, <2>3 DEF Missing, d
<1>3. CASE c.sub \notin {"list", "keep"}
  BY <1>3, IdleType, IdleOK DEF Missing
<1> QED
  BY <1>1, <1>2, <1>3

LEMMA FoundOK ==
  ASSUME TypeOK, NEW c \in Call, CallOK(c), c.pc = "get", NEW s \in SessionId
  PROVE  Found(c, s) \in Call /\ CallOK(Found(c, s))
<1>1. session[s].lastActivityAt \in Nat /\ now \in Nat /\ ExpiresAt(s) \in Nat
  BY NumberAssumption DEF TypeOK, ExpiresAt
<1>2. CASE c.sub = "auth"
  <2>1. PcFits("ttl", c.kind, c.sub)
    BY <1>2 DEF CallOK, PcFits, AuthKinds
  <2> DEFINE d == [c EXCEPT !.pc = "ttl"]
  <2>2. d \in Call /\ CallOK(d)
    BY <2>1, MoveOK DEF Commands
  <2> HIDE DEF d
  <2>3. [d EXCEPT !.t = now] \in Call /\ CallOK([d EXCEPT !.t = now])
    BY <1>1, <2>2, Update, OtherOK
  <2> QED
    BY <1>2, <2>3 DEF Found, d
<1>3. CASE c.sub = "list"
  <2>1. c.kind = "list" /\ c.todo \ {s} \in SUBSET SessionId
    BY <1>3, FieldType DEF CallOK, PcFits
  <2> QED
    BY <1>3, <2>1, NextListedOK DEF Found
<1>4. CASE c.sub = "keep"
  <2>1. PcFits("keepAdd", c.kind, "none")
    BY <1>4 DEF CallOK, PcFits, AuthKinds
  <2> QED
    BY <1>4, <2>1, MoveOK DEF Found, Commands, Callers
<1>5. CASE c.sub = "regen" /\ ExpiresAt(s) > now
  <2> DEFINE d == [c EXCEPT !.pc = "copy", !.sub = "none"]
             e == [d EXCEPT !.n = ExpiresAt(s) - now]
  <2>1. PcFits("copy", c.kind, "none")
    BY <1>5 DEF CallOK, PcFits, AuthKinds
  <2>2. d \in Call /\ CallOK(d)
    BY <2>1, MoveOK DEF Commands, Callers
  <2> HIDE DEF d
  <2>3. e \in Call /\ CallOK(e)
    <3>1. ExpiresAt(s) - now \in Nat
      BY <1>1, <1>5
    <3> QED
      BY <2>2, <3>1, Update, OtherOK
  <2> HIDE DEF e
  <2>4. [e EXCEPT !.t = session[s].lastActivityAt] \in Call
        /\ CallOK([e EXCEPT !.t = session[s].lastActivityAt])
    BY <1>1, <2>3, Update, OtherOK
  <2> QED
    BY <1>5, <2>4 DEF Found, d, e
<1>6. CASE c.sub = "regen" /\ ~(ExpiresAt(s) > now)
  BY <1>6, IdleType, IdleOK DEF Found
<1>7. c.sub \in {"auth", "list", "keep", "regen"}
  BY DEF Call, Callers, CallOK, PcFits
<1> QED
  BY <1>2, <1>3, <1>4, <1>5, <1>6, <1>7
-----------------------------------------------------------------------------
(* Every step preserves the types.                                         *)

\* The locals of a request at a command.
LEMMA Here ==
  ASSUME TypeInv, NEW p \in Proc
  PROVE  /\ call[p] \in Call /\ CallOK(call[p]) /\ TypeOK
         /\ call[p].cur \in SessionId \cup {NoId} /\ call[p].new \in SessionId \cup {NoId}
         /\ call[p].at \in SessionId \cup {NoId} /\ call[p].todo \in SUBSET SessionId
         /\ call[p].n \in Nat /\ call[p].t \in Nat
  BY FieldType DEF TypeInv, TypeOK

\* What a command has to give for the types to hold after it.
LEMMA StepType ==
  ASSUME TypeInv, NEW p \in Proc,
         \E c \in Call : CallOK(c) /\ Go(p, c),
         session' \in [SessionId -> [createdAt : Nat, lastActivityAt : Nat, end : Nat]],
         index' \in SUBSET SessionId, IsFiniteSet(index'), indexEnd' \in Nat,
         used' \in SUBSET SessionId, issued' \in SUBSET SessionId, UNCHANGED now
  PROVE  TypeInv'
<1>1. call' \in [Proc -> Call] /\ \A q \in Proc : CallOK(call'[q])
  BY DEF Go, TypeInv, TypeOK
<1> QED
  BY <1>1 DEF TypeInv, TypeOK, CallOK, PcFits

\* A command that changes locals only.
LEMMA LocalType ==
  ASSUME TypeInv, NEW p \in Proc, \E c \in Call : CallOK(c) /\ Go(p, c),
         UNCHANGED <<now, session, index, indexEnd, used, issued>>
  PROVE  TypeInv'
  BY StepType DEF TypeInv, TypeOK

\* A command on the index.
LEMMA IndexStepType ==
  ASSUME TypeInv, NEW p \in Proc, \E c \in Call : CallOK(c) /\ Go(p, c),
         NEW S \in SUBSET SessionId, IsFiniteSet(S), SetIndex(S),
         UNCHANGED <<now, session, used, issued>>
  PROVE  TypeInv'
  BY StepType, SetIndexType DEF TypeInv, TypeOK

\* A command on a session key.
LEMMA SessionStepType ==
  ASSUME TypeInv, NEW p \in Proc, \E c \in Call : CallOK(c) /\ Go(p, c),
         session' \in [SessionId -> [createdAt : Nat, lastActivityAt : Nat, end : Nat]],
         UNCHANGED <<now, index, indexEnd, used, issued>>
  PROVE  TypeInv'
  BY StepType DEF TypeInv, TypeOK

LEMMA StartLoginType ==
  ASSUME TypeInv, NEW p \in Proc, StartLogin(p)
  PROVE  TypeInv'
<1>1. PICK s \in SessionId \ used :
         /\ used' = used \cup {s}
         /\ Go(p, [Idle EXCEPT !.kind = "login", !.pc = "zcard", !.new = s, !.t = now])
  BY DEF StartLogin
<1> DEFINE d == [Idle EXCEPT !.kind = "login", !.pc = "zcard", !.new = s]
<1>2. d \in Call /\ CallOK(d)
  BY IdleType, Update DEF CallOK, PcFits, Idle, AuthKinds, StartLogin, Commands
<1> HIDE DEF d
<1>3. now \in Nat
  BY DEF TypeInv, TypeOK
<1>4. [d EXCEPT !.t = now] \in Call /\ CallOK([d EXCEPT !.t = now])
  BY <1>2, <1>3, Update, OtherOK
<1>5. \E c \in Call : CallOK(c) /\ Go(p, c)
  BY <1>1, <1>4 DEF d
<1> QED
  BY <1>1, <1>5, StepType DEF StartLogin, TypeInv, TypeOK

LEMMA StartResetType ==
  ASSUME TypeInv, NEW p \in Proc, StartReset(p)
  PROVE  TypeInv'
<1> DEFINE c == [Idle EXCEPT !.kind = "reset", !.pc = "allRange"]
<1>1. c \in Call /\ CallOK(c)
  BY IdleType, Update DEF CallOK, PcFits, Idle, AuthKinds, StartReset, Commands
<1> QED
  BY <1>1, LocalType DEF StartReset

LEMMA StartAuthType ==
  ASSUME TypeInv, NEW p \in Proc, StartAuth(p)
  PROVE  TypeInv'
<1>1. PICK s \in issued, k \in Kinds \cap AuthKinds :
        LET c == [Idle EXCEPT !.kind = k, !.pc = "get", !.sub = "auth", !.cur = s]
        IN  CASE k = "delete" ->
                    /\ \E target \in SessionId : Go(p, [c EXCEPT !.todo = {target}])
                    /\ UNCHANGED used
              [] k = "password" ->
                    \E new \in SessionId \ used :
                        Go(p, [c EXCEPT !.new = new]) /\ used' = used \cup {new}
              [] k = "logout" -> Go(p, [c EXCEPT !.todo = {s}]) /\ UNCHANGED used
              [] OTHER -> Go(p, c) /\ UNCHANGED used
  BY DEF StartAuth
<1> DEFINE c == [Idle EXCEPT !.kind = k, !.pc = "get", !.sub = "auth", !.cur = s]
<1>2. s \in SessionId /\ used \in SUBSET SessionId /\ Index \in SUBSET SessionId
  BY IndexType DEF TypeInv, TypeOK
<1>3. c \in Call
  BY <1>2, IdleType, Update DEF Commands, Callers
<1>4. /\ k # "password" => CallOK(c)
      /\ c.kind = k /\ c.pc = "get" /\ c.sub = "auth" /\ c.cur = s
      /\ PcFits(c.pc, c.kind, c.sub)
  BY <1>2 DEF CallOK, PcFits, Idle, AuthKinds
<1> HIDE DEF c
<1>5. ASSUME NEW T \in SUBSET SessionId, k # "password"
      PROVE  [c EXCEPT !.todo = T] \in Call /\ CallOK([c EXCEPT !.todo = T])
  BY <1>3, <1>4, <1>5, Update, OtherOK
<1>6. ASSUME NEW new \in SessionId
      PROVE  [c EXCEPT !.new = new] \in Call /\ CallOK([c EXCEPT !.new = new])
  BY <1>2, <1>3, <1>4, <1>6, Update, NewOK
<1>7. used' \in SUBSET SessionId /\ \E d \in Call : CallOK(d) /\ Go(p, d)
  <2>1. CASE k = "delete"
    <3>1. PICK target \in SessionId : Go(p, [c EXCEPT !.todo = {target}])
      BY <1>1, <2>1 DEF c
    <3> QED
      BY <1>1, <1>2, <1>5, <2>1, <3>1
  <2>2. CASE k = "password"
    BY <1>1, <1>2, <1>6, <2>2 DEF c
  <2>3. CASE k = "logout"
    BY <1>1, <1>2, <1>5, <2>3 DEF c
  <2>4. CASE k \notin {"delete", "password", "logout"}
    BY <1>1, <1>2, <1>3, <1>4, <2>4 DEF c
  <2> QED
    BY <2>1, <2>2, <2>3, <2>4
<1> QED
  BY <1>7, StepType DEF StartAuth, TypeInv, TypeOK
LEMMA LoginStepType ==
  ASSUME TypeInv, NEW p \in Proc,
         \/ CountSessions(p) \/ PickVictims(p) \/ StoreSession(p) \/ IndexSession(p) \/ ExtendIndex(p)
  PROVE  TypeInv'
<1>0. call[p].pc \in {"zcard", "zrange", "setex", "zadd", "expire"}
  BY DEF CountSessions, PickVictims, StoreSession, IndexSession, ExtendIndex, At
<1>1. call[p].kind = "login" /\ call[p].new \in SessionId /\ call[p].t \in Nat
  BY <1>0, Here DEF CallOK, PcFits
<1>2. ASSUME NEW pc \in {"zrange", "setex", "zadd", "expire", "revDel"}
      PROVE  [call[p] EXCEPT !.pc = pc] \in Call /\ CallOK([call[p] EXCEPT !.pc = pc])
  <2>1. PcFits(pc, call[p].kind, call[p].sub)
    BY <1>1, Here DEF PcFits, CallOK, AuthKinds
  <2>2. pc \in Commands
    BY DEF Commands
  <2> QED
    BY <2>1, <2>2, Here, MoveOK
<1>3. CASE CountSessions(p)
  <2> DEFINE count == Cardinality(Index)
             d == [call[p] EXCEPT !.pc = "zrange"]
  <2>1. d \in Call /\ CallOK(d)
    BY <1>2
  <2>2. count >= MaxConcurrent => count - MaxConcurrent + 1 \in Nat
    BY IndexType, NumberAssumption
  <2> HIDE DEF d
  <2>3. count >= MaxConcurrent =>
          /\ [d EXCEPT !.n = count - MaxConcurrent + 1] \in Call
          /\ CallOK([d EXCEPT !.n = count - MaxConcurrent + 1])
    BY <2>1, <2>2, Update, OtherOK
  <2>4. \E c \in Call : CallOK(c) /\ Go(p, c)
    BY <1>2, <1>3, <2>3 DEF CountSessions, d
  <2> QED
    BY <1>3, <2>4, LocalType DEF CountSessions
<1>4. CASE PickVictims(p)
  <2>1. PICK S \in SUBSET Index :
           Go(p, [call[p] EXCEPT !.pc = IF S = {} THEN "setex" ELSE "revDel", !.todo = S, !.n = 0])
    BY <1>4 DEF PickVictims
  <2> DEFINE d == [call[p] EXCEPT !.pc = IF S = {} THEN "setex" ELSE "revDel"]
             e == [d EXCEPT !.todo = S]
  <2>2. S \in SUBSET SessionId
    BY IndexType
  <2>3. d \in Call /\ CallOK(d)
    BY <1>2
  <2> HIDE DEF d
  <2>4. e \in Call /\ CallOK(e)
    BY <2>2, <2>3, Update, OtherOK
  <2> HIDE DEF e
  <2>5. [e EXCEPT !.n = 0] \in Call /\ CallOK([e EXCEPT !.n = 0])
    BY <2>4, Update, OtherOK
  <2>6. \E c \in Call : CallOK(c) /\ Go(p, c)
    BY <2>1, <2>5 DEF d, e
  <2> QED
    BY <1>4, <2>6, LocalType DEF PickVictims
<1>5. CASE StoreSession(p)
  <2> DEFINE v == [createdAt |-> call[p].t, lastActivityAt |-> call[p].t, end |-> now + Life]
  <2>1. now + Life \in Nat
    BY Here, NumberAssumption DEF TypeOK
  <2>2. v \in [createdAt : Nat, lastActivityAt : Nat, end : Nat]
    BY <1>1, <2>1
  <2>3. session' = [session EXCEPT ![call[p].new] = v]
    BY <1>5 DEF StoreSession
  <2> HIDE DEF v
  <2>4. session' \in [SessionId -> [createdAt : Nat, lastActivityAt : Nat, end : Nat]]
    BY <1>1, <2>2, <2>3, Here, SessionType
  <2> QED
    BY <1>2, <1>5, <2>4, SessionStepType DEF StoreSession
<1>6. CASE IndexSession(p)
  <2>1. Index \cup {call[p].new} \in SUBSET SessionId /\ IsFiniteSet(Index \cup {call[p].new})
    BY <1>1, IndexType, FS_AddElement
  <2> QED
    BY <1>2, <1>6, <2>1, IndexStepType DEF IndexSession
<1>7. CASE ExtendIndex(p)
  <2>1. indexEnd' \in Nat /\ issued' \in SUBSET SessionId
    BY <1>1, <1>7, Here, NumberAssumption DEF ExtendIndex, TypeOK
  <2> QED
    BY <1>7, <2>1, StepType, IdleType, IdleOK DEF ExtendIndex, TypeInv, TypeOK
<1> QED
  BY <1>3, <1>4, <1>5, <1>6, <1>7

LEMMA RevokeStepType ==
  ASSUME TypeInv, NEW p \in Proc, RevokeDel(p) \/ RevokeRem(p)
  PROVE  TypeInv'
<1> DEFINE c == call[p]
<1>0. c \in Call /\ CallOK(c) /\ TypeOK /\ c.todo \in SUBSET SessionId
  BY Here
<1>1. CASE RevokeDel(p)
  <2>1. PICK s \in c.todo : /\ session' = [session EXCEPT ![s].end = 0]
                            /\ Go(p, [c EXCEPT !.pc = "revRem", !.at = s])
    BY <1>1 DEF RevokeDel
  <2> DEFINE d == [c EXCEPT !.pc = "revRem"]
  <2>2. PcFits("revRem", c.kind, c.sub)
    BY <1>0 DEF CallOK, PcFits
  <2>3. d \in Call /\ CallOK(d)
    BY <1>0, <2>2, MoveOK DEF Commands
  <2> HIDE DEF d
  <2>4. [d EXCEPT !.at = s] \in Call /\ CallOK([d EXCEPT !.at = s])
    BY <1>0, <2>3, Update, OtherOK
  <2>5. \E e \in Call : CallOK(e) /\ Go(p, e)
    BY <2>1, <2>4 DEF d
  <2>6. session' \in [SessionId -> [createdAt : Nat, lastActivityAt : Nat, end : Nat]]
    BY <1>0, <2>1, SessionType
  <2> QED
    BY <1>1, <2>5, <2>6, SessionStepType DEF RevokeDel
<1>2. CASE RevokeRem(p)
  <2> DEFINE left == c.todo \ {c.at}
             d == [c EXCEPT !.todo = left]
             next == [d EXCEPT !.at = NoId]
  <2>a. left \in SUBSET SessionId
    BY <1>0
  <2> HIDE DEF left
  <2>b. d \in Call /\ CallOK(d)
    BY <1>0, <2>a, Update, OtherOK
  <2>c. d.kind = c.kind /\ d.sub = c.sub
    BY <1>0 DEF Call
  <2>1. d \in Call /\ CallOK(d) /\ d.kind = c.kind /\ d.sub = c.sub
    BY <2>b, <2>c
  <2> HIDE DEF d
  <2>d. next \in Call /\ CallOK(next)
    BY <2>1, Update, OtherOK
  <2>e. next.kind = c.kind /\ next.sub = c.sub
    BY <2>1 DEF Call
  <2>2. next \in Call /\ CallOK(next) /\ next.kind = c.kind /\ next.sub = c.sub
    BY <2>d, <2>e
  <2>3. next = [c EXCEPT !.todo = left, !.at = NoId]
    BY DEF d
  <2> HIDE DEF next
  <2>4. [next EXCEPT !.pc = "revDel"] \in Call /\ CallOK([next EXCEPT !.pc = "revDel"])
    <3>1. PcFits("revDel", next.kind, next.sub)
      BY <2>2 DEF CallOK, PcFits
    <3> QED
      BY <2>2, <3>1, MoveOK DEF Commands
  <2>5. c.kind = "login" =>
          [next EXCEPT !.pc = "setex"] \in Call /\ CallOK([next EXCEPT !.pc = "setex"])
    <3>1. c.kind = "login" => PcFits("setex", next.kind, next.sub)
      BY <2>2 DEF CallOK, PcFits
    <3> QED
      BY <2>2, <3>1, MoveOK DEF Commands
  <2>6. Go(p, IF left # {} THEN [next EXCEPT !.pc = "revDel"]
              ELSE IF c.kind = "login" THEN [next EXCEPT !.pc = "setex"]
              ELSE Idle)
    BY <1>2, <2>3 DEF RevokeRem, left
  <2>7. \E e \in Call : CallOK(e) /\ Go(p, e)
    BY <2>4, <2>5, <2>6, IdleType, IdleOK
  <2>8. Index \ {c.at} \in SUBSET SessionId /\ IsFiniteSet(Index \ {c.at})
    BY IndexType, FS_RemoveElement
  <2> QED
    BY <1>2, <2>7, <2>8, IndexStepType DEF RevokeRem
<1> QED
  BY <1>1, <1>2

LEMMA ReadStepType ==
  ASSUME TypeInv, NEW p \in Proc, ReadTtl(p) \/ Touch(p) \/ Get(p) \/ Purge(p)
  PROVE  TypeInv'
<1> DEFINE c == call[p]
<1>0. c \in Call /\ CallOK(c) /\ TypeOK /\ c.n \in Nat /\ c.t \in Nat
      /\ c.at \in SessionId \cup {NoId}
  BY Here
<1>c. c.pc \in {"ttl", "touch"} => c.cur \in SessionId /\ c.kind \in AuthKinds
  BY <1>0 DEF CallOK, PcFits
<1>1. CASE ReadTtl(p)
  <2> DEFINE left == session[c.cur].end - now
             d == [c EXCEPT !.pc = "touch"]
  <2>1. c.cur \in SessionId /\ c.kind \in AuthKinds
    BY <1>1, <1>c DEF ReadTtl, At
  <2>2. left > 0 => left \in Nat
    BY <1>0, <2>1, SessionType DEF TypeOK
  <2>3. PcFits("touch", c.kind, c.sub)
    BY <1>0, <2>1 DEF CallOK, PcFits
  <2>4. d \in Call /\ CallOK(d)
    BY <1>0, <2>3, MoveOK DEF Commands
  <2> HIDE DEF d
  <2>5. left > 0 => [d EXCEPT !.n = left] \in Call /\ CallOK([d EXCEPT !.n = left])
    BY <2>2, <2>4, Update, OtherOK
  <2>6. Handler(c) \in Call /\ CallOK(Handler(c))
    BY <1>0, <2>1, HandlerOK
  <2>7. \E e \in Call : CallOK(e) /\ Go(p, e)
    BY <1>1, <2>5, <2>6 DEF ReadTtl, d
  <2> QED
    BY <1>1, <2>7, LocalType DEF ReadTtl
<1>2. CASE Touch(p)
  <2>1. c.cur \in SessionId /\ c.kind \in AuthKinds
    BY <1>2, <1>c DEF Touch, At
  <2>2. Handler(c) \in Call /\ CallOK(Handler(c))
    BY <1>0, <2>1, HandlerOK
  <2> DEFINE v == [session[c.cur] EXCEPT !.lastActivityAt = c.t, !.end = now + c.n]
  <2>3. session' = [session EXCEPT ![c.cur] = v]
    BY <1>0, <1>2, <2>1 DEF Touch, TypeOK
  <2>4. now + c.n \in Nat
    BY <1>0 DEF TypeOK
  <2>5. v \in [createdAt : Nat, lastActivityAt : Nat, end : Nat]
    BY <1>0, <2>1, <2>4 DEF TypeOK
  <2> HIDE DEF v
  <2>6. session' \in [SessionId -> [createdAt : Nat, lastActivityAt : Nat, end : Nat]]
    BY <1>0, <2>1, <2>3, <2>5, SessionType
  <2> QED
    BY <1>2, <2>2, <2>6, SessionStepType DEF Touch
<1>3. CASE Get(p)
  <2>1. PICK s \in SessionId :
          Go(p, CASE s \notin Live       -> Missing([c EXCEPT !.at = s])
                  [] now > ExpiresAt(s)  -> [[c EXCEPT !.at = s] EXCEPT !.pc = "purge"]
                  [] OTHER               -> [Found([c EXCEPT !.at = s], s) EXCEPT !.at = NoId])
    BY <1>3 DEF Get
  <2> DEFINE d == [c EXCEPT !.at = s]
  <2>2. d \in Call /\ CallOK(d) /\ d.pc = "get" /\ d.kind = c.kind /\ d.sub = c.sub
    BY <1>0, <1>3, Update, OtherOK DEF Call, Get, At
  <2> HIDE DEF d
  <2>3. Missing(d) \in Call /\ CallOK(Missing(d))
    BY <2>2, MissingOK
  <2>4. [d EXCEPT !.pc = "purge"] \in Call /\ CallOK([d EXCEPT !.pc = "purge"])
    <3>1. PcFits("purge", d.kind, d.sub)
      BY <2>2 DEF CallOK, PcFits
    <3> QED
      BY <2>2, <3>1, MoveOK DEF Commands
  <2>5. [Found(d, s) EXCEPT !.at = NoId] \in Call /\ CallOK([Found(d, s) EXCEPT !.at = NoId])
    BY <1>0, <2>2, FoundOK, Update, OtherOK
  <2>6. \E e \in Call : CallOK(e) /\ Go(p, e)
    <3>1. \/ Go(p, Missing(d))
          \/ Go(p, [d EXCEPT !.pc = "purge"])
          \/ Go(p, [Found(d, s) EXCEPT !.at = NoId])
      BY <2>1, Zenon DEF d
    <3> QED
      BY <2>3, <2>4, <2>5, <3>1
  <2> QED
    BY <1>3, <2>6, LocalType DEF Get
<1>4. CASE Purge(p)
  <2>1. Missing(c) \in Call /\ CallOK(Missing(c))
    BY <1>0, MissingOK
  <2>2. session' \in [SessionId -> [createdAt : Nat, lastActivityAt : Nat, end : Nat]]
    BY <1>0, <1>4 DEF Purge, TypeOK
  <2> QED
    BY <1>4, <2>1, <2>2, SessionStepType DEF Purge
<1> QED
  BY <1>1, <1>2, <1>3, <1>4
LEMMA ListStepType ==
  ASSUME TypeInv, NEW p \in Proc, ListRange(p) \/ ListRem(p)
  PROVE  TypeInv'
<1> DEFINE c == call[p]
<1>1. c \in Call /\ CallOK(c) /\ c.kind = "list" /\ c.todo \in SUBSET SessionId
  BY Here DEF ListRange, ListRem, At, CallOK, PcFits
<1>2. CASE ListRange(p)
  BY <1>1, <1>2, IndexType, NextListedOK, LocalType DEF ListRange
<1>3. CASE ListRem(p)
  <2>1. c.todo \ {c.at} \in SUBSET SessionId
    BY <1>1
  <2>2. NextListed(c, c.todo \ {c.at}) \in Call /\ CallOK(NextListed(c, c.todo \ {c.at}))
    BY <1>1, <2>1, NextListedOK
  <2>3. Index \ {c.at} \in SUBSET SessionId /\ IsFiniteSet(Index \ {c.at})
    BY IndexType, FS_RemoveElement
  <2> QED
    BY <1>3, <2>2, <2>3, IndexStepType DEF ListRem
<1> QED
  BY <1>2, <1>3

LEMMA AllNextOK ==
  ASSUME NEW c \in Call, CallOK(c), c.kind \in {"reset", "password"}, NEW left \in SUBSET SessionId
  PROVE  AllNext(c, left) \in Call /\ CallOK(AllNext(c, left))
<1> DEFINE pc == IF left = {} THEN "allClear" ELSE "allDel"
           d == [c EXCEPT !.pc = pc]
<1>1. PcFits(pc, c.kind, c.sub) /\ pc \in Commands
  BY DEF CallOK, PcFits, Commands
<1>2. d \in Call /\ CallOK(d)
  BY <1>1, MoveOK
<1> HIDE DEF d
<1>3. [d EXCEPT !.todo = left] \in Call /\ CallOK([d EXCEPT !.todo = left])
  BY <1>2, Update, OtherOK
<1> QED
  BY <1>3 DEF AllNext, d

LEMMA AllStepType ==
  ASSUME TypeInv, NEW p \in Proc, AllRange(p) \/ AllDel(p) \/ AllClear(p)
  PROVE  TypeInv'
<1> DEFINE c == call[p]
<1>1. c \in Call /\ CallOK(c) /\ TypeOK /\ c.kind \in {"reset", "password"} /\ c.todo \in SUBSET SessionId
  BY Here DEF AllRange, AllDel, AllClear, At, CallOK, PcFits
<1>2. CASE AllRange(p)
  <2>1. Index \ {c.cur} \in SUBSET SessionId
    BY IndexType
  <2> QED
    BY <1>1, <1>2, <2>1, AllNextOK, LocalType DEF AllRange
<1>3. CASE AllDel(p)
  <2>1. PICK s \in c.todo : /\ session' = [session EXCEPT ![s].end = 0]
                            /\ Go(p, AllNext(c, c.todo \ {s}))
    BY <1>3 DEF AllDel
  <2>2. c.todo \ {s} \in SUBSET SessionId /\ s \in SessionId
    BY <1>1
  <2>3. AllNext(c, c.todo \ {s}) \in Call /\ CallOK(AllNext(c, c.todo \ {s}))
    BY <1>1, <2>2, AllNextOK
  <2>4. session' \in [SessionId -> [createdAt : Nat, lastActivityAt : Nat, end : Nat]]
    BY <1>1, <2>1, <2>2, SessionType
  <2> QED
    BY <1>3, <2>1, <2>3, <2>4, SessionStepType DEF AllDel
<1>4. CASE AllClear(p)
  <2>1. c.kind = "password" =>
          /\ [c EXCEPT !.pc = "get", !.sub = "keep"] \in Call
          /\ CallOK([c EXCEPT !.pc = "get", !.sub = "keep"])
    <3>1. c.kind = "password" => PcFits("get", c.kind, "keep")
      BY DEF PcFits, AuthKinds
    <3> QED
      BY <1>1, <3>1, MoveOK DEF Commands, Callers
  <2>2. \E e \in Call : CallOK(e) /\ Go(p, e)
    BY <1>1, <1>4, <2>1, IdleType, IdleOK DEF AllClear
  <2>3. {} \in SUBSET SessionId /\ IsFiniteSet({})
    BY FS_EmptySet
  <2> QED
    BY <1>4, <2>2, <2>3, IndexStepType DEF AllClear
<1> QED
  BY <1>2, <1>3, <1>4

LEMMA KeepStepType ==
  ASSUME TypeInv, NEW p \in Proc,
         KeepAdd(p) \/ Copy(p) \/ CopyRem(p) \/ CopyAdd(p) \/ CopyDel(p)
  PROVE  TypeInv'
<1> DEFINE c == call[p]
<1>1. /\ c \in Call /\ CallOK(c) /\ TypeOK /\ c.kind = "password"
      /\ c.n \in Nat /\ c.t \in Nat
  BY Here DEF KeepAdd, Copy, CopyRem, CopyAdd, CopyDel, At, CallOK, PcFits
<1>2. c.cur \in SessionId /\ c.new \in SessionId
  BY <1>1 DEF CallOK, AuthKinds
<1>3. ASSUME NEW pc \in {"copyRem", "copyAdd", "copyDel"}
      PROVE  [c EXCEPT !.pc = pc] \in Call /\ CallOK([c EXCEPT !.pc = pc])
  <2>1. PcFits(pc, c.kind, c.sub) /\ pc \in Commands
    BY <1>1 DEF CallOK, PcFits, Commands
  <2> QED
    BY <1>1, <2>1, MoveOK
<1>4. CASE KeepAdd(p)
  <2>1. PcFits("get", c.kind, "regen")
    BY <1>1 DEF PcFits, AuthKinds
  <2>2. [c EXCEPT !.pc = "get", !.sub = "regen"] \in Call /\ CallOK([c EXCEPT !.pc = "get", !.sub = "regen"])
    BY <1>1, <2>1, MoveOK DEF Commands, Callers
  <2>3. Index \cup {c.cur} \in SUBSET SessionId /\ IsFiniteSet(Index \cup {c.cur})
    BY <1>2, IndexType, FS_AddElement
  <2> QED
    BY <1>4, <2>2, <2>3, IndexStepType DEF KeepAdd
<1>5. CASE Copy(p)
  <2> DEFINE v == [createdAt |-> session[c.cur].createdAt, lastActivityAt |-> c.t, end |-> now + c.n]
             d == [c EXCEPT !.pc = "copyRem"]
             e == [d EXCEPT !.n = 0]
  <2>1. session[c.cur].createdAt \in Nat /\ now + c.n \in Nat
    BY <1>1, <1>2, SessionType DEF TypeOK
  <2>2. v \in [createdAt : Nat, lastActivityAt : Nat, end : Nat]
    BY <1>1, <2>1
  <2>3. session' = [session EXCEPT ![c.new] = v]
    BY <1>5 DEF Copy
  <2>4. d \in Call /\ CallOK(d)
    BY <1>3
  <2> HIDE DEF v, d
  <2>5. e \in Call /\ CallOK(e)
    BY <2>4, Update, OtherOK
  <2> HIDE DEF e
  <2>6. [e EXCEPT !.t = 0] \in Call /\ CallOK([e EXCEPT !.t = 0])
    BY <2>5, Update, OtherOK
  <2>7. \E r \in Call : CallOK(r) /\ Go(p, r)
    BY <1>5, <2>6 DEF Copy, d, e
  <2>8. session' \in [SessionId -> [createdAt : Nat, lastActivityAt : Nat, end : Nat]]
    BY <1>1, <1>2, <2>2, <2>3, SessionType
  <2> QED
    BY <1>5, <2>7, <2>8, SessionStepType DEF Copy
<1>6. CASE CopyRem(p)
  <2>1. Index \ {c.cur} \in SUBSET SessionId /\ IsFiniteSet(Index \ {c.cur})
    BY IndexType, FS_RemoveElement
  <2> QED
    BY <1>3, <1>6, <2>1, IndexStepType DEF CopyRem
<1>7. CASE CopyAdd(p)
  <2>1. Index \cup {c.new} \in SUBSET SessionId /\ IsFiniteSet(Index \cup {c.new})
    BY <1>2, IndexType, FS_AddElement
  <2> QED
    BY <1>3, <1>7, <2>1, IndexStepType DEF CopyAdd
<1>8. CASE CopyDel(p)
  <2>1. session' \in [SessionId -> [createdAt : Nat, lastActivityAt : Nat, end : Nat]]
    BY <1>1, <1>2, <1>8, SessionType DEF CopyDel
  <2> QED
    BY <1>8, <2>1, IdleType, IdleOK, SessionStepType DEF CopyDel
<1> QED
  BY <1>4, <1>5, <1>6, <1>7, <1>8

LEMMA InitType == Init => TypeInv
  BY IdleType, IdleOK, NumberAssumption, FS_EmptySet DEF Init, TypeInv, TypeOK, Never

LEMMA NextType == TypeInv /\ [Next]_vars => TypeInv'
<1> SUFFICES ASSUME TypeInv, [Next]_vars PROVE TypeInv'
  OBVIOUS
<1>1. CASE Tick
  BY <1>1 DEF Tick, TypeInv, TypeOK, CallOK, PcFits
<1>2. ASSUME NEW p \in Proc, Start(p) PROVE TypeInv'
  BY <1>2, StartLoginType, StartAuthType, StartResetType DEF Start
<1>3. ASSUME NEW p \in Proc, Step(p) PROVE TypeInv'
  BY <1>3, LoginStepType, RevokeStepType, ReadStepType, ListStepType, AllStepType, KeepStepType DEF Step
<1>4. ASSUME NEW p \in Proc, Fail(p) PROVE TypeInv'
  BY <1>4, IdleType, IdleOK, LocalType DEF Fail
<1>5. CASE UNCHANGED vars
  BY <1>5 DEF vars, TypeInv, TypeOK, CallOK, PcFits
<1> QED
  BY <1>1, <1>2, <1>3, <1>4, <1>5 DEF Next

\* Every variable keeps its type, whatever the requests, the limit and the
\* clock: the invariant that carries it, TypeInv, adds that the index stays
\* finite and that at each command (enforceSessionLimit's counts, the session
\* ids of regenerateSession) the locals hold what the code has set by then.
THEOREM Types == Spec => []TypeOK
<1>1. TypeInv => TypeOK
  BY DEF TypeInv
<1> QED
  BY <1>1, InitType, NextType, PTL DEF Spec

-----------------------------------------------------------------------------
(* Slots and counts.                                                       *)

LEMMA SlotsFinite ==
  /\ IsFiniteSet(Slots) /\ Cardinality(Slots) \in Nat
  /\ \A p \in Proc : <<p, 1>> \in Slots /\ ("password" \in Kinds => <<p, 2>> \in Slots)
<1>1. IsFiniteSet({1, 2}) /\ IsFiniteSet({1})
  <2>1. IsFiniteSet({1})
    BY FS_Singleton
  <2>2. IsFiniteSet({1} \cup {2})
    BY <2>1, FS_AddElement
  <2>3. {1} \cup {2} = {1, 2}
    OBVIOUS
  <2> QED
    BY <2>1, <2>2, <2>3
<1>2. IsFiniteSet(IF "password" \in Kinds THEN {1, 2} ELSE {1})
  BY <1>1
<1>3. IsFiniteSet(Slots)
  BY <1>2, ProcAssumption, FS_Product DEF Slots
<1> QED
  BY <1>3, FS_CardinalityType DEF Slots

LEMMA SlotSets ==
  ASSUME NEW F \in SUBSET Slots
  PROVE  /\ IsFiniteSet(F) /\ Cardinality(F) \in Nat /\ Cardinality(F) <= Cardinality(Slots)
         /\ \A t \in Slots \ F : Cardinality(F \cup {t}) = Cardinality(F) + 1
  BY SlotsFinite, FS_Subset, FS_CardinalityType, FS_AddElement

LEMMA Smaller ==
  ASSUME NEW A, NEW B, IsFiniteSet(B), A \subseteq B
  PROVE  /\ IsFiniteSet(A) /\ Cardinality(A) \in Nat /\ Cardinality(B) \in Nat
         /\ Cardinality(A) <= Cardinality(B)
  BY FS_Subset, FS_CardinalityType

LEMMA AddOne ==
  ASSUME NEW S, IsFiniteSet(S), NEW x
  PROVE  /\ IsFiniteSet(S \cup {x}) /\ Cardinality(S \cup {x}) \in Nat /\ Cardinality(S) \in Nat
         /\ Cardinality(S \cup {x}) <= Cardinality(S) + 1
<1>1. Cardinality(S) \in Nat
  BY FS_CardinalityType
<1>2. /\ IsFiniteSet(S \cup {x})
      /\ Cardinality(S \cup {x}) = IF x \in S THEN Cardinality(S) ELSE Cardinality(S) + 1
  BY FS_AddElement
<1> QED
  BY <1>1, <1>2

LEMMA OneMore ==
  ASSUME NEW I, IsFiniteSet(I), NEW s, NEW J, J \subseteq I \cup {s}, NEW X
  PROVE  /\ Cardinality(J \ X) <= Cardinality(I \ X) + 1
         /\ Cardinality(J) <= Cardinality(I \ {s}) + 1
         /\ IsFiniteSet(J) /\ Cardinality(J \ X) \in Nat /\ Cardinality(J) \in Nat
         /\ Cardinality(J \ X) <= Cardinality(J)
<1> DEFINE A == I \ X
           B == I \ {s}
<1>1. IsFiniteSet(A) /\ IsFiniteSet(B)
  BY Smaller
<1>2. J \ X \subseteq A \cup {s} /\ J \subseteq B \cup {s}
  OBVIOUS
<1> HIDE DEF A, B
<1>3. /\ IsFiniteSet(A \cup {s}) /\ Cardinality(A \cup {s}) \in Nat /\ Cardinality(A) \in Nat
      /\ Cardinality(A \cup {s}) <= Cardinality(A) + 1
  BY <1>1, AddOne
<1>4. /\ IsFiniteSet(B \cup {s}) /\ Cardinality(B \cup {s}) \in Nat /\ Cardinality(B) \in Nat
      /\ Cardinality(B \cup {s}) <= Cardinality(B) + 1
  BY <1>1, AddOne
<1>5. IsFiniteSet(J) /\ Cardinality(J) \in Nat /\ Cardinality(J) <= Cardinality(B \cup {s})
  BY <1>2, <1>4, Smaller
<1>6. Cardinality(J \ X) \in Nat /\ Cardinality(J \ X) <= Cardinality(A \cup {s})
  BY <1>2, <1>3, Smaller
<1>7. Cardinality(J \ X) <= Cardinality(J)
  BY <1>5, Smaller
<1>8. Cardinality(J \ X) <= Cardinality(A) + 1 /\ Cardinality(J) <= Cardinality(B) + 1
  BY <1>3, <1>4, <1>5, <1>6
<1> QED
  BY <1>5, <1>6, <1>7, <1>8 DEF A, B

LEMMA PlannedType == ASSUME NEW c \in Call PROVE Planned(c) \in Nat
  BY FieldType DEF Planned

-----------------------------------------------------------------------------
(* How an explanation f of the index survives the three kinds of step.     *)

\* A request that adds nothing: what it leaves in the index still fits.
LEMMA Shrink ==
  ASSUME NEW f \in [Proc -> SUBSET Slots], NEW I, NEW J, IsFiniteSet(I), J \subseteq I,
         NEW cs \in [Proc -> Call], NEW p \in Proc, NEW c \in Call,
         Explains(f, I, cs), Fits(J, c, f[p]),
         Counting(c) => Counting(cs[p]) /\ (PastKeep(cs[p]) => PastKeep(c))
  PROVE  Explains(f, J, [cs EXCEPT ![p] = c])
<1> DEFINE ds == [cs EXCEPT ![p] = c]
<1>1. ds[p] = c /\ \A q \in Proc \ {p} : ds[q] = cs[q]
  OBVIOUS
<1>2. ASSUME NEW q \in Proc PROVE Fits(J, ds[q], f[q]) /\ OwnSlots(q, ds[q], f[q])
  <2>1. CASE q = p
    BY <1>1, <2>1 DEF Explains, OwnSlots
  <2>2. CASE q # p
    <3>1. Fits(I, cs[q], f[q]) /\ OwnSlots(q, cs[q], f[q])
      BY DEF Explains
    <3>2. J \ Excluded(cs[q]) \subseteq I \ Excluded(cs[q]) /\ IsFiniteSet(I \ Excluded(cs[q]))
      BY Smaller
    <3>3. /\ Cardinality(J \ Excluded(cs[q])) \in Nat /\ Cardinality(I \ Excluded(cs[q])) \in Nat
          /\ Cardinality(J \ Excluded(cs[q])) <= Cardinality(I \ Excluded(cs[q]))
      BY <3>2, Smaller
    <3>4. Planned(cs[q]) \in Nat /\ Cardinality(f[q]) \in Nat
      BY PlannedType, SlotSets
    <3> QED
      BY <1>1, <2>2, <3>1, <3>3, <3>4, NumberAssumption DEF Fits
  <2> QED
    BY <2>1, <2>2
<1>3. ASSUME NEW q \in Proc, NEW r \in Proc, q # r PROVE Later(q, r, ds, f)
  <2>1. Later(q, r, cs, f)
    BY <1>3 DEF Explains
  <2> QED
    BY <1>1, <2>1 DEF Later
<1> HIDE DEF ds
<1>4. Explains(f, J, ds)
  BY <1>2, <1>3 DEF Explains
<1> QED
  BY <1>4 DEF ds

\* A request that has just counted, or wiped, the index: nothing was added since.
LEMMA Restart ==
  ASSUME NEW f \in [Proc -> SUBSET Slots], NEW I, NEW J, IsFiniteSet(I), J \subseteq I,
         NEW cs \in [Proc -> Call], NEW p \in Proc, NEW c \in Call,
         Explains(f, I, cs), Fits(J, c, {}), ~PastKeep(c)
  PROVE  Explains([f EXCEPT ![p] = {}], J, [cs EXCEPT ![p] = c])
<1> DEFINE ds == [cs EXCEPT ![p] = c]
           g == [f EXCEPT ![p] = {}]
<1>1. /\ ds[p] = c /\ \A q \in Proc \ {p} : ds[q] = cs[q]
      /\ g[p] = {} /\ \A q \in Proc \ {p} : g[q] = f[q]
  OBVIOUS
<1>2. ASSUME NEW q \in Proc PROVE Fits(J, ds[q], g[q]) /\ OwnSlots(q, ds[q], g[q])
  <2>1. CASE q = p
    BY <1>1, <2>1 DEF OwnSlots
  <2>2. CASE q # p
    <3>1. Fits(I, cs[q], f[q]) /\ OwnSlots(q, cs[q], f[q])
      BY DEF Explains
    <3>2. J \ Excluded(cs[q]) \subseteq I \ Excluded(cs[q]) /\ IsFiniteSet(I \ Excluded(cs[q]))
      BY Smaller
    <3>3. /\ Cardinality(J \ Excluded(cs[q])) \in Nat /\ Cardinality(I \ Excluded(cs[q])) \in Nat
          /\ Cardinality(J \ Excluded(cs[q])) <= Cardinality(I \ Excluded(cs[q]))
      BY <3>2, Smaller
    <3>4. Planned(cs[q]) \in Nat /\ Cardinality(f[q]) \in Nat
      BY PlannedType, SlotSets
    <3> QED
      BY <1>1, <2>2, <3>1, <3>3, <3>4, NumberAssumption DEF Fits
  <2> QED
    BY <2>1, <2>2
<1>3. ASSUME NEW q \in Proc, NEW r \in Proc, q # r PROVE Later(q, r, ds, g)
  <2>1. Later(q, r, cs, f)
    BY <1>3 DEF Explains
  <2>2. CASE q = p
    BY <1>1, <2>2 DEF Later
  <2>3. CASE r = p
    BY <1>1, <2>3 DEF Later
  <2>4. CASE q # p /\ r # p
    BY <1>1, <2>1, <2>4 DEF Later
  <2> QED
    BY <2>2, <2>3, <2>4
<1> HIDE DEF ds, g
<1>4. Explains(g, J, ds)
  BY <1>2, <1>3 DEF Explains
<1> QED
  BY <1>4 DEF ds, g

\* A request that adds s, and fills its slot t: a request that has seen t
\* filled before had counted before this one did, so the count of this one
\* bounds the index for both.
LEMMA Insert ==
  ASSUME NEW f \in [Proc -> SUBSET Slots], NEW I, NEW J, IsFiniteSet(I),
         NEW s, J \subseteq I \cup {s},
         NEW cs \in [Proc -> Call], NEW p \in Proc, NEW c \in Call, Explains(f, I, cs),
         NEW i \in {1, 2}, <<p, i>> \in Slots, Counting(cs[p]),
         i = 1 => ~PastKeep(cs[p]),
         Cardinality(J) <= MaxConcurrent + Cardinality(f[p]),
         Counting(c) => i = 1 /\ PastKeep(c) /\ Cardinality(J \ Excluded(c)) <= MaxConcurrent - 1 + Cardinality(f[p])
  PROVE  /\ Explains([x \in Proc |-> f[x] \cup {<<p, i>>}], J, [cs EXCEPT ![p] = c])
         /\ Cardinality(J) <= MaxConcurrent - 1 + Cardinality(Slots)
<1> DEFINE ds == [cs EXCEPT ![p] = c]
           t == <<p, i>>
           g == [x \in Proc |-> f[x] \cup {t}]
<1>1. /\ ds[p] = c /\ \A q \in Proc \ {p} : ds[q] = cs[q]
      /\ \A q \in Proc : g[q] = f[q] \cup {t}
  OBVIOUS
<1>2. t \in Slots /\ t \notin f[p]
  BY DEF Explains, OwnSlots
<1>3. Cardinality(J) \in Nat /\ IsFiniteSet(J)
  BY OneMore
<1>4. Cardinality(f[p] \cup {t}) = Cardinality(f[p]) + 1 /\ Cardinality(f[p]) \in Nat
  BY <1>2, SlotSets
<1>5. Cardinality(J) <= MaxConcurrent - 1 + Cardinality(Slots)
  <2>1. f[p] \cup {t} \in SUBSET Slots
    BY <1>2
  <2>2. Cardinality(f[p] \cup {t}) <= Cardinality(Slots) /\ Cardinality(Slots) \in Nat
    BY <2>1, SlotSets, SlotsFinite
  <2> QED
    BY <1>3, <1>4, <2>2, NumberAssumption
<1>6. ASSUME NEW q \in Proc PROVE Fits(J, ds[q], g[q]) /\ OwnSlots(q, ds[q], g[q])
  <2>0. Cardinality(f[q]) \in Nat /\ Cardinality(f[q] \cup {t}) \in Nat
        /\ Cardinality(f[q]) <= Cardinality(f[q] \cup {t})
    <3>1. f[q] \cup {t} \in SUBSET Slots
      BY <1>2
    <3> QED
      BY <3>1, SlotSets, Smaller
  <2>1. CASE q = p
    <3>1. Fits(J, c, f[p] \cup {t})
      <4>1. Cardinality(J \ Excluded(c)) \in Nat /\ Planned(c) \in Nat
        BY OneMore, PlannedType
      <4> QED
        BY <1>4, <4>1, NumberAssumption DEF Fits
    <3>2. OwnSlots(p, c, f[p] \cup {t})
      <4>1. <<p, 2>> \notin f[p]
        BY DEF Explains, OwnSlots
      <4> QED
        BY <4>1 DEF OwnSlots
    <3> QED
      BY <1>1, <2>1, <3>1, <3>2
  <2>2. CASE q # p
    <3>1. Fits(I, cs[q], f[q]) /\ OwnSlots(q, cs[q], f[q]) /\ Later(q, p, cs, f)
      BY <2>2 DEF Explains
    <3>2. /\ Cardinality(J \ Excluded(cs[q])) \in Nat /\ Cardinality(I \ Excluded(cs[q])) \in Nat
          /\ Cardinality(J \ Excluded(cs[q])) <= Cardinality(I \ Excluded(cs[q])) + 1
          /\ Cardinality(J \ Excluded(cs[q])) <= Cardinality(J)
      BY OneMore, Smaller
    <3>3. Planned(cs[q]) \in Nat
      BY PlannedType
    <3>4. OwnSlots(q, ds[q], g[q])
      BY <1>1, <2>2, <3>1 DEF OwnSlots
    <3>5. CASE t \notin f[q]
      <4>1. Cardinality(f[q] \cup {t}) = Cardinality(f[q]) + 1
        BY <1>2, <3>5, SlotSets
      <4>2. Fits(J, cs[q], f[q] \cup {t})
        BY <2>0, <3>1, <3>2, <3>3, <4>1, NumberAssumption DEF Fits
      <4> QED
        BY <1>1, <2>2, <3>4, <4>2
    <3>6. CASE t \in f[q] /\ Counting(cs[q])
      <4>1. f[p] \subseteq f[q]
        BY <3>1, <3>6 DEF Later
      <4>2. f[p] \cup {t} \subseteq f[q] /\ f[q] \cup {t} = f[q]
        BY <3>6, <4>1
      <4>3. Cardinality(f[p] \cup {t}) <= Cardinality(f[q])
        BY <4>2, SlotSets, Smaller
      <4>4. Fits(J, cs[q], f[q])
        BY <1>3, <1>4, <2>0, <3>2, <3>3, <4>3, NumberAssumption DEF Fits
      <4> QED
        BY <1>1, <2>2, <3>4, <4>2, <4>4
    <3>7. CASE ~Counting(cs[q])
      BY <1>1, <2>2, <3>4, <3>7 DEF Fits
    <3> QED
      BY <3>5, <3>6, <3>7
  <2> QED
    BY <2>1, <2>2
<1>7. ASSUME NEW q \in Proc, NEW r \in Proc, q # r PROVE Later(q, r, ds, g)
  <2>1. Later(q, r, cs, f)
    BY <1>7 DEF Explains
  <2>2. CASE r = p
    BY <1>1, <2>1, <2>2 DEF Later
  <2>3. CASE r # p
    BY <1>1, <2>1, <2>3 DEF Later
  <2> QED
    BY <2>2, <2>3
<1> HIDE DEF ds, g
<1>8. Explains(g, J, ds)
  BY <1>6, <1>7 DEF Explains
<1> QED
  BY <1>5, <1>8 DEF ds, g
-----------------------------------------------------------------------------
(* Every step of the store is one of the three kinds.                      *)

\* The index after a command on it, after an EXPIRE, and after a tick.
LEMMA NewIndex ==
  ASSUME NEW S, SetIndex(S)
  PROVE  Index' \subseteq S
  BY DEF SetIndex, Index

LEMMA SameIndex == UNCHANGED <<now, index, indexEnd>> => Index' = Index
  BY DEF Index

LEMMA GoCall ==
  ASSUME TypeInv, NEW p \in Proc, NEW c \in Call, Go(p, c)
  PROVE  call \in [Proc -> Call] /\ call' = [call EXCEPT ![p] = c]
  BY DEF Go, TypeInv, TypeOK

LEMMA BoundMono ==
  ASSUME TypeInv, IndexBound, Index' \subseteq Index
  PROVE  IndexBound' /\ IsFiniteSet(Index) /\ IsFiniteSet(Index')
<1>1. IsFiniteSet(Index)
  BY IndexType
<1>2. /\ IsFiniteSet(Index') /\ Cardinality(Index') \in Nat /\ Cardinality(Index) \in Nat
      /\ Cardinality(Index') <= Cardinality(Index)
  BY <1>1, Smaller
<1> QED
  BY <1>1, <1>2, SlotsFinite, NumberAssumption DEF IndexBound, Slots

\* A step of p that adds nothing to the index, to locals c.
LEMMA ShrinkStep ==
  ASSUME BoundInv, TypeInv', NEW p \in Proc, NEW c \in Call, Go(p, c), Index' \subseteq Index,
         Counting(c) => /\ Counting(call[p]) /\ (PastKeep(call[p]) => PastKeep(c))
                        /\ Index' \ Excluded(c) \subseteq Index \ Excluded(call[p])
                        /\ Planned(c) = Planned(call[p])
  PROVE  BoundInv'
<1>1. PICK f \in [Proc -> SUBSET Slots] : Explains(f, Index, call)
  BY DEF BoundInv
<1>2. call \in [Proc -> Call] /\ call' = [call EXCEPT ![p] = c]
  BY GoCall DEF BoundInv
<1>3. IndexBound' /\ IsFiniteSet(Index)
  BY BoundMono DEF BoundInv
<1>4. Fits(Index', c, f[p])
  <2>1. SUFFICES ASSUME Counting(c)
                 PROVE  Cardinality(Index' \ Excluded(c)) <= MaxConcurrent - 1 + Planned(c) + Cardinality(f[p])
    BY DEF Fits
  <2>2. IsFiniteSet(Index \ Excluded(call[p]))
    BY <1>3, Smaller
  <2>3. /\ Cardinality(Index' \ Excluded(c)) \in Nat /\ Cardinality(Index \ Excluded(call[p])) \in Nat
        /\ Cardinality(Index' \ Excluded(c)) <= Cardinality(Index \ Excluded(call[p]))
    BY <2>1, <2>2, Smaller
  <2>4. Cardinality(Index \ Excluded(call[p])) <= MaxConcurrent - 1 + Planned(call[p]) + Cardinality(f[p])
    BY <1>1, <2>1 DEF Explains, Fits
  <2>5. Planned(c) \in Nat /\ Cardinality(f[p]) \in Nat
    BY PlannedType, SlotSets
  <2> QED
    BY <2>1, <2>3, <2>4, <2>5, NumberAssumption
<1>5. Explains(f, Index', [call EXCEPT ![p] = c])
  BY <1>1, <1>2, <1>3, <1>4, Shrink
<1>6. Slots' = Slots
  BY DEF Slots
<1>7. \E g \in [Proc -> SUBSET Slots] : Explains(g, Index', call')
  BY <1>1, <1>2, <1>5
<1> QED
  BY <1>3, <1>6, <1>7 DEF BoundInv, Explains, Fits, OwnSlots, Later, Counting, Wiped, PastKeep,
                          Excluded, Planned

\* A step of p that counts or wipes the index.
LEMMA RestartStep ==
  ASSUME BoundInv, TypeInv', NEW p \in Proc, NEW c \in Call, Go(p, c), Index' \subseteq Index,
         Fits(Index', c, {}), ~PastKeep(c)
  PROVE  BoundInv'
<1>1. PICK f \in [Proc -> SUBSET Slots] : Explains(f, Index, call)
  BY DEF BoundInv
<1>2. call \in [Proc -> Call] /\ call' = [call EXCEPT ![p] = c]
  BY GoCall DEF BoundInv
<1>3. IndexBound' /\ IsFiniteSet(Index)
  BY BoundMono DEF BoundInv
<1> DEFINE g == [f EXCEPT ![p] = {}]
<1>4. Explains(g, Index', [call EXCEPT ![p] = c])
  BY <1>1, <1>2, <1>3, Restart
<1>5. g \in [Proc -> SUBSET Slots] /\ Slots' = Slots
  BY DEF Slots
<1> HIDE DEF g
<1>6. \E h \in [Proc -> SUBSET Slots] : Explains(h, Index', call')
  BY <1>2, <1>4, <1>5
<1> QED
  BY <1>3, <1>5, <1>6 DEF BoundInv, Explains, Fits, OwnSlots, Later, Counting, Wiped, PastKeep,
                          Excluded, Planned

\* A step of p that adds s to the index, as its i-th addition.
LEMMA InsertStep ==
  ASSUME BoundInv, TypeInv', NEW p \in Proc, NEW c \in Call, Go(p, c),
         NEW s, Index' \subseteq Index \cup {s},
         NEW i \in {1, 2}, i = 2 => "password" \in Kinds,
         Counting(call[p]), Planned(call[p]) = 0, Excluded(call[p]) \subseteq {s},
         i = 1 => ~PastKeep(call[p]),
         Counting(c) => i = 1 /\ PastKeep(c) /\ Excluded(c) = {s} /\ Excluded(call[p]) = {s}
  PROVE  BoundInv'
<1>1. PICK f \in [Proc -> SUBSET Slots] : Explains(f, Index, call)
  BY DEF BoundInv
<1>2. call \in [Proc -> Call] /\ call' = [call EXCEPT ![p] = c]
  BY GoCall DEF BoundInv
<1>3. IsFiniteSet(Index)
  BY IndexType DEF BoundInv
<1>4. Cardinality(Index \ Excluded(call[p])) <= MaxConcurrent - 1 + Cardinality(f[p])
  <2>1. Fits(Index, call[p], f[p])
    BY <1>1 DEF Explains
  <2>2. Cardinality(f[p]) \in Nat
    BY SlotSets
  <2> QED
    BY <2>1, <2>2, NumberAssumption DEF Fits
<1>5. Cardinality(Index') <= MaxConcurrent + Cardinality(f[p])
  <2>1. /\ Cardinality(Index') <= Cardinality(Index \ {s}) + 1 /\ Cardinality(Index') \in Nat
    BY <1>3, OneMore
  <2>2. Index \ {s} \subseteq Index \ Excluded(call[p]) /\ IsFiniteSet(Index \ Excluded(call[p]))
    BY <1>3, Smaller
  <2>3. /\ Cardinality(Index \ {s}) <= Cardinality(Index \ Excluded(call[p]))
        /\ Cardinality(Index \ {s}) \in Nat /\ Cardinality(Index \ Excluded(call[p])) \in Nat
    BY <2>2, Smaller
  <2>4. Cardinality(f[p]) \in Nat
    BY SlotSets
  <2> QED
    BY <1>4, <2>1, <2>3, <2>4, NumberAssumption
<1>6. Counting(c) => Cardinality(Index' \ Excluded(c)) <= MaxConcurrent - 1 + Cardinality(f[p])
  <2>1. SUFFICES ASSUME Counting(c)
                 PROVE  Cardinality(Index' \ {s}) <= MaxConcurrent - 1 + Cardinality(f[p])
    OBVIOUS
  <2>2. Index' \ {s} \subseteq Index \ {s} /\ IsFiniteSet(Index \ {s})
    BY <1>3, Smaller
  <2>3. /\ Cardinality(Index' \ {s}) <= Cardinality(Index \ {s})
        /\ Cardinality(Index' \ {s}) \in Nat /\ Cardinality(Index \ {s}) \in Nat
    BY <2>2, Smaller
  <2>4. Cardinality(Index \ {s}) <= MaxConcurrent - 1 + Cardinality(f[p])
    BY <1>4, <2>1
  <2>5. Cardinality(f[p]) \in Nat
    BY SlotSets
  <2> QED
    BY <2>3, <2>4, <2>5, NumberAssumption
<1>7. <<p, i>> \in Slots /\ Slots' = Slots
  BY SlotsFinite DEF Slots
<1> DEFINE g == [x \in Proc |-> f[x] \cup {<<p, i>>}]
<1>8. /\ Explains(g, Index', [call EXCEPT ![p] = c])
      /\ Cardinality(Index') <= MaxConcurrent - 1 + Cardinality(Slots)
  BY <1>1, <1>2, <1>3, <1>5, <1>6, <1>7, Insert
<1>9. g \in [Proc -> SUBSET Slots]
  BY <1>7
<1> HIDE DEF g
<1>10. \E h \in [Proc -> SUBSET Slots] : Explains(h, Index', call')
  BY <1>2, <1>8, <1>9
<1>11. IndexBound'
  BY <1>7, <1>8 DEF IndexBound
<1> QED
  BY <1>7, <1>10, <1>11 DEF BoundInv, Explains, Fits, OwnSlots, Later, Counting, Wiped, PastKeep,
                          Excluded, Planned

\* The locals of a request that does not count.
LEMMA QuietStep ==
  ASSUME BoundInv, TypeInv', NEW p \in Proc, NEW c \in Call, Go(p, c), Index' \subseteq Index,
         ~Counting(c)
  PROVE  BoundInv'
  BY ShrinkStep

LEMMA IdleQuiet == ~Counting(Idle)
  BY DEF Counting, Wiped, PastKeep, Idle

LEMMA GoHere ==
  ASSUME TypeInv, TypeInv', NEW p \in Proc, NEW c, Go(p, c)
  PROVE  c \in Call /\ call'[p] = c
  BY DEF Go, TypeInv, TypeOK

LEMMA StartBound ==
  ASSUME BoundInv, TypeInv', NEW p \in Proc, Start(p)
  PROVE  BoundInv'
<1>1. PICK c : /\ Go(p, c)
               /\ \/ c.pc = "zcard"
                  \/ c.pc = "allRange"
                  \/ c.pc = "get" /\ c.sub = "auth"
  <2>1. CASE StartLogin(p)
    <3>1. PICK s : Go(p, [Idle EXCEPT !.kind = "login", !.pc = "zcard", !.new = s, !.t = now])
      BY <2>1 DEF StartLogin
    <3> DEFINE d == [Idle EXCEPT !.kind = "login", !.pc = "zcard", !.new = s, !.t = now]
    <3>2. d.pc = "zcard"
      BY DEF Idle
    <3> HIDE DEF d
    <3>3. Go(p, d)
      BY <3>1 DEF d
    <3> QED
      BY <3>2, <3>3, Zenon
  <2>2. CASE StartReset(p)
    <3> DEFINE d == [Idle EXCEPT !.kind = "reset", !.pc = "allRange"]
    <3>2. d.pc = "allRange"
      BY DEF Idle
    <3>3. Go(p, d)
      BY <2>2 DEF StartReset
    <3> HIDE DEF d
    <3> QED
      BY <3>2, <3>3, Zenon
  <2>3. CASE StartAuth(p)
    <3>1. PICK s \in issued, k \in Kinds \cap AuthKinds :
            LET c == [Idle EXCEPT !.kind = k, !.pc = "get", !.sub = "auth", !.cur = s]
            IN  CASE k = "delete" ->
                        /\ \E target \in SessionId : Go(p, [c EXCEPT !.todo = {target}])
                        /\ UNCHANGED used
                  [] k = "password" ->
                        \E new \in SessionId \ used :
                            Go(p, [c EXCEPT !.new = new]) /\ used' = used \cup {new}
                  [] k = "logout" -> Go(p, [c EXCEPT !.todo = {s}]) /\ UNCHANGED used
                  [] OTHER -> Go(p, c) /\ UNCHANGED used
      BY <2>3 DEF StartAuth
    <3> DEFINE d == [Idle EXCEPT !.kind = k, !.pc = "get", !.sub = "auth", !.cur = s]
    <3>2. /\ d.pc = "get" /\ d.sub = "auth"
          /\ \A T : [d EXCEPT !.todo = T].pc = "get" /\ [d EXCEPT !.todo = T].sub = "auth"
          /\ \A n : [d EXCEPT !.new = n].pc = "get" /\ [d EXCEPT !.new = n].sub = "auth"
      BY DEF Idle
    <3> HIDE DEF d
    <3>3. \/ \E T : Go(p, [d EXCEPT !.todo = T])
          \/ \E n : Go(p, [d EXCEPT !.new = n])
          \/ Go(p, d)
      BY <3>1 DEF d
    <3> QED
      BY <3>2, <3>3
  <2> QED
    BY <2>1, <2>2, <2>3 DEF Start
<1>2. c \in Call
  BY <1>1, GoHere DEF BoundInv
<1>3. Index' = Index
  BY SameIndex DEF Start, StartLogin, StartAuth, StartReset
<1>4. ~Counting(c)
  BY <1>1 DEF Counting, Wiped, PastKeep
<1> QED
  BY <1>1, <1>2, <1>3, <1>4, QuietStep

LEMMA CountBound ==
  ASSUME BoundInv, TypeInv', NEW p \in Proc, CountSessions(p)
  PROVE  BoundInv'
<1> DEFINE count == Cardinality(Index)
<1>0. TypeInv /\ call[p] \in Call
  BY Here DEF BoundInv
<1>1. Index' = Index /\ count \in Nat
  BY <1>0, SameIndex, IndexType DEF CountSessions
<1>2. PICK c : Go(p, c) /\ IF count >= MaxConcurrent
                          THEN c.pc = "zrange" /\ c.n = count - MaxConcurrent + 1
                          ELSE c.pc = "setex"
  <2> DEFINE d == [call[p] EXCEPT !.pc = "zrange", !.n = count - MaxConcurrent + 1]
             e == [call[p] EXCEPT !.pc = "setex"]
  <2>1. d.pc = "zrange" /\ d.n = count - MaxConcurrent + 1 /\ e.pc = "setex"
    BY <1>0 DEF Call
  <2>2. Go(p, IF count >= MaxConcurrent THEN d ELSE e)
    BY DEF CountSessions
  <2> HIDE DEF d, e
  <2> QED
    BY <2>1, <2>2
<1>3. c \in Call
  BY <1>0, <1>2, GoHere
<1>4. ~PastKeep(c) /\ Excluded(c) = {}
  BY <1>2 DEF PastKeep, Excluded, Wiped
<1>5. Index \ {} = Index
  OBVIOUS
<1>6. Fits(Index', c, {})
  BY <1>1, <1>2, <1>4, <1>5, FS_EmptySet, NumberAssumption DEF Fits, Planned
<1> QED
  BY <1>1, <1>2, <1>3, <1>4, <1>6, RestartStep

\* The n oldest of the index are left out, or all of it.
LEMMA PickBound ==
  ASSUME BoundInv, TypeInv', NEW p \in Proc, PickVictims(p)
  PROVE  BoundInv'
<1>0. TypeInv /\ call[p] \in Call /\ call[p].n \in Nat /\ call[p].pc = "zrange" /\ call[p].kind = "login"
  BY Here DEF BoundInv, PickVictims, At, CallOK, PcFits
<1>1. PICK S \in SUBSET Index :
        /\ Oldest(S, call[p].n)
        /\ Go(p, [call[p] EXCEPT !.pc = IF S = {} THEN "setex" ELSE "revDel", !.todo = S, !.n = 0])
  BY DEF PickVictims
<1>2. PICK f \in [Proc -> SUBSET Slots] : Explains(f, Index, call)
  BY DEF BoundInv
<1> DEFINE c == [call[p] EXCEPT !.pc = IF S = {} THEN "setex" ELSE "revDel", !.todo = S, !.n = 0]
<1>3. c.pc = (IF S = {} THEN "setex" ELSE "revDel") /\ c.todo = S /\ c.kind = "login"
  BY <1>0 DEF Call
<1>4. c \in Call
  BY <1>0, <1>1, GoHere
<1> HIDE DEF c
<1>5. Index' = Index /\ IsFiniteSet(Index) /\ Cardinality(Index) \in Nat
  BY <1>0, SameIndex, IndexType DEF PickVictims
<1>6. Excluded(c) = S /\ Planned(c) = 0 /\ ~PastKeep(c)
  BY <1>3 DEF Excluded, Planned, Wiped, PastKeep
<1>7. Cardinality(Index) <= MaxConcurrent - 1 + call[p].n + Cardinality(f[p]) /\ Counting(call[p])
      /\ ~PastKeep(call[p])
  <2>1. Excluded(call[p]) = {} /\ Planned(call[p]) = call[p].n /\ Counting(call[p]) /\ ~PastKeep(call[p])
    BY <1>0 DEF Excluded, Planned, Counting, PastKeep, Wiped
  <2>2. Index \ {} = Index
    OBVIOUS
  <2> QED
    BY <1>2, <2>1, <2>2 DEF Explains, Fits
<1>8. Cardinality(Index \ S) <= MaxConcurrent - 1 + Cardinality(f[p])
  <2>1. Cardinality(Index \ S) = Cardinality(Index) - Cardinality(S)
    <3>1. Index \cap S = S
      OBVIOUS
    <3> QED
      BY <1>5, <3>1, FS_Difference
  <2>2. Cardinality(S) = IF call[p].n < Cardinality(Index) THEN call[p].n ELSE Cardinality(Index)
    BY <1>1 DEF Oldest
  <2>3. Cardinality(f[p]) \in Nat
    BY SlotSets
  <2> QED
    BY <1>0, <1>5, <1>7, <2>1, <2>2, <2>3, NumberAssumption
<1>9. Fits(Index', c, f[p])
  <2>1. Cardinality(f[p]) \in Nat /\ Cardinality(Index \ S) \in Nat
    BY <1>5, SlotSets, Smaller
  <2> QED
    BY <1>5, <1>6, <1>8, <2>1, NumberAssumption DEF Fits
<1>10. call \in [Proc -> Call] /\ call' = [call EXCEPT ![p] = c]
  BY <1>0, <1>1, <1>4, GoCall DEF c
<1>11. Explains(f, Index', call')
  BY <1>2, <1>4, <1>5, <1>7, <1>9, <1>10, Shrink
<1>12. Slots' = Slots /\ IndexBound'
  BY <1>5 DEF Slots, IndexBound, BoundInv
<1> QED
  BY <1>11, <1>12 DEF BoundInv, Explains, Fits, OwnSlots, Later, Counting, Wiped, PastKeep,
                      Excluded, Planned

LEMMA LoginBound ==
  ASSUME BoundInv, TypeInv', NEW p \in Proc, StoreSession(p) \/ IndexSession(p) \/ ExtendIndex(p)
  PROVE  BoundInv'
<1>0. TypeInv /\ call[p] \in Call
  BY Here DEF BoundInv
<1>1. CASE StoreSession(p)
  <2> DEFINE c == [call[p] EXCEPT !.pc = "zadd"]
  <2>1. c.pc = "zadd" /\ call[p].pc = "setex" /\ Go(p, c) /\ Index' = Index
    BY <1>0, <1>1, SameIndex DEF StoreSession, At, Call
  <2>2. c \in Call
    BY <1>0, <2>1, GoHere
  <2> HIDE DEF c
  <2>3. /\ Counting(call[p]) /\ ~PastKeep(call[p]) /\ Excluded(c) = {} /\ Excluded(call[p]) = {}
        /\ Planned(c) = 0 /\ Planned(call[p]) = 0
    BY <2>1 DEF Counting, PastKeep, Excluded, Planned, Wiped
  <2> QED
    BY <2>1, <2>2, <2>3, ShrinkStep
<1>2. CASE IndexSession(p)
  <2> DEFINE c == [call[p] EXCEPT !.pc = "expire"]
  <2>1. c.pc = "expire" /\ call[p].pc = "zadd" /\ Go(p, c) /\ Index' \subseteq Index \cup {call[p].new}
    BY <1>0, <1>2, NewIndex DEF IndexSession, At, Call
  <2>2. c \in Call
    BY <1>0, <2>1, GoHere
  <2> HIDE DEF c
  <2>3. /\ Counting(call[p]) /\ ~PastKeep(call[p]) /\ Excluded(call[p]) = {} /\ Planned(call[p]) = 0
        /\ ~Counting(c)
    BY <2>1 DEF Counting, PastKeep, Excluded, Planned, Wiped
  <2> QED
    BY <2>1, <2>2, <2>3, InsertStep
<1>3. CASE ExtendIndex(p)
  <2>1. Index' \subseteq Index
    BY <1>3 DEF ExtendIndex, Index
  <2> QED
    BY <1>3, <2>1, IdleType, IdleQuiet, QuietStep DEF ExtendIndex
<1> QED
  BY <1>1, <1>2, <1>3

LEMMA RevokeBound ==
  ASSUME BoundInv, TypeInv', NEW p \in Proc, RevokeDel(p) \/ RevokeRem(p)
  PROVE  BoundInv'
<1>0. TypeInv /\ call[p] \in Call
  BY Here DEF BoundInv
<1>1. CASE RevokeDel(p)
  <2>1. PICK s : Go(p, [call[p] EXCEPT !.pc = "revRem", !.at = s])
    BY <1>1 DEF RevokeDel
  <2> DEFINE c == [call[p] EXCEPT !.pc = "revRem", !.at = s]
  <2>2. c.pc = "revRem" /\ c.kind = call[p].kind /\ c.todo = call[p].todo /\ call[p].pc = "revDel"
    BY <1>0, <1>1 DEF RevokeDel, At, Call
  <2>3. c \in Call /\ Index' = Index
    BY <1>0, <1>1, <2>1, GoHere, SameIndex DEF RevokeDel
  <2> HIDE DEF c
  <2>4. /\ Counting(c) => Counting(call[p])
        /\ ~PastKeep(call[p]) /\ Excluded(c) = Excluded(call[p])
        /\ Planned(c) = 0 /\ Planned(call[p]) = 0
    BY <2>2 DEF Counting, PastKeep, Excluded, Planned, Wiped
  <2> QED
    BY <2>1, <2>3, <2>4, ShrinkStep DEF c
<1>2. CASE RevokeRem(p)
  <2> DEFINE left == call[p].todo \ {call[p].at}
             d == [call[p] EXCEPT !.todo = left, !.at = NoId]
  <2>1. call[p].pc = "revRem" /\ Index' \subseteq Index \ {call[p].at}
    BY <1>2, NewIndex DEF RevokeRem, At
  <2>2. PICK c : /\ Go(p, c)
                 /\ \/ c.pc = "revDel" /\ c.todo = left /\ c.kind = call[p].kind
                    \/ left = {} /\ call[p].kind = "login" /\ c.pc = "setex"
                    \/ c = Idle
    <3>1. Go(p, IF left # {} THEN [d EXCEPT !.pc = "revDel"]
                ELSE IF call[p].kind = "login" THEN [d EXCEPT !.pc = "setex"]
                ELSE Idle)
      BY <1>2 DEF RevokeRem
    <3>2. /\ [d EXCEPT !.pc = "revDel"].pc = "revDel" /\ [d EXCEPT !.pc = "revDel"].todo = left
          /\ [d EXCEPT !.pc = "revDel"].kind = call[p].kind
          /\ [d EXCEPT !.pc = "setex"].pc = "setex"
      BY <1>0 DEF Call
    <3> HIDE DEF d, left
    <3> QED
      BY <3>1, <3>2
  <2>3. c \in Call
    BY <1>0, <2>2, GoHere
  <2>4. CASE c = Idle
    BY <2>1, <2>2, <2>3, <2>4, IdleQuiet, QuietStep
  <2>5. CASE c # Idle
    <3>1. /\ Counting(c) => Counting(call[p])
          /\ ~PastKeep(call[p]) /\ Planned(c) = 0 /\ Planned(call[p]) = 0
          /\ Excluded(c) = left /\ Excluded(call[p]) = call[p].todo
      BY <2>1, <2>2, <2>5 DEF Counting, PastKeep, Excluded, Planned, Wiped
    <3>2. Index' \ left \subseteq Index \ call[p].todo
      BY <2>1
    <3> QED
      BY <2>1, <2>2, <2>3, <3>1, <3>2, ShrinkStep
  <2> QED
    BY <2>4, <2>5
<1> QED
  BY <1>1, <1>2

\* Before getSession is called for its caller "keep", nothing is counted.
LEMMA HandlerQuiet ==
  ASSUME NEW c \in Call, c.kind \in AuthKinds
  PROVE  ~Counting(Handler(c))
<1>1. ~Counting(Idle)
  BY IdleQuiet
<1>2. \/ Handler(c) = Idle
      \/ Handler(c).pc \in {"revDel", "listRange", "allRange"} /\ Handler(c).kind = c.kind
  BY DEF Handler, Call
<1>3. c.kind # "login"
  BY DEF AuthKinds
<1> QED
  BY <1>1, <1>2, <1>3 DEF Counting, Wiped, PastKeep

LEMMA ReadBound ==
  ASSUME BoundInv, TypeInv', NEW p \in Proc, ReadTtl(p) \/ Touch(p)
  PROVE  BoundInv'
<1>0. TypeInv /\ call[p] \in Call /\ call[p].kind \in AuthKinds
  BY Here DEF BoundInv, ReadTtl, Touch, At, CallOK, PcFits
<1>1. Index' = Index
  BY SameIndex DEF ReadTtl, Touch
<1>2. PICK c : Go(p, c) /\ (c = Handler(call[p]) \/ c.pc = "touch")
  <2>1. \A n : [call[p] EXCEPT !.pc = "touch", !.n = n].pc = "touch"
    BY <1>0 DEF Call
  <2> QED
    BY <2>1 DEF ReadTtl, Touch
<1>3. ~Counting(c)
  BY <1>0, <1>2, HandlerQuiet DEF Counting, Wiped, PastKeep
<1> QED
  BY <1>0, <1>1, <1>2, <1>3, GoHere, QuietStep

\* What follows getSession goes on counting only in a password change.
LEMMA MissingCounts ==
  ASSUME NEW c \in Call, Counting(Missing(c))
  PROVE  /\ c.sub = "keep" /\ Missing(c).pc = "get" /\ Missing(c).sub = "regen"
         /\ Missing(c).cur = c.cur
<1>1. CASE c.sub = "list"
  <2>1. Missing(c).pc = "listRem"
    BY <1>1 DEF Missing, Call
  <2> QED
    BY <2>1 DEF Counting, Wiped, PastKeep
<1>2. CASE c.sub = "keep"
  BY <1>2 DEF Missing, Call
<1>3. CASE c.sub \notin {"list", "keep"}
  BY <1>3, IdleQuiet DEF Missing
<1> QED
  BY <1>1, <1>2, <1>3

LEMMA FoundCounts ==
  ASSUME TypeOK, NEW c \in Call, CallOK(c), c.pc = "get", NEW s \in SessionId,
         NEW r, r = [Found(c, s) EXCEPT !.at = NoId], Counting(r)
  PROVE  /\ r.cur = c.cur
         /\ \/ c.sub = "keep" /\ r.pc = "keepAdd"
            \/ c.sub = "regen" /\ r.pc = "copy"
<1>1. Found(c, s) \in Call
  BY FoundOK
<1>2. r.pc = Found(c, s).pc /\ r.sub = Found(c, s).sub /\ r.kind = Found(c, s).kind
      /\ r.cur = Found(c, s).cur
  BY <1>1 DEF Call
<1>3. CASE Found(c, s) = Idle
  BY <1>2, <1>3 DEF Counting, Wiped, PastKeep, Idle
<1>4. CASE Found(c, s) # Idle
  <2>1. CASE c.sub = "auth"
    <3>1. Found(c, s).pc = "ttl"
      BY <2>1 DEF Found, Call
    <3> QED
      BY <1>2, <3>1 DEF Counting, Wiped, PastKeep
  <2>2. CASE c.sub = "list"
    <3>1. Found(c, s).pc = "get" /\ Found(c, s).sub = "list"
      BY <1>4, <2>2 DEF Found, NextListed, Call
    <3> QED
      BY <1>2, <3>1 DEF Counting, Wiped, PastKeep
  <2>3. CASE c.sub = "keep"
    <3>1. Found(c, s).pc = "keepAdd" /\ Found(c, s).cur = c.cur
      BY <2>3 DEF Found, Call
    <3> QED
      BY <1>2, <2>3, <3>1
  <2>4. CASE c.sub = "regen"
    <3>1. Found(c, s).pc = "copy" /\ Found(c, s).cur = c.cur
      BY <1>4, <2>4 DEF Found, Call
    <3> QED
      BY <1>2, <2>4, <3>1
  <2>5. c.sub \in {"auth", "list", "keep", "regen"}
    BY DEF Call, Callers, CallOK, PcFits
  <2> QED
    BY <2>1, <2>2, <2>3, <2>4, <2>5
<1> QED
  BY <1>3, <1>4

LEMMA GetBound ==
  ASSUME BoundInv, TypeInv', NEW p \in Proc, Get(p) \/ Purge(p)
  PROVE  BoundInv'
<1>0. TypeInv /\ call[p] \in Call /\ CallOK(call[p]) /\ TypeOK
  BY Here DEF BoundInv
<1>1. Index' = Index
  BY SameIndex DEF Get, Purge
<1>2. PICK c : /\ Go(p, c)
               /\ Counting(c) => /\ c.cur = call[p].cur
                                 /\ \/ /\ call[p].sub = "keep"
                                       /\ \/ c.pc = "get" /\ c.sub = "regen"
                                          \/ c.pc = "keepAdd"
                                          \/ c.pc = "purge" /\ c.sub = "keep"
                                    \/ /\ call[p].sub = "regen"
                                       /\ c.pc = "copy" \/ (c.pc = "purge" /\ c.sub = "regen")
  <2>1. CASE Purge(p)
    <3>1. Go(p, Missing(call[p]))
      BY <2>1 DEF Purge
    <3> QED
      BY <1>0, <3>1, MissingCounts
  <2>2. CASE Get(p)
    <3>1. PICK s \in SessionId :
            Go(p, CASE s \notin Live       -> Missing([call[p] EXCEPT !.at = s])
                    [] now > ExpiresAt(s)  -> [[call[p] EXCEPT !.at = s] EXCEPT !.pc = "purge"]
                    [] OTHER               -> [Found([call[p] EXCEPT !.at = s], s) EXCEPT !.at = NoId])
      BY <2>2 DEF Get
    <3> DEFINE d == [call[p] EXCEPT !.at = s]
               e == [d EXCEPT !.pc = "purge"]
               r == [Found(d, s) EXCEPT !.at = NoId]
    <3>a. call[p] \in Call /\ CallOK(call[p]) /\ call[p].pc = "get"
      BY <1>0, <2>2 DEF Get, At
    <3>b. d \in Call /\ CallOK(d)
      BY <3>a, Update, OtherOK
    <3>c. d.pc = "get" /\ d.sub = call[p].sub /\ d.cur = call[p].cur
      BY <3>a DEF Call
    <3>2. d \in Call /\ CallOK(d) /\ d.pc = "get" /\ d.sub = call[p].sub /\ d.cur = call[p].cur
      BY <3>b, <3>c
    <3> HIDE DEF d
    <3>3. e.pc = "purge" /\ e.sub = call[p].sub /\ e.cur = call[p].cur
      BY <3>2 DEF Call
    <3> HIDE DEF e
    <3>9. r = [Found(d, s) EXCEPT !.at = NoId]
      OBVIOUS
    <3> HIDE DEF r
    <3>4. ASSUME Counting(r)
          PROVE  /\ r.cur = call[p].cur
                 /\ \/ call[p].sub = "keep" /\ r.pc = "keepAdd"
                    \/ call[p].sub = "regen" /\ r.pc = "copy"
      <4>1. /\ r.cur = d.cur
            /\ \/ d.sub = "keep" /\ r.pc = "keepAdd"
               \/ d.sub = "regen" /\ r.pc = "copy"
        BY <1>0, <3>2, <3>4, <3>9, FoundCounts
      <4> QED
        BY <4>1, <3>2
    <3>5. Go(p, Missing(d)) \/ Go(p, e) \/ Go(p, r)
      BY <3>1, Zenon DEF d, e, r
    <3>6. CASE Go(p, Missing(d))
      BY <3>2, <3>6, MissingCounts
    <3>7. CASE Go(p, e)
      BY <3>3, <3>7 DEF Counting, Wiped, PastKeep
    <3>8. CASE Go(p, r)
      BY <3>4, <3>8
    <3> QED
      BY <3>5, <3>6, <3>7, <3>8
  <2> QED
    BY <2>1, <2>2
<1>3. c \in Call
  BY <1>0, <1>2, GoHere
<1>4. call[p].pc \in {"get", "purge"}
  BY DEF Get, Purge, At
<1>5. Counting(c) => /\ Counting(call[p]) /\ (PastKeep(call[p]) => PastKeep(c))
                     /\ Excluded(c) = {call[p].cur} /\ Excluded(call[p]) = {call[p].cur}
                     /\ Planned(c) = Planned(call[p])
  BY <1>2, <1>4 DEF Counting, PastKeep, Wiped, Excluded, Planned
<1> QED
  BY <1>1, <1>2, <1>3, <1>5, ShrinkStep

LEMMA ListBound ==
  ASSUME BoundInv, TypeInv', NEW p \in Proc, ListRange(p) \/ ListRem(p)
  PROVE  BoundInv'
<1>0. TypeInv /\ call[p] \in Call
  BY Here DEF BoundInv
<1>1. Index' \subseteq Index
  BY SameIndex, NewIndex DEF ListRange, ListRem
<1>2. PICK left : Go(p, NextListed(call[p], left))
  BY DEF ListRange, ListRem
<1>3. \/ NextListed(call[p], left) = Idle
      \/ NextListed(call[p], left).pc = "get" /\ NextListed(call[p], left).sub = "list"
  BY <1>0 DEF NextListed, Call
<1>4. ~Counting(NextListed(call[p], left))
  BY <1>3, IdleQuiet DEF Counting, Wiped, PastKeep
<1> QED
  BY <1>0, <1>1, <1>2, <1>4, GoHere, QuietStep

LEMMA AllBound ==
  ASSUME BoundInv, TypeInv', NEW p \in Proc, AllRange(p) \/ AllDel(p) \/ AllClear(p)
  PROVE  BoundInv'
<1>0. TypeInv /\ call[p] \in Call
  BY Here DEF BoundInv
<1>1. CASE AllRange(p) \/ AllDel(p)
  <2>1. Index' = Index
    BY <1>1, SameIndex DEF AllRange, AllDel
  <2>2. PICK left : Go(p, AllNext(call[p], left))
    BY <1>1 DEF AllRange, AllDel
  <2>3. AllNext(call[p], left).pc \in {"allClear", "allDel"}
    BY <1>0 DEF AllNext, Call
  <2>4. ~Counting(AllNext(call[p], left))
    BY <2>3 DEF Counting, Wiped, PastKeep
  <2> QED
    BY <1>0, <2>1, <2>2, <2>4, GoHere, QuietStep
<1>2. CASE AllClear(p)
  <2> DEFINE c == [call[p] EXCEPT !.pc = "get", !.sub = "keep"]
  <2>1. Index' \subseteq {} /\ Index' \subseteq Index
    BY <1>2, NewIndex DEF AllClear
  <2>2. c.pc = "get" /\ c.sub = "keep"
    BY <1>0 DEF Call
  <2>3. Go(p, Idle) \/ Go(p, c)
    BY <1>2 DEF AllClear
  <2> HIDE DEF c
  <2>4. ~PastKeep(c) /\ Planned(c) = 0
    BY <2>2 DEF PastKeep, Planned
  <2>5. Index' \ Excluded(c) = {}
    BY <2>1
  <2>6. Fits(Index', c, {})
    BY <2>4, <2>5, FS_EmptySet, NumberAssumption DEF Fits
  <2>7. CASE Go(p, Idle)
    BY <2>1, <2>7, IdleType, IdleQuiet, QuietStep
  <2>8. CASE Go(p, c)
    BY <1>0, <2>1, <2>4, <2>6, <2>8, GoHere, RestartStep
  <2> QED
    BY <2>3, <2>7, <2>8
<1> QED
  BY <1>1, <1>2

LEMMA KeepBound ==
  ASSUME BoundInv, TypeInv', NEW p \in Proc,
         KeepAdd(p) \/ Copy(p) \/ CopyRem(p) \/ CopyAdd(p) \/ CopyDel(p)
  PROVE  BoundInv'
<1>0. TypeInv /\ call[p] \in Call /\ call[p].kind = "password" /\ "password" \in Kinds
  BY Here DEF BoundInv, KeepAdd, Copy, CopyRem, CopyAdd, CopyDel, At, CallOK, PcFits
<1>1. CASE KeepAdd(p)
  <2> DEFINE c == [call[p] EXCEPT !.pc = "get", !.sub = "regen"]
  <2>1. c.pc = "get" /\ c.sub = "regen" /\ c.cur = call[p].cur /\ call[p].pc = "keepAdd"
    BY <1>0, <1>1 DEF KeepAdd, At, Call
  <2>2. Go(p, c) /\ Index' \subseteq Index \cup {call[p].cur}
    BY <1>1, NewIndex DEF KeepAdd
  <2>3. c \in Call
    BY <1>0, <2>2, GoHere
  <2> HIDE DEF c
  <2>4. /\ Counting(call[p]) /\ ~PastKeep(call[p]) /\ Planned(call[p]) = 0
        /\ Excluded(call[p]) = {call[p].cur} /\ Excluded(c) = {call[p].cur} /\ PastKeep(c)
    BY <2>1 DEF Counting, PastKeep, Excluded, Planned, Wiped
  <2> QED
    BY <2>2, <2>3, <2>4, InsertStep
<1>2. CASE Copy(p)
  <2> DEFINE c == [call[p] EXCEPT !.pc = "copyRem", !.n = 0, !.t = 0]
  <2>1. c.pc = "copyRem" /\ c.cur = call[p].cur /\ call[p].pc = "copy"
    BY <1>0, <1>2 DEF Copy, At, Call
  <2>2. Go(p, c) /\ Index' = Index
    BY <1>2, SameIndex DEF Copy
  <2>3. c \in Call
    BY <1>0, <2>2, GoHere
  <2> HIDE DEF c
  <2>4. /\ Counting(call[p]) /\ PastKeep(c) /\ Planned(call[p]) = 0 /\ Planned(c) = 0
        /\ Excluded(call[p]) = {call[p].cur} /\ Excluded(c) = {call[p].cur}
    BY <2>1 DEF Counting, PastKeep, Excluded, Planned, Wiped
  <2> QED
    BY <2>2, <2>3, <2>4, ShrinkStep
<1>3. CASE CopyRem(p)
  <2> DEFINE c == [call[p] EXCEPT !.pc = "copyAdd"]
  <2>1. c.pc = "copyAdd" /\ call[p].pc = "copyRem"
    BY <1>0, <1>3 DEF CopyRem, At, Call
  <2>2. Go(p, c) /\ Index' \subseteq Index \ {call[p].cur}
    BY <1>3, NewIndex DEF CopyRem
  <2>3. c \in Call
    BY <1>0, <2>2, GoHere
  <2> HIDE DEF c
  <2>4. /\ Counting(call[p]) /\ PastKeep(c) /\ Planned(call[p]) = 0 /\ Planned(c) = 0
        /\ Excluded(call[p]) = {call[p].cur} /\ Excluded(c) = {}
    BY <2>1 DEF Counting, PastKeep, Excluded, Planned, Wiped
  <2> QED
    BY <2>2, <2>3, <2>4, ShrinkStep
<1>4. CASE CopyAdd(p)
  <2> DEFINE c == [call[p] EXCEPT !.pc = "copyDel"]
  <2>1. c.pc = "copyDel" /\ call[p].pc = "copyAdd"
    BY <1>0, <1>4 DEF CopyAdd, At, Call
  <2>2. Go(p, c) /\ Index' \subseteq Index \cup {call[p].new}
    BY <1>4, NewIndex DEF CopyAdd
  <2>3. c \in Call
    BY <1>0, <2>2, GoHere
  <2> HIDE DEF c
  <2>4. /\ Counting(call[p]) /\ Planned(call[p]) = 0 /\ Excluded(call[p]) = {} /\ ~Counting(c)
    BY <2>1 DEF Counting, PastKeep, Excluded, Planned, Wiped
  <2> QED
    BY <1>0, <2>2, <2>3, <2>4, InsertStep
<1>5. CASE CopyDel(p)
  BY <1>5, IdleType, IdleQuiet, QuietStep, SameIndex DEF CopyDel
<1> QED
  BY <1>1, <1>2, <1>3, <1>4, <1>5

-----------------------------------------------------------------------------
LEMMA InitBound == Init => BoundInv
<1> SUFFICES ASSUME Init PROVE BoundInv
  OBVIOUS
<1>1. TypeInv
  BY InitType
<1>2. Index = {}
  BY DEF Init, Index
<1>3. IndexBound
  <2>1. PICK p \in Proc : TRUE
    BY ProcAssumption
  <2>2. Cardinality(Slots) # 0
    BY <2>1, SlotsFinite, FS_EmptySet
  <2> QED
    BY <1>2, <2>2, SlotsFinite, FS_EmptySet, NumberAssumption DEF IndexBound
<1>4. \A p \in Proc : ~Counting(call[p])
  BY IdleQuiet DEF Init
<1>5. Explains([p \in Proc |-> {}], Index, call)
  BY <1>4 DEF Explains, Fits, OwnSlots, Later
<1>6. [p \in Proc |-> {}] \in [Proc -> SUBSET Slots]
  OBVIOUS
<1> QED
  BY <1>1, <1>3, <1>5, <1>6 DEF BoundInv

\* A step in which no request moves.
LEMMA StillBound ==
  ASSUME BoundInv, TypeInv', UNCHANGED call, Index' \subseteq Index
  PROVE  BoundInv'
<1>1. PICK p \in Proc : TRUE
  BY ProcAssumption
<1>2. call[p] \in Call /\ Go(p, call[p])
  BY Here DEF BoundInv, Go, TypeInv, TypeOK
<1> QED
  BY <1>1, <1>2, ShrinkStep

LEMMA NextBound == BoundInv /\ [Next]_vars => BoundInv'
<1> SUFFICES ASSUME BoundInv, [Next]_vars PROVE BoundInv'
  OBVIOUS
<1>0. TypeInv'
  BY NextType DEF BoundInv
<1>1. CASE Tick
  <2>1. Index' \subseteq Index
    BY <1>1, Here, ProcAssumption DEF Tick, Index, BoundInv, TypeInv, TypeOK
  <2> QED
    BY <1>0, <1>1, <2>1, StillBound DEF Tick
<1>2. ASSUME NEW p \in Proc, Start(p) PROVE BoundInv'
  BY <1>0, <1>2, StartBound
<1>3. ASSUME NEW p \in Proc, Step(p) PROVE BoundInv'
  BY <1>0, <1>3, CountBound, PickBound, LoginBound, RevokeBound, ReadBound, GetBound, ListBound,
     AllBound, KeepBound DEF Step
<1>4. ASSUME NEW p \in Proc, Fail(p) PROVE BoundInv'
  BY <1>0, <1>4, IdleType, IdleQuiet, QuietStep, SameIndex DEF Fail
<1>5. CASE UNCHANGED vars
  BY <1>0, <1>5, StillBound, SameIndex DEF vars
<1> QED
  BY <1>1, <1>2, <1>3, <1>4, <1>5 DEF Next

\* The index of sessions never holds more than the limit, less one, plus what
\* the requests that can be in flight add between counting and inserting
\* (createSession, regenerateSession): for every number of requests and ids,
\* every limit, with requests that die anywhere and keys that expire.
THEOREM Bound == Spec => []IndexBound
<1>1. BoundInv => IndexBound
  BY DEF BoundInv
<1> QED
  BY <1>1, InitBound, NextBound, PTL DEF Spec

-----------------------------------------------------------------------------
(* The index outlives the sessions it lists.                               *)

Creates(c) == c.kind \in {"login", "password"}

\* The session it creates is not in the index yet.
Unlisted(c) == \/ c.kind = "login" /\ c.pc # "expire"
               \/ c.kind = "password" /\ c.pc # "copyDel"

\* Nothing was created in the future.
Clocked ==
  /\ now <= MaxTime
  /\ \A s \in SessionId : session[s].createdAt <= now
  /\ \A p \in Proc : call[p].kind = "login" => call[p].t <= now

\* A session to be created has an id of its own; one that is used was handed out.
Fresh ==
  /\ issued \subseteq used /\ index \subseteq used
  /\ \A p \in Proc : Creates(call[p]) => call[p].new \in used \ issued
  /\ \A p, q \in Proc : p # q /\ Creates(call[p]) /\ Creates(call[q]) => call[p].new # call[q].new
  /\ \A p \in Proc : call[p].kind \in AuthKinds => call[p].cur \in issued
  /\ \A p \in Proc : Unlisted(call[p]) => call[p].new \notin index

\* regenerateSession keeps the time of creation.
Copied ==
  \A p \in Proc : call[p].pc \in {"copyRem", "copyAdd"} =>
     session[call[p].new].createdAt = session[call[p].cur].createdAt

\* A listed session is about to have the index extended for it, or was created
\* when one handed out was, unless its login died.
Listed ==
  \A s \in index : \/ \E p \in Proc : At(p, "expire") /\ call[p].new = s
                   \/ \E o \in issued : session[o].createdAt = session[s].createdAt
                   \/ CanFail

\* While there is an index, it outlasts every session handed out.
Lasting == Index # {} => \A o \in issued : indexEnd >= ExpiresAt(o)

LifeInv == TypeInv /\ Clocked /\ Fresh /\ Copied /\ Listed /\ Lasting

\* What a request keeps while it runs.
Keeps(b, c) ==
  \/ c = Idle /\ (b.pc = "expire" => CanFail)
  \/ /\ c.kind = b.kind /\ c.new = b.new /\ c.cur = b.cur
     /\ b.kind = "login" => c.t = b.t
     /\ b.pc \notin {"expire", "copyDel"}

LEMMA IdleKept == /\ ~Creates(Idle) /\ ~Unlisted(Idle) /\ Idle.kind = "none" /\ Idle.pc = "idle"
                  /\ Idle.kind \notin AuthKinds
  BY DEF Idle, Creates, Unlisted, AuthKinds

LEMMA Numbers ==
  ASSUME TypeOK, TypeOK'
  PROVE  /\ now \in Nat /\ now' \in Nat /\ Life \in Nat /\ MaxTime \in Nat
         /\ indexEnd \in Nat /\ indexEnd' \in Nat
         /\ \A s \in SessionId : session[s].createdAt \in Nat /\ session'[s].createdAt \in Nat
         /\ \A p \in Proc : call[p].t \in Nat
         /\ index \subseteq SessionId /\ index' \subseteq SessionId
         /\ issued \subseteq SessionId /\ used \subseteq SessionId
  BY NumberAssumption DEF TypeOK, Call

\* Only the others' locals are left alone.
LEMMA CallsAfter ==
  ASSUME TypeInv, NEW p \in Proc, NEW c, Go(p, c)
  PROVE  call'[p] = c /\ \A q \in Proc : q # p => call'[q] = call[q]
  BY DEF Go, TypeInv, TypeOK

LEMMA UnlistedCreates == ASSUME NEW c, Unlisted(c) PROVE Creates(c)
  BY DEF Unlisted, Creates

LEMMA KeptUnlisted ==
  ASSUME NEW b, NEW c, Keeps(b, c), Unlisted(c)
  PROVE  Unlisted(b) /\ b.new = c.new
  BY IdleKept DEF Keeps, Unlisted

LEMMA KeptCreates ==
  ASSUME NEW b, NEW c, Keeps(b, c), Creates(c)
  PROVE  Creates(b) /\ b.new = c.new
  BY IdleKept DEF Keeps, Creates

\* The ids stay fresh when a command lists X: its own new session, or one that
\* was handed out.
LEMMA FreshKept ==
  ASSUME TypeInv, Fresh, NEW p \in Proc, NEW c, Go(p, c), Keeps(call[p], c),
         used' = used, issued' = issued,
         NEW X, index' \subseteq index \cup X,
         \A x \in X : (x = call[p].new /\ Creates(call[p]) /\ ~Unlisted(c)) \/ x \in issued
  PROVE  Fresh'
<1>1. call'[p] = c /\ \A q \in Proc : q # p => call'[q] = call[q]
  BY CallsAfter
<1>2. Creates(c) => Creates(call[p]) /\ call[p].new = c.new
  BY KeptCreates
<1>3. \A q \in Proc : Creates(call'[q]) => Creates(call[q]) /\ call'[q].new = call[q].new
  BY <1>1, <1>2
<1>4. issued' \subseteq used' /\ index' \subseteq used'
  BY DEF Fresh
<1>5. \A q \in Proc : Creates(call'[q]) => call'[q].new \in used' \ issued'
  BY <1>3 DEF Fresh
<1>6. \A q, r \in Proc : q # r /\ Creates(call'[q]) /\ Creates(call'[r]) => call'[q].new # call'[r].new
  BY <1>3 DEF Fresh
<1>7. \A q \in Proc : call'[q].kind \in AuthKinds => call'[q].cur \in issued'
  <2>1. c.kind \in AuthKinds => c.cur \in issued
    BY IdleKept DEF Fresh, Keeps
  <2> QED
    BY <1>1, <2>1 DEF Fresh
<1>8. ASSUME NEW q \in Proc, Unlisted(call'[q]) PROVE call'[q].new \notin index'
  <2>1. Creates(call'[q]) /\ Creates(call[q]) /\ call'[q].new = call[q].new
    BY <1>3, <1>8, UnlistedCreates
  <2>2. Unlisted(call[q])
    BY <1>1, <1>8, KeptUnlisted
  <2>3. call[q].new \notin index /\ call[q].new \notin issued
    BY <2>1, <2>2 DEF Fresh
  <2>4. call[q].new \notin X
    <3>1. CASE q = p
      BY <1>1, <1>8, <2>3, <3>1
    <3>2. CASE q # p
      BY <2>1, <2>3, <3>2 DEF Fresh
    <3> QED
      BY <3>1, <3>2
  <2> QED
    BY <2>1, <2>3, <2>4
<1> QED
  BY <1>4, <1>5, <1>6, <1>7, <1>8 DEF Fresh

LEMMA ClockedKept ==
  ASSUME TypeInv, TypeInv', Clocked, NEW p \in Proc, NEW c, Go(p, c),
         c = Idle \/ (c.kind = "login" => call[p].kind = "login" /\ c.t = call[p].t),
         now' = now, \A s \in SessionId : session'[s].createdAt <= now
  PROVE  Clocked'
<1>1. call'[p] = c /\ \A q \in Proc : q # p => call'[q] = call[q]
  BY CallsAfter
<1> QED
  BY <1>1, IdleKept DEF Clocked

\* The index keeps its end, or loses and regains its key.
LEMMA LastingKept ==
  ASSUME TypeInv, TypeInv', Clocked, Lasting, UNCHANGED <<now, issued>>,
         \A o \in issued : session'[o].createdAt = session[o].createdAt,
         UNCHANGED <<index, indexEnd>> \/ \E S : SetIndex(S)
  PROVE  Lasting'
<1>1. /\ TypeOK /\ TypeOK'
      /\ now \in Nat /\ Life \in Nat /\ MaxTime \in Nat /\ indexEnd \in Nat
      /\ \A s \in SessionId : session[s].createdAt \in Nat
      /\ issued \subseteq SessionId
  BY Numbers DEF TypeInv
<1>2. \A o \in issued : ExpiresAt(o)' = ExpiresAt(o)
  BY DEF ExpiresAt
<1>3. CASE UNCHANGED <<index, indexEnd>>
  BY <1>2, <1>3, SameIndex DEF Lasting
<1>4. ASSUME NEW S, SetIndex(S) PROVE Lasting'
  <2>1. CASE Index = {} \/ S = {}
    <3>1. indexEnd' = MaxTime + Life + 1
      BY <1>4, <2>1 DEF SetIndex, Never
    <3>2. \A o \in issued : ExpiresAt(o) <= MaxTime + Life
      <4> SUFFICES ASSUME NEW o \in issued PROVE ExpiresAt(o) <= MaxTime + Life
        OBVIOUS
      <4>1. session[o].createdAt \in Nat /\ session[o].createdAt <= now /\ now <= MaxTime
        BY <1>1 DEF Clocked
      <4> QED
        BY <1>1, <4>1 DEF ExpiresAt
    <3>3. \A o \in issued : ExpiresAt(o) \in Nat
      BY <1>1 DEF ExpiresAt
    <3> QED
      BY <1>1, <1>2, <3>1, <3>2, <3>3 DEF Lasting
  <2>2. CASE Index # {} /\ S # {}
    <3>1. indexEnd' = indexEnd
      BY <1>4, <2>2 DEF SetIndex
    <3> QED
      BY <1>2, <2>2, <3>1 DEF Lasting
  <2> QED
    BY <2>1, <2>2
<1> QED
  BY <1>3, <1>4

\* A command that writes no time of creation.
LEMMA PlainLife ==
  ASSUME LifeInv, TypeInv', NEW p \in Proc, NEW c, Go(p, c), Keeps(call[p], c),
         c.pc \in {"copyRem", "copyAdd"} => call[p].pc \in {"copyRem", "copyAdd"},
         UNCHANGED <<now, used, issued>>,
         \A s \in SessionId : session'[s].createdAt = session[s].createdAt,
         UNCHANGED <<index, indexEnd>> \/ \E S : SetIndex(S),
         NEW X \in SUBSET SessionId, index' \subseteq index \cup X,
         \A x \in X : (x = call[p].new /\ Creates(call[p]) /\ ~Unlisted(c)) \/ x \in issued,
         \A x \in X : \/ c.pc = "expire" /\ c.new = x
                      \/ \E o \in issued : session[o].createdAt = session[x].createdAt
  PROVE  LifeInv'
<1>0. /\ TypeInv /\ Clocked /\ Fresh /\ Copied /\ Listed /\ Lasting
      /\ index \subseteq SessionId /\ issued \subseteq SessionId
      /\ call'[p] = c /\ \A q \in Proc : q # p => call'[q] = call[q]
  BY CallsAfter DEF LifeInv, TypeInv, TypeOK
<1>1. Clocked'
  <2>1. c = Idle \/ (c.kind = "login" => call[p].kind = "login" /\ c.t = call[p].t)
    BY DEF Keeps
  <2>2. \A s \in SessionId : session'[s].createdAt <= now
    BY <1>0 DEF Clocked
  <2> QED
    BY <1>0, <2>1, <2>2, ClockedKept
<1>2. Fresh'
  BY <1>0, FreshKept
<1>3. Copied'
  <2> SUFFICES ASSUME NEW q \in Proc, call'[q].pc \in {"copyRem", "copyAdd"}
               PROVE  session'[call'[q].new].createdAt = session'[call'[q].cur].createdAt
    BY DEF Copied
  <2>1. call[q].pc \in {"copyRem", "copyAdd"} /\ call'[q].new = call[q].new /\ call'[q].cur = call[q].cur
    <3>1. CASE q = p
      BY <1>0, <3>1, IdleKept DEF Keeps
    <3> QED
      BY <1>0, <3>1
  <2>2. call[q].new \in SessionId /\ call[q].cur \in SessionId
    <3>1. CallOK(call[q])
      BY <1>0 DEF TypeInv
    <3> QED
      BY <2>1, <3>1 DEF CallOK, PcFits, AuthKinds
  <2> QED
    BY <1>0, <2>1, <2>2 DEF Copied
<1>4. Listed'
  <2> SUFFICES ASSUME NEW s \in index'
               PROVE  \/ \E q \in Proc : call'[q].pc = "expire" /\ call'[q].new = s
                      \/ \E o \in issued : session'[o].createdAt = session'[s].createdAt
                      \/ CanFail
    BY DEF Listed, At
  <2>1. CASE s \in X
    BY <1>0, <2>1
  <2>2. CASE s \in index
    <3>1. \/ \E q \in Proc : call[q].pc = "expire" /\ call[q].new = s
          \/ \E o \in issued : session[o].createdAt = session[s].createdAt
          \/ CanFail
      BY <1>0, <2>2 DEF Listed, At
    <3>2. ASSUME NEW q \in Proc, call[q].pc = "expire", call[q].new = s
          PROVE  CanFail \/ (call'[q].pc = "expire" /\ call'[q].new = s)
      <4>1. CASE q = p
        BY <3>2, <4>1 DEF Keeps
      <4> QED
        BY <1>0, <3>2, <4>1
    <3> QED
      BY <1>0, <2>2, <3>1, <3>2
  <2> QED
    BY <2>1, <2>2
<1>5. Lasting'
  <2>1. \A o \in issued : session'[o].createdAt = session[o].createdAt
    BY <1>0
  <2> QED
    BY <1>0, <2>1, LastingKept
<1> QED
  BY <1>1, <1>2, <1>3, <1>4, <1>5 DEF LifeInv

\* A command that writes a new session, at a time that has come.
LEMMA WrittenLife ==
  ASSUME LifeInv, TypeInv', NEW p \in Proc, NEW c, Go(p, c), Keeps(call[p], c), Unlisted(call[p]),
         call[p].new \in SessionId, UNCHANGED <<now, index, indexEnd, used, issued>>,
         \A s \in SessionId \ {call[p].new} : session'[s].createdAt = session[s].createdAt,
         session'[call[p].new].createdAt <= now,
         c.pc \in {"copyRem", "copyAdd"} =>
           session'[call[p].new].createdAt = session[call[p].cur].createdAt
  PROVE  LifeInv'
<1>0. /\ TypeInv /\ Clocked /\ Fresh /\ Copied /\ Listed /\ Lasting
      /\ index \subseteq SessionId /\ issued \subseteq SessionId
      /\ call'[p] = c /\ \A q \in Proc : q # p => call'[q] = call[q]
  BY CallsAfter DEF LifeInv, TypeInv, TypeOK
<1>00. call[p].new \notin issued /\ call[p].new \notin index /\ Creates(call[p])
  BY <1>0, UnlistedCreates DEF Fresh
<1>1. Clocked'
  <2>1. c = Idle \/ (c.kind = "login" => call[p].kind = "login" /\ c.t = call[p].t)
    BY DEF Keeps
  <2>2. \A s \in SessionId : session'[s].createdAt <= now
    BY <1>0 DEF Clocked
  <2> QED
    BY <1>0, <2>1, <2>2, ClockedKept
<1>2. Fresh'
  <2>1. index' \subseteq index \cup {}
    OBVIOUS
  <2> QED
    BY <1>0, <2>1, FreshKept
<1>3. Copied'
  <2> SUFFICES ASSUME NEW q \in Proc, call'[q].pc \in {"copyRem", "copyAdd"}
               PROVE  session'[call'[q].new].createdAt = session'[call'[q].cur].createdAt
    BY DEF Copied
  <2>1. /\ call'[q].new \in SessionId /\ call'[q].cur \in SessionId
        /\ call'[q].kind = "password"
    <3>1. CallOK(call'[q])
      BY DEF TypeInv
    <3> QED
      BY <3>1 DEF CallOK, PcFits, AuthKinds
  <2>2. CASE q = p
    <3>1. c.new = call[p].new /\ c.cur = call[p].cur /\ call[p].kind = "password"
      BY <1>0, <2>1, <2>2, IdleKept DEF Keeps
    <3>2. call[p].cur \in issued
      BY <1>0, <3>1 DEF Fresh, AuthKinds
    <3>3. session'[call[p].cur].createdAt = session[call[p].cur].createdAt
      BY <1>0, <1>00, <3>2
    <3> QED
      BY <1>0, <2>2, <3>1, <3>3
  <2>3. CASE q # p
    <3>1. call'[q] = call[q]
      BY <1>0, <2>3
    <3>2. call[q].cur \in issued /\ Creates(call[q])
      BY <1>0, <2>1, <3>1 DEF Fresh, AuthKinds, Creates
    <3>3. call[q].new # call[p].new /\ call[q].cur # call[p].new
      BY <1>0, <1>00, <2>3, <3>2 DEF Fresh
    <3>4. session[call[q].new].createdAt = session[call[q].cur].createdAt
      BY <1>0, <3>1 DEF Copied
    <3> QED
      BY <2>1, <3>1, <3>3, <3>4
  <2> QED
    BY <2>2, <2>3
<1>4. Listed'
  <2> SUFFICES ASSUME NEW s \in index
               PROVE  \/ \E q \in Proc : call'[q].pc = "expire" /\ call'[q].new = s
                      \/ \E o \in issued : session'[o].createdAt = session'[s].createdAt
                      \/ CanFail
    BY DEF Listed, At
  <2>1. \/ \E q \in Proc : call[q].pc = "expire" /\ call[q].new = s
        \/ \E o \in issued : session[o].createdAt = session[s].createdAt
        \/ CanFail
    BY <1>0 DEF Listed, At
  <2>2. ASSUME NEW q \in Proc, call[q].pc = "expire", call[q].new = s
        PROVE  CanFail \/ (call'[q].pc = "expire" /\ call'[q].new = s)
    <3>1. CASE q = p
      BY <2>2, <3>1 DEF Keeps
    <3> QED
      BY <1>0, <2>2, <3>1
  <2>3. session'[s].createdAt = session[s].createdAt
    BY <1>0, <1>00
  <2>4. \A o \in issued : session'[o].createdAt = session[o].createdAt
    BY <1>0, <1>00
  <2> QED
    BY <2>1, <2>2, <2>3, <2>4
<1>5. Lasting'
  <2>1. \A o \in issued : session'[o].createdAt = session[o].createdAt
    BY <1>0, <1>00
  <2> QED
    BY <1>0, <2>1, LastingKept
<1> QED
  BY <1>1, <1>2, <1>3, <1>4, <1>5 DEF LifeInv

\* A request that starts, with an id nobody has drawn if it creates a session.
LEMMA StartedLife ==
  ASSUME LifeInv, TypeInv', NEW p \in Proc, NEW c, Go(p, c), At(p, "idle"),
         UNCHANGED <<now, session, index, indexEnd, issued>>,
         used \subseteq used', Creates(c) => c.new \in used' \ used,
         c.kind \in AuthKinds => c.cur \in issued, c.kind = "login" => c.t = now,
         c.pc \notin {"copyRem", "copyAdd"}
  PROVE  LifeInv'
<1>0. /\ TypeInv /\ Clocked /\ Fresh /\ Copied /\ Listed /\ Lasting
      /\ call'[p] = c /\ \A q \in Proc : q # p => call'[q] = call[q]
  BY CallsAfter DEF LifeInv
<1>1. Clocked'
  <2>1. now \in Nat
    BY <1>0 DEF TypeInv, TypeOK
  <2> QED
    BY <1>0, <2>1 DEF Clocked
<1>2. Fresh'
  <2>1. issued' \subseteq used' /\ index' \subseteq used'
    BY <1>0 DEF Fresh
  <2>2. \A q \in Proc : Creates(call'[q]) => call'[q].new \in used' \ issued'
    BY <1>0 DEF Fresh
  <2>3. ASSUME NEW q \in Proc, NEW r \in Proc, q # r, Creates(call'[q]), Creates(call'[r])
        PROVE  call'[q].new # call'[r].new
    <3>1. CASE q = p
      BY <1>0, <2>3, <3>1 DEF Fresh
    <3>2. CASE r = p
      BY <1>0, <2>3, <3>2 DEF Fresh
    <3> QED
      BY <1>0, <2>3, <3>1, <3>2 DEF Fresh
  <2>4. \A q \in Proc : call'[q].kind \in AuthKinds => call'[q].cur \in issued'
    BY <1>0 DEF Fresh
  <2>5. ASSUME NEW q \in Proc, Unlisted(call'[q]) PROVE call'[q].new \notin index'
    <3>1. CASE q = p
      BY <1>0, <2>5, <3>1, UnlistedCreates DEF Fresh
    <3> QED
      BY <1>0, <2>5, <3>1 DEF Fresh
  <2> QED
    BY <2>1, <2>2, <2>3, <2>4, <2>5 DEF Fresh
<1>3. Copied'
  BY <1>0 DEF Copied
<1>4. Listed'
  BY <1>0 DEF Listed, At
<1>5. Lasting'
  BY <1>0, SameIndex DEF Lasting, ExpiresAt
<1> QED
  BY <1>1, <1>2, <1>3, <1>4, <1>5 DEF LifeInv
\* The same, and not on to a command that relies on a copied session.
Moves(b, c) == Keeps(b, c) /\ c.pc \notin {"copyRem", "copyAdd"}

\* A command that lists nothing new.
LEMMA LocalLife ==
  ASSUME LifeInv, TypeInv', NEW p \in Proc, NEW c, Go(p, c), Keeps(call[p], c),
         c.pc \in {"copyRem", "copyAdd"} => call[p].pc \in {"copyRem", "copyAdd"},
         UNCHANGED <<now, used, issued>>,
         \A s \in SessionId : session'[s].createdAt = session[s].createdAt,
         UNCHANGED <<index, indexEnd>> \/ \E S : SetIndex(S) /\ S \subseteq Index
  PROVE  LifeInv'
<1>1. index' \subseteq index \cup {}
  BY DEF SetIndex, Index
<1>2. UNCHANGED <<index, indexEnd>> \/ \E S : SetIndex(S)
  BY Zenon
<1>3. {} \in SUBSET SessionId
  OBVIOUS
<1> QED
  BY <1>1, <1>2, <1>3, PlainLife

\* A command that lists x.
LEMMA OneLife ==
  ASSUME LifeInv, TypeInv', NEW p \in Proc, NEW c, Go(p, c), Keeps(call[p], c),
         c.pc \notin {"copyRem", "copyAdd"},
         UNCHANGED <<now, session, used, issued>>,
         NEW x \in SessionId, SetIndex(Index \cup {x}),
         (x = call[p].new /\ Creates(call[p]) /\ ~Unlisted(c)) \/ x \in issued,
         \/ c.pc = "expire" /\ c.new = x
         \/ \E o \in issued : session[o].createdAt = session[x].createdAt
  PROVE  LifeInv'
<1> DEFINE X == {x}
<1>1. /\ X \in SUBSET SessionId
      /\ index' \subseteq index \cup X
      /\ \E S : SetIndex(S)
  BY DEF SetIndex, Index
<1>2. \A y \in X : (y = call[p].new /\ Creates(call[p]) /\ ~Unlisted(c)) \/ y \in issued
  OBVIOUS
<1>3. \A y \in X : \/ c.pc = "expire" /\ c.new = y
                   \/ \E o \in issued : session[o].createdAt = session[y].createdAt
  OBVIOUS
<1>4. UNCHANGED <<now, used, issued>> /\ session' = session
  OBVIOUS
<1> HIDE DEF X
<1> QED
  BY <1>1, <1>2, <1>3, <1>4, PlainLife

\* The locals of a request that does not create a session at its next command.
LEMMA IdleMoves == ASSUME NEW b, b.pc # "expire" PROVE Moves(b, Idle)
  BY IdleKept DEF Moves, Keeps

LEMMA FieldsMove ==
  ASSUME NEW b, NEW c, c.kind = b.kind, c.new = b.new, c.cur = b.cur,
         b.kind = "login" => c.t = b.t, b.pc \notin {"expire", "copyDel"},
         c.pc \notin {"copyRem", "copyAdd"}
  PROVE  Moves(b, c)
  BY DEF Moves, Keeps

LEMMA HandlerMoves ==
  ASSUME NEW c \in Call, c.kind \in AuthKinds, c.pc \in {"ttl", "touch"}
  PROVE  Moves(c, Handler(c))
<1> DEFINE h == [c EXCEPT !.sub = "none", !.n = 0, !.t = 0]
<1>1. \A x \in Commands : /\ [h EXCEPT !.pc = x].pc = x /\ [h EXCEPT !.pc = x].kind = c.kind
                          /\ [h EXCEPT !.pc = x].new = c.new /\ [h EXCEPT !.pc = x].cur = c.cur
  BY DEF Call
<1>2. /\ c.kind \in {"logout", "delete"} => Handler(c) = [h EXCEPT !.pc = "revDel"]
      /\ c.kind = "list" => Handler(c) = [h EXCEPT !.pc = "listRange"]
      /\ c.kind = "password" => Handler(c) = [h EXCEPT !.pc = "allRange"]
      /\ c.kind = "read" => Handler(c) = Idle
  BY DEF Handler
<1> HIDE DEF h
<1>3. \/ \E x \in {"revDel", "listRange", "allRange"} : Handler(c) = [h EXCEPT !.pc = x]
      \/ Handler(c) = Idle
  BY <1>2 DEF AuthKinds
<1>4. {"revDel", "listRange", "allRange"} \subseteq Commands /\ c.kind # "login"
  BY DEF Commands, AuthKinds
<1>5. CASE Handler(c) = Idle
  BY <1>5, IdleMoves
<1>6. ASSUME NEW x \in {"revDel", "listRange", "allRange"}, Handler(c) = [h EXCEPT !.pc = x]
      PROVE  Moves(c, Handler(c))
  <2> DEFINE d == [h EXCEPT !.pc = x]
  <2>1. d.pc = x /\ d.kind = c.kind /\ d.new = c.new /\ d.cur = c.cur
    BY <1>1, <1>4
  <2> HIDE DEF d
  <2>2. Moves(c, d)
    BY <1>4, <2>1, FieldsMove
  <2> QED
    BY <1>6, <2>2 DEF d
<1> QED
  BY <1>3, <1>5, <1>6

LEMMA NextListedMoves ==
  ASSUME NEW c \in Call, c.kind = "list", c.pc \notin {"expire", "copyDel"}, NEW left
  PROVE  Moves(c, NextListed(c, left))
<1> DEFINE d == [c EXCEPT !.pc = "get", !.sub = "list", !.todo = left, !.at = NoId]
<1>1. d.pc = "get" /\ d.kind = c.kind /\ d.new = c.new /\ d.cur = c.cur
  BY DEF Call
<1>2. NextListed(c, left) = Idle \/ NextListed(c, left) = d
  BY DEF NextListed
<1> HIDE DEF d
<1>3. Moves(c, d) /\ Moves(c, Idle)
  BY <1>1, FieldsMove, IdleMoves
<1> QED
  BY <1>2, <1>3

LEMMA MissingMoves ==
  ASSUME NEW c \in Call, c.kind \in AuthKinds, c.pc \in {"get", "purge"}
  PROVE  Moves(c, Missing(c))
<1> DEFINE d == [c EXCEPT !.pc = "listRem"]
           e == [c EXCEPT !.pc = "get", !.sub = "regen", !.at = NoId]
<1>1. /\ d.pc = "listRem" /\ d.kind = c.kind /\ d.new = c.new /\ d.cur = c.cur
      /\ e.pc = "get" /\ e.kind = c.kind /\ e.new = c.new /\ e.cur = c.cur
  BY DEF Call
<1>2. Missing(c) \in {d, e, Idle}
  BY DEF Missing
<1> HIDE DEF d, e
<1>3. c.kind # "login"
  BY DEF AuthKinds
<1>4. Moves(c, d) /\ Moves(c, e) /\ Moves(c, Idle)
  BY <1>1, <1>3, FieldsMove, IdleMoves
<1> QED
  BY <1>2, <1>4

LEMMA FoundMoves ==
  ASSUME NEW c \in Call, CallOK(c), c.kind \in AuthKinds, c.pc = "get", NEW s
  PROVE  Moves(c, [Found(c, s) EXCEPT !.at = NoId])
<1> DEFINE a == [[c EXCEPT !.pc = "ttl", !.t = now] EXCEPT !.at = NoId]
           b == [[c EXCEPT !.pc = "keepAdd", !.sub = "none"] EXCEPT !.at = NoId]
           d == [[c EXCEPT !.pc = "copy", !.sub = "none", !.n = ExpiresAt(s) - now,
                           !.t = session[s].lastActivityAt] EXCEPT !.at = NoId]
           e == [[c EXCEPT !.pc = "get", !.sub = "list", !.todo = c.todo \ {s}, !.at = NoId]
                    EXCEPT !.at = NoId]
<1>1. a.pc = "ttl" /\ a.kind = c.kind /\ a.new = c.new /\ a.cur = c.cur
  BY DEF Call
<1>2. b.pc = "keepAdd" /\ b.kind = c.kind /\ b.new = c.new /\ b.cur = c.cur
  BY DEF Call
<1>3. d.pc = "copy" /\ d.kind = c.kind /\ d.new = c.new /\ d.cur = c.cur
  BY DEF Call
<1>4. e.pc = "get" /\ e.kind = c.kind /\ e.new = c.new /\ e.cur = c.cur
  BY DEF Call
<1>5. [Idle EXCEPT !.at = NoId] = Idle
  BY DEF Idle
<1>6. c.sub \in {"auth", "list", "keep", "regen"}
  BY DEF Call, Callers, CallOK, PcFits
<1>7. [Found(c, s) EXCEPT !.at = NoId] \in {a, b, d, e, Idle}
  BY <1>5, <1>6 DEF Found, NextListed
<1> HIDE DEF a, b, d, e
<1>8. c.kind # "login"
  BY DEF AuthKinds
<1>9. Moves(c, a) /\ Moves(c, b) /\ Moves(c, d) /\ Moves(c, e) /\ Moves(c, Idle)
  BY <1>1, <1>2, <1>3, <1>4, <1>8, FieldsMove, IdleMoves
<1> QED
  BY <1>7, <1>9

LEMMA AllNextMoves ==
  ASSUME NEW c \in Call, c.kind \in {"reset", "password"}, c.pc \in {"allRange", "allDel"}, NEW left
  PROVE  Moves(c, AllNext(c, left))
<1> DEFINE x == IF left = {} THEN "allClear" ELSE "allDel"
           d == [c EXCEPT !.pc = x, !.todo = left]
<1>1. d.pc = x /\ d.kind = c.kind /\ d.new = c.new /\ d.cur = c.cur
  BY DEF Call
<1>2. AllNext(c, left) = d
  BY DEF AllNext
<1> HIDE DEF d
<1> QED
  BY <1>1, <1>2, FieldsMove

-----------------------------------------------------------------------------
(* Every step keeps the life of the index.                                 *)

\* A DEL writes no time of creation.
LEMMA CreatedKept ==
  ASSUME TypeOK, NEW s \in SessionId
  PROVE  \A r \in SessionId : [session EXCEPT ![s].end = 0][r].createdAt = session[r].createdAt
  BY DEF TypeOK

LEMMA StartLife ==
  ASSUME LifeInv, TypeInv', NEW p \in Proc, Start(p)
  PROVE  LifeInv'
<1>1. CASE StartLogin(p)
  <2>1. PICK s \in SessionId \ used :
          /\ used' = used \cup {s}
          /\ Go(p, [Idle EXCEPT !.kind = "login", !.pc = "zcard", !.new = s, !.t = now])
    BY <1>1 DEF StartLogin
  <2> DEFINE d == [Idle EXCEPT !.kind = "login", !.pc = "zcard", !.new = s, !.t = now]
  <2>2. d.kind = "login" /\ d.pc = "zcard" /\ d.new = s /\ d.t = now
    BY DEF Idle
  <2>3. Go(p, d)
    BY <2>1
  <2> HIDE DEF d
  <2>4. /\ used \subseteq used' /\ Creates(d) => d.new \in used' \ used
        /\ d.kind \in AuthKinds => d.cur \in issued
        /\ d.kind = "login" => d.t = now
        /\ d.pc \notin {"copyRem", "copyAdd"}
    BY <2>1, <2>2 DEF AuthKinds
  <2> QED
    BY <1>1, <2>3, <2>4, StartedLife DEF StartLogin
<1>2. CASE StartReset(p)
  <2> DEFINE d == [Idle EXCEPT !.kind = "reset", !.pc = "allRange"]
  <2>1. d.kind = "reset" /\ d.pc = "allRange"
    BY DEF Idle
  <2>2. Go(p, d)
    BY <1>2 DEF StartReset
  <2> HIDE DEF d
  <2>3. /\ used \subseteq used' /\ Creates(d) => d.new \in used' \ used
        /\ d.kind \in AuthKinds => d.cur \in issued
        /\ d.kind = "login" => d.t = now
        /\ d.pc \notin {"copyRem", "copyAdd"}
    BY <1>2, <2>1 DEF AuthKinds, Creates, StartReset
  <2> QED
    BY <1>2, <2>2, <2>3, StartedLife DEF StartReset
<1>3. CASE StartAuth(p)
  <2>1. PICK s \in issued, k \in Kinds \cap AuthKinds :
          LET c == [Idle EXCEPT !.kind = k, !.pc = "get", !.sub = "auth", !.cur = s]
          IN  CASE k = "delete" ->
                      /\ \E target \in SessionId : Go(p, [c EXCEPT !.todo = {target}])
                      /\ UNCHANGED used
                [] k = "password" ->
                      \E new \in SessionId \ used :
                          Go(p, [c EXCEPT !.new = new]) /\ used' = used \cup {new}
                [] k = "logout" -> Go(p, [c EXCEPT !.todo = {s}]) /\ UNCHANGED used
                [] OTHER -> Go(p, c) /\ UNCHANGED used
    BY <1>3 DEF StartAuth
  <2> DEFINE d == [Idle EXCEPT !.kind = k, !.pc = "get", !.sub = "auth", !.cur = s]
  <2>2. /\ d.kind = k /\ d.pc = "get" /\ d.cur = s
        /\ \A T : /\ [d EXCEPT !.todo = T].kind = k /\ [d EXCEPT !.todo = T].pc = "get"
                  /\ [d EXCEPT !.todo = T].cur = s
        /\ \A n : /\ [d EXCEPT !.new = n].kind = k /\ [d EXCEPT !.new = n].pc = "get"
                  /\ [d EXCEPT !.new = n].cur = s /\ [d EXCEPT !.new = n].new = n
    BY DEF Idle
  <2>p. k = "password" => \E new \in SessionId \ used :
                             Go(p, [d EXCEPT !.new = new]) /\ used' = used \cup {new}
    BY <2>1
  <2> HIDE DEF d
  <2>3. \E c : /\ Go(p, c) /\ c.kind = k /\ c.pc = "get" /\ c.cur = s
               /\ used \subseteq used'
               /\ k = "password" => c.new \in used' \ used
    <3>1. CASE k = "delete"
      BY <2>1, <2>2, <3>1 DEF d
    <3>2. CASE k = "password"
      <4>1. PICK new \in SessionId \ used : Go(p, [d EXCEPT !.new = new]) /\ used' = used \cup {new}
        BY <2>p, <3>2
      <4>2. [d EXCEPT !.new = new].new \in used' \ used
        BY <2>2, <4>1
      <4> QED
        BY <2>2, <4>1, <4>2
    <3>3. CASE k = "logout"
      BY <2>1, <2>2, <3>3 DEF d
    <3>4. CASE k \notin {"delete", "password", "logout"}
      BY <2>1, <2>2, <3>4 DEF d
    <3> QED
      BY <3>1, <3>2, <3>3, <3>4
  <2>4. PICK c : /\ Go(p, c) /\ c.kind = k /\ c.pc = "get" /\ c.cur = s
                 /\ used \subseteq used'
                 /\ k = "password" => c.new \in used' \ used
    BY <2>3
  <2>5. /\ Creates(c) => c.new \in used' \ used
        /\ c.kind \in AuthKinds => c.cur \in issued
        /\ c.kind = "login" => c.t = now
        /\ c.pc \notin {"copyRem", "copyAdd"}
    BY <2>4 DEF AuthKinds, Creates
  <2> QED
    BY <1>3, <2>4, <2>5, StartedLife DEF StartAuth
<1> QED
  BY <1>1, <1>2, <1>3 DEF Start

LEMMA LoginLife ==
  ASSUME LifeInv, TypeInv', NEW p \in Proc,
         CountSessions(p) \/ PickVictims(p) \/ StoreSession(p) \/ IndexSession(p)
  PROVE  LifeInv'
<1> DEFINE b == call[p]
<1>0. /\ TypeInv /\ b \in Call /\ b.pc \in {"zcard", "zrange", "setex", "zadd"}
      /\ b.kind = "login" /\ b.new \in SessionId /\ b.t <= now /\ Creates(b)
  <2>1. TypeInv /\ b \in Call /\ b.pc \in {"zcard", "zrange", "setex", "zadd"} /\ CallOK(b)
    BY Here DEF LifeInv, CountSessions, PickVictims, StoreSession, IndexSession, At
  <2>2. b.kind = "login" /\ b.new \in SessionId
    BY <2>1 DEF CallOK, PcFits
  <2> QED
    BY <2>1, <2>2 DEF LifeInv, Clocked, Creates
<1> HIDE DEF b
<1>1. CASE CountSessions(p)
  <2>1. PICK c : Go(p, c) /\ c.kind = b.kind /\ c.new = b.new /\ c.cur = b.cur /\ c.t = b.t
                 /\ c.pc \in {"zrange", "setex"}
    <3> DEFINE d == [b EXCEPT !.pc = "zrange", !.n = Cardinality(Index) - MaxConcurrent + 1]
               e == [b EXCEPT !.pc = "setex"]
    <3>1. /\ d.kind = b.kind /\ d.new = b.new /\ d.cur = b.cur /\ d.t = b.t /\ d.pc = "zrange"
          /\ e.kind = b.kind /\ e.new = b.new /\ e.cur = b.cur /\ e.t = b.t /\ e.pc = "setex"
      BY <1>0 DEF Call
    <3>2. Go(p, d) \/ Go(p, e)
      BY <1>1 DEF CountSessions, b
    <3> HIDE DEF d, e
    <3> QED
      BY <3>1, <3>2
  <2>2. Moves(b, c)
    BY <1>0, <2>1, FieldsMove
  <2> QED
    BY <1>1, <2>1, <2>2, LocalLife DEF CountSessions, Moves, b
<1>2. CASE PickVictims(p)
  <2>1. PICK c : Go(p, c) /\ c.kind = b.kind /\ c.new = b.new /\ c.cur = b.cur /\ c.t = b.t
                 /\ c.pc \in {"setex", "revDel"}
    <3>1. PICK S : Go(p, [b EXCEPT !.pc = IF S = {} THEN "setex" ELSE "revDel", !.todo = S, !.n = 0])
      BY <1>2 DEF PickVictims, b
    <3> DEFINE d == [b EXCEPT !.pc = IF S = {} THEN "setex" ELSE "revDel", !.todo = S, !.n = 0]
    <3>2. /\ d.kind = b.kind /\ d.new = b.new /\ d.cur = b.cur /\ d.t = b.t
          /\ d.pc \in {"setex", "revDel"}
      BY <1>0 DEF Call
    <3>3. Go(p, d)
      BY <3>1
    <3> HIDE DEF d
    <3> QED
      BY <3>2, <3>3
  <2>2. Moves(b, c)
    BY <1>0, <2>1, FieldsMove
  <2> QED
    BY <1>2, <2>1, <2>2, LocalLife DEF PickVictims, Moves, b
<1>3. CASE StoreSession(p)
  <2> DEFINE c == [b EXCEPT !.pc = "zadd"]
  <2>1. Go(p, c)
    BY <1>3 DEF StoreSession, b
  <2>2. c.kind = b.kind /\ c.new = b.new /\ c.cur = b.cur /\ c.t = b.t /\ c.pc = "zadd"
    BY <1>0 DEF Call
  <2> HIDE DEF c
  <2>3. Moves(b, c) /\ Unlisted(b)
    BY <1>0, <1>3, <2>2, FieldsMove DEF Unlisted, StoreSession, At, b
  <2>4. /\ \A s \in SessionId \ {b.new} : session'[s].createdAt = session[s].createdAt
        /\ session'[b.new].createdAt = b.t
    BY <1>0, <1>3 DEF StoreSession, TypeInv, TypeOK, b
  <2> QED
    BY <1>0, <1>3, <2>1, <2>3, <2>4, WrittenLife DEF StoreSession, Moves, b
<1>4. CASE IndexSession(p)
  <2> DEFINE c == [b EXCEPT !.pc = "expire"]
  <2>1. Go(p, c)
    BY <1>4 DEF IndexSession, b
  <2>2. c.kind = b.kind /\ c.new = b.new /\ c.cur = b.cur /\ c.t = b.t /\ c.pc = "expire"
    BY <1>0 DEF Call
  <2> HIDE DEF c
  <2>3. Moves(b, c) /\ ~Unlisted(c)
    BY <1>0, <2>2, FieldsMove DEF Unlisted
  <2>4. UNCHANGED <<now, session, used, issued>> /\ SetIndex(Index \cup {b.new})
    BY <1>4 DEF IndexSession, b
  <2> QED
    BY <1>0, <2>1, <2>2, <2>3, <2>4, OneLife DEF Moves, b
<1> QED
  BY <1>1, <1>2, <1>3, <1>4

\* The EXPIRE of a login covers its own session and every one created before.
LEMMA ExtendLife ==
  ASSUME LifeInv, TypeInv', NEW p \in Proc, ExtendIndex(p)
  PROVE  LifeInv'
<1> DEFINE b == call[p]
<1>0. /\ TypeInv /\ Clocked /\ Fresh /\ Copied /\ Listed /\ Lasting
      /\ b.pc = "expire" /\ b.kind = "login" /\ b.new \in SessionId /\ Creates(b)
      /\ call'[p] = Idle /\ \A q \in Proc : q # p => call'[q] = call[q]
  <2>1. TypeInv /\ b.pc = "expire" /\ CallOK(b) /\ Go(p, Idle)
    BY Here DEF LifeInv, ExtendIndex, At
  <2>2. b.kind = "login" /\ b.new \in SessionId
    BY <2>1 DEF CallOK, PcFits
  <2> QED
    BY <2>1, <2>2, CallsAfter DEF LifeInv, Creates
<1>1. /\ UNCHANGED <<now, session, index, used>> /\ issued' = issued \cup {b.new}
      /\ indexEnd' = IF Index = {} THEN indexEnd ELSE now + Life
  BY DEF ExtendIndex
<1>n. /\ now \in Nat /\ Life \in Nat /\ issued \subseteq SessionId
      /\ \A s \in SessionId : session[s].createdAt \in Nat
  <2>1. TypeOK /\ TypeOK'
    BY <1>0 DEF TypeInv
  <2> QED
    BY <2>1, Numbers
<1> HIDE DEF b
<1>2. Clocked'
  BY <1>0, <1>1, IdleKept DEF Clocked
<1>3. Fresh'
  <2>1. issued' \subseteq used' /\ index' \subseteq used'
    BY <1>0, <1>1 DEF Fresh, b
  <2>2. \A q \in Proc : Creates(call'[q]) => q # p /\ call'[q] = call[q]
    BY <1>0, IdleKept
  <2>3. \A q \in Proc : Creates(call'[q]) => call'[q].new \in used' \ issued'
    BY <1>0, <1>1, <2>2 DEF Fresh, b
  <2>4. \A q, r \in Proc : q # r /\ Creates(call'[q]) /\ Creates(call'[r]) => call'[q].new # call'[r].new
    BY <1>0, <2>2 DEF Fresh
  <2>5. \A q \in Proc : call'[q].kind \in AuthKinds => call'[q].cur \in issued'
    BY <1>0, <1>1, IdleKept DEF Fresh
  <2>6. \A q \in Proc : Unlisted(call'[q]) => call'[q].new \notin index'
    BY <1>0, <1>1, IdleKept DEF Fresh
  <2> QED
    BY <2>1, <2>3, <2>4, <2>5, <2>6 DEF Fresh
<1>4. Copied'
  BY <1>0, <1>1, IdleKept DEF Copied
<1>5. Listed'
  <2> SUFFICES ASSUME NEW s \in index
               PROVE  \/ \E q \in Proc : call'[q].pc = "expire" /\ call'[q].new = s
                      \/ \E o \in issued' : session[o].createdAt = session[s].createdAt
                      \/ CanFail
    BY <1>1 DEF Listed, At
  <2>1. \/ \E q \in Proc : call[q].pc = "expire" /\ call[q].new = s
        \/ \E o \in issued : session[o].createdAt = session[s].createdAt
        \/ CanFail
    BY <1>0 DEF Listed, At
  <2>2. ASSUME NEW q \in Proc, call[q].pc = "expire", call[q].new = s
        PROVE  \/ call'[q].pc = "expire" /\ call'[q].new = s
               \/ \E o \in issued' : session[o].createdAt = session[s].createdAt
    <3>1. CASE q = p
      BY <1>1, <2>2, <3>1 DEF b
    <3> QED
      BY <1>0, <2>2, <3>1
  <2> QED
    BY <1>1, <2>1, <2>2
<1>6. Lasting'
  <2>1. Index' = {} \/ indexEnd' = now + Life
    <3>1. CASE Index = {}
      BY <1>1, <3>1, SameIndex
    <3> QED
      BY <1>1, <3>1
  <2>2. \A o \in issued' : ExpiresAt(o)' = session[o].createdAt + Life
    BY <1>1 DEF ExpiresAt
  <2>3. \A o \in issued' : now + Life >= session[o].createdAt + Life
    <3> SUFFICES ASSUME NEW o \in issued' PROVE now + Life >= session[o].createdAt + Life
      OBVIOUS
    <3>1. o \in SessionId
      BY <1>0, <1>1, <1>n
    <3>2. session[o].createdAt \in Nat /\ session[o].createdAt <= now
      BY <1>0, <1>n, <3>1 DEF Clocked
    <3> QED
      BY <1>n, <3>2
  <2> QED
    BY <2>1, <2>2, <2>3 DEF Lasting
<1> QED
  BY <1>2, <1>3, <1>4, <1>5, <1>6 DEF LifeInv

LEMMA RevokeLife ==
  ASSUME LifeInv, TypeInv', NEW p \in Proc, RevokeDel(p) \/ RevokeRem(p)
  PROVE  LifeInv'
<1> DEFINE b == call[p]
<1>0. TypeInv /\ TypeOK /\ b \in Call /\ b.todo \in SUBSET SessionId /\ b.pc \in {"revDel", "revRem"}
  BY Here DEF LifeInv, RevokeDel, RevokeRem, At
<1> HIDE DEF b
<1>1. CASE RevokeDel(p)
  <2>1. PICK s \in b.todo : /\ session' = [session EXCEPT ![s].end = 0]
                            /\ Go(p, [b EXCEPT !.pc = "revRem", !.at = s])
    BY <1>1 DEF RevokeDel, b
  <2> DEFINE c == [b EXCEPT !.pc = "revRem", !.at = s]
  <2>2. c.kind = b.kind /\ c.new = b.new /\ c.cur = b.cur /\ c.t = b.t /\ c.pc = "revRem"
    BY <1>0 DEF Call
  <2>3. Go(p, c)
    BY <2>1
  <2> HIDE DEF c
  <2>4. Moves(b, c)
    BY <1>0, <2>2, FieldsMove
  <2>5. s \in SessionId
    BY <1>0
  <2>6. \A r \in SessionId : session'[r].createdAt = session[r].createdAt
    BY <1>0, <2>1, <2>5, CreatedKept
  <2> QED
    BY <1>1, <2>3, <2>4, <2>6, LocalLife DEF RevokeDel, Moves, b
<1>2. CASE RevokeRem(p)
  <2> DEFINE next == [b EXCEPT !.todo = b.todo \ {b.at}, !.at = NoId]
             d == [next EXCEPT !.pc = "revDel"]
             e == [next EXCEPT !.pc = "setex"]
  <2>1. /\ d.kind = b.kind /\ d.new = b.new /\ d.cur = b.cur /\ d.t = b.t /\ d.pc = "revDel"
        /\ e.kind = b.kind /\ e.new = b.new /\ e.cur = b.cur /\ e.t = b.t /\ e.pc = "setex"
    BY <1>0 DEF Call
  <2>2. Go(p, d) \/ Go(p, e) \/ Go(p, Idle)
    BY <1>2 DEF RevokeRem, b
  <2> HIDE DEF d, e
  <2>3. Moves(b, d) /\ Moves(b, e) /\ Moves(b, Idle)
    BY <1>0, <2>1, FieldsMove, IdleMoves
  <2>4. PICK c : Go(p, c) /\ Moves(b, c)
    BY <2>2, <2>3
  <2>5. SetIndex(Index \ {b.at}) /\ Index \ {b.at} \subseteq Index
        /\ UNCHANGED <<now, session, used, issued>>
    BY <1>2 DEF RevokeRem, b
  <2> QED
    BY <2>4, <2>5, LocalLife DEF Moves, b
<1> QED
  BY <1>1, <1>2

LEMMA ReadLife ==
  ASSUME LifeInv, TypeInv', NEW p \in Proc, ReadTtl(p) \/ Touch(p) \/ Get(p) \/ Purge(p)
  PROVE  LifeInv'
<1> DEFINE b == call[p]
<1>0. /\ TypeInv /\ TypeOK /\ b \in Call /\ CallOK(b) /\ b.pc \in {"ttl", "touch", "get", "purge"}
      /\ b.kind \in AuthKinds /\ b.cur \in SessionId
  <2>1. TypeInv /\ TypeOK /\ b \in Call /\ CallOK(b) /\ b.pc \in {"ttl", "touch", "get", "purge"}
    BY Here DEF LifeInv, ReadTtl, Touch, Get, Purge, At
  <2>2. b.kind \in AuthKinds /\ b.cur \in SessionId
    BY <2>1 DEF CallOK, PcFits
  <2> QED
    BY <2>1, <2>2
<1>1. b.pc \in {"ttl", "touch"} => Moves(b, Handler(b))
  BY <1>0, HandlerMoves
<1> HIDE DEF b
<1>2. CASE ReadTtl(p)
  <2> DEFINE d == [b EXCEPT !.pc = "touch", !.n = session[b.cur].end - now]
  <2>1. d.kind = b.kind /\ d.new = b.new /\ d.cur = b.cur /\ d.t = b.t /\ d.pc = "touch"
    BY <1>0 DEF Call
  <2>2. b.pc = "ttl" /\ (Go(p, d) \/ Go(p, Handler(b)))
    BY <1>2 DEF ReadTtl, At, b
  <2> HIDE DEF d
  <2>3. Moves(b, d)
    BY <2>1, <2>2, FieldsMove
  <2>4. PICK c : Go(p, c) /\ Moves(b, c)
    BY <1>1, <2>2, <2>3
  <2> QED
    BY <1>2, <2>4, LocalLife DEF ReadTtl, Moves, b
<1>3. CASE Touch(p)
  <2>1. b.pc = "touch" /\ Go(p, Handler(b))
    BY <1>3 DEF Touch, At, b
  <2>2. session' = [session EXCEPT ![b.cur].lastActivityAt = b.t, ![b.cur].end = now + b.n]
    BY <1>3 DEF Touch, b
  <2>3. \A r \in SessionId : session'[r].createdAt = session[r].createdAt
    BY <1>0, <2>2 DEF TypeOK
  <2>4. Moves(b, Handler(b))
    BY <1>1, <2>1
  <2> QED
    BY <1>3, <2>1, <2>3, <2>4, LocalLife DEF Touch, Moves, b
<1>4. CASE Get(p)
  <2>1. PICK s \in SessionId :
          Go(p, CASE s \notin Live       -> Missing([b EXCEPT !.at = s])
                  [] now > ExpiresAt(s)  -> [[b EXCEPT !.at = s] EXCEPT !.pc = "purge"]
                  [] OTHER               -> [Found([b EXCEPT !.at = s], s) EXCEPT !.at = NoId])
    BY <1>4 DEF Get, b
  <2> DEFINE d == [b EXCEPT !.at = s]
             e == [d EXCEPT !.pc = "purge"]
  <2>2. /\ d \in Call /\ CallOK(d) /\ d.pc = "get" /\ d.kind = b.kind /\ d.new = b.new
        /\ d.cur = b.cur
    <3>1. b \in Call /\ CallOK(b) /\ b.pc = "get"
      BY <1>0, <1>4 DEF Get, At, b
    <3>2. d \in Call /\ CallOK(d)
      BY <3>1, Update, OtherOK
    <3>3. d.pc = "get" /\ d.kind = b.kind /\ d.new = b.new /\ d.cur = b.cur
      BY <3>1 DEF Call
    <3> QED
      BY <3>2, <3>3
  <2>3. e.kind = b.kind /\ e.new = b.new /\ e.cur = b.cur /\ e.pc = "purge" /\ b.pc = "get"
    BY <1>0, <1>4 DEF Call, Get, At, b
  <2>4. Go(p, Missing(d)) \/ Go(p, e) \/ Go(p, [Found(d, s) EXCEPT !.at = NoId])
    BY <2>1, Zenon
  <2> HIDE DEF d, e
  <2>5. b.kind # "login"
    BY <1>0 DEF AuthKinds
  <2>6. Moves(d, Missing(d)) /\ Moves(d, [Found(d, s) EXCEPT !.at = NoId])
    BY <1>0, <2>2, MissingMoves, FoundMoves
  <2>7. \A c : Moves(d, c) => Moves(b, c)
    BY <2>2, <2>3, <2>5 DEF Moves, Keeps
  <2>8. Moves(b, e)
    BY <2>3, <2>5, FieldsMove
  <2>9. PICK c : Go(p, c) /\ Moves(b, c)
    BY <2>4, <2>6, <2>7, <2>8
  <2> QED
    BY <1>4, <2>9, LocalLife DEF Get, Moves, b
<1>5. CASE Purge(p)
  <2>1. b.pc = "purge" /\ Go(p, Missing(b)) /\ session' = [session EXCEPT ![b.at].end = 0]
    BY <1>5 DEF Purge, At, b
  <2>2. \A r \in SessionId : session'[r].createdAt = session[r].createdAt
    BY <1>0, <2>1 DEF TypeOK
  <2>3. Moves(b, Missing(b))
    BY <1>0, <2>1, MissingMoves
  <2> QED
    BY <1>5, <2>1, <2>2, <2>3, LocalLife DEF Purge, Moves, b
<1> QED
  BY <1>2, <1>3, <1>4, <1>5

LEMMA ListLife ==
  ASSUME LifeInv, TypeInv', NEW p \in Proc, ListRange(p) \/ ListRem(p)
  PROVE  LifeInv'
<1> DEFINE b == call[p]
<1>0. b \in Call /\ b.pc \in {"listRange", "listRem"} /\ b.kind = "list"
  <2>1. b \in Call /\ CallOK(b) /\ b.pc \in {"listRange", "listRem"}
    BY Here DEF LifeInv, ListRange, ListRem, At
  <2> QED
    BY <2>1 DEF CallOK, PcFits
<1>1. \A left : Moves(b, NextListed(b, left))
  BY <1>0, NextListedMoves
<1> HIDE DEF b
<1>2. CASE ListRange(p)
  <2>1. PICK c : Go(p, c) /\ Moves(b, c)
    BY <1>1, <1>2 DEF ListRange, b
  <2> QED
    BY <1>2, <2>1, LocalLife DEF ListRange, Moves, b
<1>3. CASE ListRem(p)
  <2>1. PICK c : Go(p, c) /\ Moves(b, c)
    BY <1>1, <1>3 DEF ListRem, b
  <2>2. SetIndex(Index \ {b.at}) /\ Index \ {b.at} \subseteq Index
        /\ UNCHANGED <<now, session, used, issued>>
    BY <1>3 DEF ListRem, b
  <2> QED
    BY <2>1, <2>2, LocalLife DEF Moves, b
<1> QED
  BY <1>2, <1>3

LEMMA AllLife ==
  ASSUME LifeInv, TypeInv', NEW p \in Proc, AllRange(p) \/ AllDel(p) \/ AllClear(p)
  PROVE  LifeInv'
<1> DEFINE b == call[p]
<1>0. /\ TypeOK /\ b \in Call /\ b.todo \in SUBSET SessionId
      /\ b.pc \in {"allRange", "allDel", "allClear"} /\ b.kind \in {"reset", "password"}
  <2>1. /\ TypeOK /\ b \in Call /\ b.todo \in SUBSET SessionId /\ CallOK(b)
        /\ b.pc \in {"allRange", "allDel", "allClear"}
    BY Here DEF LifeInv, AllRange, AllDel, AllClear, At
  <2>2. b.kind \in {"reset", "password"}
    BY <2>1 DEF CallOK, PcFits
  <2> QED
    BY <2>1, <2>2
<1>1. b.pc \in {"allRange", "allDel"} => \A left : Moves(b, AllNext(b, left))
  BY <1>0, AllNextMoves
<1> HIDE DEF b
<1>2. CASE AllRange(p)
  <2>1. PICK c : Go(p, c) /\ Moves(b, c)
    BY <1>1, <1>2 DEF AllRange, At, b
  <2> QED
    BY <1>2, <2>1, LocalLife DEF AllRange, Moves, b
<1>3. CASE AllDel(p)
  <2>1. PICK s \in b.todo : /\ session' = [session EXCEPT ![s].end = 0]
                            /\ Go(p, AllNext(b, b.todo \ {s}))
    BY <1>3 DEF AllDel, b
  <2>2. Moves(b, AllNext(b, b.todo \ {s}))
    BY <1>1, <1>3 DEF AllDel, At, b
  <2>3. s \in SessionId
    BY <1>0
  <2>4. \A r \in SessionId : session'[r].createdAt = session[r].createdAt
    BY <1>0, <2>1, <2>3, CreatedKept
  <2> QED
    BY <1>3, <2>1, <2>2, <2>4, LocalLife DEF AllDel, Moves, b
<1>4. CASE AllClear(p)
  <2> DEFINE d == [b EXCEPT !.pc = "get", !.sub = "keep"]
  <2>1. d.kind = b.kind /\ d.new = b.new /\ d.cur = b.cur /\ d.t = b.t /\ d.pc = "get"
    BY <1>0 DEF Call
  <2>2. Go(p, d) \/ Go(p, Idle)
    BY <1>4 DEF AllClear, b
  <2> HIDE DEF d
  <2>3. Moves(b, d) /\ Moves(b, Idle)
    BY <1>0, <2>1, FieldsMove, IdleMoves
  <2>4. PICK c : Go(p, c) /\ Moves(b, c)
    BY <2>2, <2>3
  <2>5. SetIndex({}) /\ {} \subseteq Index /\ UNCHANGED <<now, session, used, issued>>
    BY <1>4 DEF AllClear
  <2> QED
    BY <2>4, <2>5, LocalLife DEF Moves, b
<1> QED
  BY <1>2, <1>3, <1>4

LEMMA KeepLife ==
  ASSUME LifeInv, TypeInv', NEW p \in Proc,
         KeepAdd(p) \/ Copy(p) \/ CopyRem(p) \/ CopyAdd(p) \/ CopyDel(p)
  PROVE  LifeInv'
<1> DEFINE b == call[p]
<1>0. /\ TypeInv /\ TypeOK /\ b \in Call /\ b.kind = "password"
      /\ b.cur \in SessionId /\ b.new \in SessionId /\ b.cur \in issued /\ Creates(b)
  <2>1. /\ TypeInv /\ TypeOK /\ b \in Call /\ CallOK(b)
        /\ b.pc \in {"keepAdd", "copy", "copyRem", "copyAdd", "copyDel"}
    BY Here DEF LifeInv, KeepAdd, Copy, CopyRem, CopyAdd, CopyDel, At
  <2>2. b.kind = "password"
    BY <2>1 DEF CallOK, PcFits
  <2>3. b.cur \in SessionId /\ b.new \in SessionId
    BY <2>1, <2>2 DEF CallOK, AuthKinds
  <2>4. b.cur \in issued
    BY <2>2 DEF LifeInv, Fresh, AuthKinds
  <2> QED
    BY <2>1, <2>2, <2>3, <2>4 DEF Creates
<1> HIDE DEF b
<1>1. CASE KeepAdd(p)
  <2> DEFINE c == [b EXCEPT !.pc = "get", !.sub = "regen"]
  <2>1. c.kind = b.kind /\ c.new = b.new /\ c.cur = b.cur /\ c.t = b.t /\ c.pc = "get"
    BY <1>0 DEF Call
  <2>2. Go(p, c) /\ b.pc = "keepAdd"
    BY <1>1 DEF KeepAdd, At, b
  <2> HIDE DEF c
  <2>3. Moves(b, c)
    BY <2>1, <2>2, FieldsMove
  <2>4. UNCHANGED <<now, session, used, issued>> /\ SetIndex(Index \cup {b.cur})
    BY <1>1 DEF KeepAdd, b
  <2> QED
    BY <1>0, <2>2, <2>3, <2>4, OneLife DEF Moves, b
<1>2. CASE Copy(p)
  <2> DEFINE c == [b EXCEPT !.pc = "copyRem", !.n = 0, !.t = 0]
  <2>1. c.kind = b.kind /\ c.new = b.new /\ c.cur = b.cur /\ c.pc = "copyRem"
    BY <1>0 DEF Call
  <2>2. Go(p, c) /\ b.pc = "copy"
    BY <1>2 DEF Copy, At, b
  <2> HIDE DEF c
  <2>3. Keeps(b, c) /\ Unlisted(b)
    BY <1>0, <2>1, <2>2 DEF Keeps, Unlisted
  <2>4. /\ \A s \in SessionId \ {b.new} : session'[s].createdAt = session[s].createdAt
        /\ session'[b.new].createdAt = session[b.cur].createdAt
    BY <1>0, <1>2 DEF Copy, TypeOK, b
  <2>5. session[b.cur].createdAt <= now
    BY <1>0 DEF LifeInv, Clocked
  <2> QED
    BY <1>0, <1>2, <2>2, <2>3, <2>4, <2>5, WrittenLife DEF Copy, b
<1>3. CASE CopyRem(p)
  <2> DEFINE c == [b EXCEPT !.pc = "copyAdd"]
  <2>1. c.kind = b.kind /\ c.new = b.new /\ c.cur = b.cur /\ c.t = b.t /\ c.pc = "copyAdd"
    BY <1>0 DEF Call
  <2>2. Go(p, c) /\ b.pc = "copyRem"
    BY <1>3 DEF CopyRem, At, b
  <2> HIDE DEF c
  <2>3. Keeps(b, c)
    BY <2>1, <2>2 DEF Keeps
  <2>4. SetIndex(Index \ {b.cur}) /\ Index \ {b.cur} \subseteq Index
        /\ UNCHANGED <<now, session, used, issued>>
    BY <1>3 DEF CopyRem, b
  <2> QED
    BY <2>2, <2>3, <2>4, LocalLife DEF b
<1>4. CASE CopyAdd(p)
  <2> DEFINE c == [b EXCEPT !.pc = "copyDel"]
  <2>1. c.kind = b.kind /\ c.new = b.new /\ c.cur = b.cur /\ c.t = b.t /\ c.pc = "copyDel"
    BY <1>0 DEF Call
  <2>2. Go(p, c) /\ b.pc = "copyAdd"
    BY <1>4 DEF CopyAdd, At, b
  <2> HIDE DEF c
  <2>3. Moves(b, c) /\ ~Unlisted(c)
    BY <1>0, <2>1, <2>2, FieldsMove DEF Unlisted
  <2>4. UNCHANGED <<now, session, used, issued>> /\ SetIndex(Index \cup {b.new})
    BY <1>4 DEF CopyAdd, b
  <2>5. session[b.cur].createdAt = session[b.new].createdAt
    BY <2>2 DEF LifeInv, Copied, b
  <2> QED
    BY <1>0, <2>2, <2>3, <2>4, <2>5, OneLife DEF Moves, b
<1>5. CASE CopyDel(p)
  <2>1. Go(p, Idle) /\ b.pc = "copyDel" /\ session' = [session EXCEPT ![b.cur].end = 0]
    BY <1>5 DEF CopyDel, At, b
  <2>2. \A r \in SessionId : session'[r].createdAt = session[r].createdAt
    BY <1>0, <2>1, CreatedKept
  <2>3. Moves(b, Idle)
    BY <2>1, IdleMoves
  <2> QED
    BY <1>5, <2>1, <2>2, <2>3, LocalLife DEF CopyDel, Moves, b
<1> QED
  BY <1>1, <1>2, <1>3, <1>4, <1>5

\* A request that dies before its EXPIRE is the exception of Listed.
LEMMA FailLife ==
  ASSUME LifeInv, TypeInv', NEW p \in Proc, Fail(p)
  PROVE  LifeInv'
<1>1. Keeps(call[p], Idle) /\ Idle.pc \notin {"copyRem", "copyAdd"}
  BY IdleKept DEF Keeps, Fail
<1> QED
  BY <1>1, LocalLife DEF Fail

\* Time only takes from the index.
LEMMA TickLife ==
  ASSUME LifeInv, TypeInv', Tick
  PROVE  LifeInv'
<1>1. /\ TypeOK /\ TypeOK' /\ Clocked /\ Fresh /\ Copied /\ Listed /\ Lasting
      /\ now < MaxTime /\ now' = now + 1
      /\ UNCHANGED <<session, index, indexEnd, used, issued, call>>
  BY DEF LifeInv, TypeInv, Tick
<1>2. /\ now \in Nat /\ MaxTime \in Nat /\ indexEnd \in Nat
      /\ \A s \in SessionId : session[s].createdAt \in Nat
      /\ \A p \in Proc : call[p].t \in Nat
  BY <1>1, Numbers
<1>3. Clocked'
  <2>1. now' <= MaxTime
    BY <1>1, <1>2
  <2>2. \A s \in SessionId : session[s].createdAt <= now + 1
    BY <1>1, <1>2 DEF Clocked
  <2>3. \A p \in Proc : call[p].kind = "login" => call[p].t <= now + 1
    BY <1>1, <1>2 DEF Clocked
  <2> QED
    BY <1>1, <2>1, <2>2, <2>3 DEF Clocked
<1>4. Fresh' /\ Copied' /\ Listed'
  BY <1>1 DEF Fresh, Copied, Listed, At
<1>5. Lasting'
  <2>1. Index' # {} => Index # {}
    BY <1>1, <1>2 DEF Index
  <2> QED
    BY <1>1, <2>1 DEF Lasting, ExpiresAt
<1> QED
  BY <1>3, <1>4, <1>5 DEF LifeInv

LEMMA InitLife == Init => LifeInv
<1> SUFFICES ASSUME Init PROVE LifeInv
  OBVIOUS
<1>1. TypeInv
  BY InitType
<1>2. \A p \in Proc : call[p] = Idle
  BY DEF Init
<1>3. Clocked
  BY <1>2, IdleKept, NumberAssumption DEF Init, Clocked
<1>4. Fresh
  BY <1>2, IdleKept DEF Init, Fresh
<1>5. Copied
  BY <1>2, IdleKept DEF Copied
<1>6. Listed /\ Lasting
  BY DEF Init, Listed, Lasting, Index
<1> QED
  BY <1>1, <1>3, <1>4, <1>5, <1>6 DEF LifeInv

LEMMA NextLife == LifeInv /\ [Next]_vars => LifeInv'
<1> SUFFICES ASSUME LifeInv, [Next]_vars PROVE LifeInv'
  OBVIOUS
<1>0. TypeInv'
  BY NextType DEF LifeInv
<1>1. CASE Tick
  BY <1>0, <1>1, TickLife
<1>2. ASSUME NEW p \in Proc, Start(p) PROVE LifeInv'
  BY <1>0, <1>2, StartLife
<1>3. ASSUME NEW p \in Proc, Step(p) PROVE LifeInv'
  BY <1>0, <1>3, LoginLife, ExtendLife, RevokeLife, ReadLife, ListLife, AllLife, KeepLife DEF Step
<1>4. ASSUME NEW p \in Proc, Fail(p) PROVE LifeInv'
  BY <1>0, <1>4, FailLife
<1>5. CASE UNCHANGED vars
  BY <1>0, <1>5, SameIndex DEF vars, LifeInv, Clocked, Fresh, Copied, Listed, Lasting, At, ExpiresAt
<1> QED
  BY <1>1, <1>2, <1>3, <1>4, <1>5 DEF Next

\* The EXPIRE of createSession is enough for every session the index lists:
\* the key of the index never dies before a session that is still valid, except
\* one whose login is about to extend it, or died before it could, whatever
\* the requests that revoke, copy, list and delete in between.
THEOREM Outlives == Spec => []IndexOutlivesSessions
<1>1. LifeInv => IndexOutlivesSessions
  <2> SUFFICES ASSUME LifeInv, NEW s \in Index \cap Live
               PROVE  \/ \E p \in Proc : At(p, "expire") /\ call[p].new = s
                      \/ CanFail /\ \A o \in issued : session[o].createdAt # session[s].createdAt
                      \/ indexEnd >= ExpiresAt(s)
    BY DEF IndexOutlivesSessions
  <2>1. \/ \E p \in Proc : At(p, "expire") /\ call[p].new = s
        \/ \E o \in issued : session[o].createdAt = session[s].createdAt
        \/ CanFail
    BY DEF LifeInv, Listed, Index
  <2>2. ASSUME NEW o \in issued, session[o].createdAt = session[s].createdAt
        PROVE  indexEnd >= ExpiresAt(s)
    BY <2>2 DEF LifeInv, Lasting, ExpiresAt
  <2> QED
    BY <2>1, <2>2
<1> QED
  BY <1>1, InitLife, NextLife, PTL DEF Spec

-----------------------------------------------------------------------------
(* Requests come nearer to their end.                                      *)

LoopInv == TypeInv /\ LoopsGoOn

\* What a step makes of a request's locals: nearer to the end, and only a
\* session found alive is about to be written back.
Onward(b, c) == Nearer(b, c) /\ LoopOK(c) /\ (c.pc = "touch" => b.pc = "ttl")

LEMMA Places ==
  ASSUME NEW c
  PROVE  /\ c.pc = "idle" => Place(c) = 0
         /\ c.pc = "listRem" => Place(c) = 1
         /\ c.pc = "listRange" => Place(c) = 2
         /\ c.pc = "expire" => Place(c) = 3
         /\ c.pc = "zadd" => Place(c) = 4
         /\ c.pc = "setex" => Place(c) = 5
         /\ c.pc \in {"revDel", "revRem"} => Place(c) = 6
         /\ c.pc = "zrange" => Place(c) = 7
         /\ c.pc = "zcard" => Place(c) = 8
         /\ c.pc = "copyDel" => Place(c) = 9
         /\ c.pc = "copyAdd" => Place(c) = 10
         /\ c.pc = "copyRem" => Place(c) = 11
         /\ c.pc = "copy" => Place(c) = 12
         /\ c.pc = "keepAdd" => Place(c) = 14
         /\ c.pc = "allClear" => Place(c) = 16
         /\ c.pc = "allDel" => Place(c) = 17
         /\ c.pc = "allRange" => Place(c) = 18
         /\ c.pc = "touch" => Place(c) = 19
         /\ c.pc = "ttl" => Place(c) = 20
  BY DEF Place, Getting

LEMMA GettingPlaces ==
  ASSUME NEW c, c.pc \in {"get", "purge"}
  PROVE  /\ c.sub = "list" => Place(c) = 1
         /\ c.sub = "regen" => Place(c) = 13
         /\ c.sub = "keep" => Place(c) = 15
         /\ c.sub \in {"auth", "none"} => Place(c) = 21
  BY DEF Place, Getting

LEMMA PlaceType ==
  ASSUME NEW c \in Call
  PROVE  Place(c) \in 0..21 /\ (c.pc # "idle" => Place(c) # 0)
<1>1. c.pc \in Commands /\ c.sub \in Callers
  BY DEF Call
<1>2. CASE c.pc \in {"get", "purge"}
  BY <1>1, <1>2, GettingPlaces DEF Callers
<1>3. CASE c.pc \notin {"get", "purge"}
  BY <1>1, <1>3, Places DEF Commands
<1> QED
  BY <1>2, <1>3

LEMMA IdleLoop == LoopOK(Idle) /\ Place(Idle) = 0 /\ Idle.pc = "idle"
<1>1. IsFiniteSet(Idle.todo)
  BY FS_EmptySet DEF Idle
<1>2. Idle.pc = "idle"
  BY DEF Idle
<1> QED
  BY <1>1, <1>2, Places DEF LoopOK, Idle

LEMMA IdleOnward ==
  ASSUME NEW b \in Call, b.pc # "idle"
  PROVE  Onward(b, Idle)
<1>1. Place(b) \in 0..21 /\ Place(b) # 0
  BY PlaceType
<1> QED
  BY <1>1, IdleLoop DEF Onward, Nearer

\* A command that leaves the loop's list alone, and is no loop's.
LEMMA PassOnward ==
  ASSUME NEW b, NEW c, Place(c) < Place(b), LoopOK(b), c.todo = b.todo, c.kind = b.kind,
         c.pc \notin {"revDel", "revRem", "listRem", "allDel", "purge"},
         c.pc = "get" => c.sub # "list",
         c.pc = "touch" => b.pc = "ttl"
  PROVE  Onward(b, c)
  BY DEF Onward, Nearer, LoopOK

LEMMA HandlerOnward ==
  ASSUME NEW b \in Call, LoopOK(b), b.kind \in AuthKinds, b.pc \in {"ttl", "touch"}
  PROVE  Onward(b, Handler(b))
<1> DEFINE h == [b EXCEPT !.sub = "none", !.n = 0, !.t = 0]
           d(x) == [h EXCEPT !.pc = x]
<1>1. \A x \in Commands : d(x).pc = x /\ d(x).kind = b.kind /\ d(x).todo = b.todo
  BY DEF Call
<1>2. /\ b.kind \in {"logout", "delete"} => Handler(b) = d("revDel")
      /\ b.kind = "list" => Handler(b) = d("listRange")
      /\ b.kind = "password" => Handler(b) = d("allRange")
      /\ b.kind = "read" => Handler(b) = Idle
  BY DEF Handler
<1>3. Place(b) \in {19, 20}
  BY Places
<1> HIDE DEF d
<1>4. CASE b.kind \in {"logout", "delete"}
  <2>1. d("revDel").pc = "revDel" /\ d("revDel").kind = b.kind /\ d("revDel").todo = b.todo
    BY <1>1 DEF Commands
  <2>2. Place(d("revDel")) = 6
    BY <2>1, Places
  <2>3. LoopOK(d("revDel"))
    BY <1>4, <2>1 DEF LoopOK
  <2> QED
    BY <1>2, <1>3, <1>4, <2>1, <2>2, <2>3 DEF Onward, Nearer
<1>5. CASE b.kind = "list"
  <2>1. d("listRange").pc = "listRange" /\ d("listRange").kind = b.kind /\ d("listRange").todo = b.todo
    BY <1>1 DEF Commands
  <2>2. Place(d("listRange")) < Place(b)
    BY <1>3, <2>1, Places
  <2> QED
    BY <1>2, <1>5, <2>1, <2>2, PassOnward
<1>6. CASE b.kind = "password"
  <2>1. d("allRange").pc = "allRange" /\ d("allRange").kind = b.kind /\ d("allRange").todo = b.todo
    BY <1>1 DEF Commands
  <2>2. Place(d("allRange")) < Place(b)
    BY <1>3, <2>1, Places
  <2> QED
    BY <1>2, <1>6, <2>1, <2>2, PassOnward
<1>7. CASE b.kind = "read"
  BY <1>2, <1>7, IdleOnward
<1> QED
  BY <1>4, <1>5, <1>6, <1>7 DEF AuthKinds

\* The loop of getUserSessions goes on with fewer ids.
LEMMA NextListedOnward ==
  ASSUME NEW b \in Call, LoopOK(b), b.kind = "list",
         b.pc = "listRem" \/ (b.pc = "get" /\ b.sub = "list"), NEW s \in b.todo
  PROVE  /\ Onward(b, NextListed(b, b.todo \ {s}))
         /\ Onward(b, [NextListed(b, b.todo \ {s}) EXCEPT !.at = NoId])
<1> DEFINE left == b.todo \ {s}
           d == [b EXCEPT !.pc = "get", !.sub = "list", !.todo = left, !.at = NoId]
           e == [d EXCEPT !.at = NoId]
<1>1. /\ d.pc = "get" /\ d.sub = "list" /\ d.todo = left /\ d.kind = b.kind
      /\ e.pc = "get" /\ e.sub = "list" /\ e.todo = left /\ e.kind = b.kind
  BY DEF Call
<1>2. [Idle EXCEPT !.at = NoId] = Idle
  BY DEF Idle
<1>3. NextListed(b, left) = IF left = {} THEN Idle ELSE d
  BY DEF NextListed
<1>4. CASE left = {}
  BY <1>2, <1>3, <1>4, IdleOnward
<1>5. CASE left # {}
  <2> HIDE DEF d
  <2>1. IsFiniteSet(left)
    BY FS_Subset DEF LoopOK
  <2>2. ASSUME NEW c, c.pc = "get", c.sub = "list", c.todo = left, c.kind = b.kind
        PROVE  Onward(b, c)
    <3>1. Place(c) = 1 /\ Place(b) = 1
      BY <2>2, Places, GettingPlaces
    <3>2. LoopOK(c)
      BY <1>5, <2>1, <2>2 DEF LoopOK
    <3> QED
      BY <2>2, <3>1, <3>2 DEF Onward, Nearer
  <2>3. [NextListed(b, left) EXCEPT !.at = NoId] = e /\ NextListed(b, left) = d
    BY <1>3, <1>5
  <2> HIDE DEF e
  <2>4. Onward(b, d) /\ Onward(b, e)
    BY <1>1, <2>2
  <2> QED
    BY <2>3, <2>4
<1> QED
  BY <1>4, <1>5

\* A session that is not there: its round is over, or the caller goes on.
LEMMA MissingOnward ==
  ASSUME NEW b \in Call, CallOK(b), LoopOK(b), b.pc \in {"get", "purge"},
         b.sub = "list" => b.at \in b.todo
  PROVE  Onward(b, Missing(b))
<1> DEFINE d == [b EXCEPT !.pc = "listRem"]
           e == [b EXCEPT !.pc = "get", !.sub = "regen", !.at = NoId]
<1>1. /\ d.pc = "listRem" /\ d.kind = b.kind /\ d.todo = b.todo /\ d.at = b.at
      /\ e.pc = "get" /\ e.sub = "regen" /\ e.kind = b.kind /\ e.todo = b.todo
  BY DEF Call
<1>2. Missing(b) = CASE b.sub = "list" -> d [] b.sub = "keep" -> e [] OTHER -> Idle
  BY DEF Missing
<1> HIDE DEF d, e
<1>3. CASE b.sub = "list"
  <2>1. Place(b) = 1 /\ Place(d) = 1
    BY <1>1, <1>3, Places, GettingPlaces
  <2>2. LoopOK(d)
    BY <1>1, <1>3 DEF LoopOK
  <2>3. Turn(d.pc) < Turn(b.pc)
    BY <1>1 DEF Turn
  <2> QED
    BY <1>1, <1>2, <1>3, <2>1, <2>2, <2>3 DEF Onward, Nearer
<1>4. CASE b.sub = "keep"
  <2>1. Place(b) = 15 /\ Place(e) = 13
    BY <1>1, <1>4, GettingPlaces
  <2> QED
    BY <1>1, <1>2, <1>4, <2>1, PassOnward
<1>5. CASE b.sub \notin {"list", "keep"}
  BY <1>2, <1>5, IdleOnward
<1> QED
  BY <1>3, <1>4, <1>5

LEMMA FoundOnward ==
  ASSUME NEW b \in Call, CallOK(b), LoopOK(b), b.pc = "get", NEW s,
         b.sub = "list" => s \in b.todo
  PROVE  Onward(b, [Found(b, s) EXCEPT !.at = NoId])
<1> DEFINE a == [[b EXCEPT !.pc = "ttl", !.t = now] EXCEPT !.at = NoId]
           k == [[b EXCEPT !.pc = "keepAdd", !.sub = "none"] EXCEPT !.at = NoId]
           d == [[b EXCEPT !.pc = "copy", !.sub = "none", !.n = ExpiresAt(s) - now,
                           !.t = session[s].lastActivityAt] EXCEPT !.at = NoId]
<1>1. a.pc = "ttl" /\ a.kind = b.kind /\ a.todo = b.todo
  BY DEF Call
<1>2. k.pc = "keepAdd" /\ k.kind = b.kind /\ k.todo = b.todo
  BY DEF Call
<1>3. d.pc = "copy" /\ d.kind = b.kind /\ d.todo = b.todo
  BY DEF Call
<1>4. [Idle EXCEPT !.at = NoId] = Idle
  BY DEF Idle
<1>5. /\ b.sub = "auth" => [Found(b, s) EXCEPT !.at = NoId] = a
      /\ b.sub = "keep" => [Found(b, s) EXCEPT !.at = NoId] = k
      /\ b.sub = "regen" => [Found(b, s) EXCEPT !.at = NoId] \in {d, Idle}
      /\ b.sub = "list" => Found(b, s) = NextListed(b, b.todo \ {s})
  BY <1>4 DEF Found
<1> HIDE DEF a, k, d
<1>6. CASE b.sub = "auth"
  <2>1. Place(a) < Place(b)
    BY <1>1, <1>6, Places, GettingPlaces
  <2> QED
    BY <1>1, <1>5, <1>6, <2>1, PassOnward
<1>7. CASE b.sub = "keep"
  <2>1. Place(k) < Place(b)
    BY <1>2, <1>7, Places, GettingPlaces
  <2> QED
    BY <1>2, <1>5, <1>7, <2>1, PassOnward
<1>8. CASE b.sub = "regen"
  <2>1. Place(d) < Place(b)
    BY <1>3, <1>8, Places, GettingPlaces
  <2>2. Onward(b, d) /\ Onward(b, Idle)
    BY <1>3, <2>1, PassOnward, IdleOnward
  <2> QED
    BY <1>5, <1>8, <2>2
<1>9. CASE b.sub = "list"
  <2>1. b.kind = "list"
    BY <1>9 DEF CallOK, PcFits
  <2> QED
    BY <1>5, <1>9, <2>1, NextListedOnward
<1>10. b.sub \in {"auth", "list", "keep", "regen"}
  BY DEF Call, Callers, CallOK, PcFits
<1> QED
  BY <1>6, <1>7, <1>8, <1>9, <1>10

\* The place of a command does not depend on the id it names.
LEMMA SamePlace ==
  ASSUME NEW b, NEW d, d.pc = b.pc, d.sub = b.sub, d.todo = b.todo
  PROVE  Place(d) = Place(b) /\ \A c : Onward(d, c) => Onward(b, c)
<1>1. Place(d) = Place(b)
  BY DEF Place, Getting
<1> QED
  BY <1>1 DEF Onward, Nearer

LEMMA LoginOnward ==
  ASSUME LoopInv, NEW p \in Proc,
         CountSessions(p) \/ PickVictims(p) \/ StoreSession(p) \/ IndexSession(p) \/ ExtendIndex(p)
  PROVE  \E c : Go(p, c) /\ Onward(call[p], c)
<1> DEFINE b == call[p]
<1>0. TypeInv /\ b \in Call /\ LoopOK(b)
  BY Here DEF LoopInv, LoopsGoOn
<1>1. CASE CountSessions(p)
  <2> DEFINE d == [b EXCEPT !.pc = "zrange", !.n = Cardinality(Index) - MaxConcurrent + 1]
             e == [b EXCEPT !.pc = "setex"]
  <2>1. d.pc = "zrange" /\ d.kind = b.kind /\ d.todo = b.todo
    BY <1>0 DEF Call
  <2>2. e.pc = "setex" /\ e.kind = b.kind /\ e.todo = b.todo
    BY <1>0 DEF Call
  <2>3. b.pc = "zcard" /\ (Go(p, d) \/ Go(p, e))
    BY <1>1 DEF CountSessions, At
  <2> HIDE DEF b, d, e
  <2>4. Place(b) = 8 /\ Place(d) = 7 /\ Place(e) = 5
    BY <2>1, <2>2, <2>3, Places
  <2>5. Onward(b, d) /\ Onward(b, e)
    BY <1>0, <2>1, <2>2, <2>4, PassOnward
  <2> QED
    BY <2>3, <2>5 DEF b
<1>2. CASE PickVictims(p)
  <2>1. PICK S \in SUBSET Index :
           Go(p, [b EXCEPT !.pc = IF S = {} THEN "setex" ELSE "revDel", !.todo = S, !.n = 0])
    BY <1>2 DEF PickVictims
  <2> DEFINE x == IF S = {} THEN "setex" ELSE "revDel"
             d == [b EXCEPT !.pc = x, !.todo = S, !.n = 0]
  <2>2. d.pc = x /\ d.kind = b.kind /\ d.todo = S
    BY <1>0 DEF Call
  <2>3. b.pc = "zrange" /\ b.kind = "login"
    BY <1>0, <1>2, Here DEF PickVictims, At, CallOK, PcFits
  <2>4. IsFiniteSet(S)
    BY <1>0, IndexType, FS_Subset
  <2>5. Go(p, d)
    BY <2>1
  <2> HIDE DEF b, d
  <2>6. Place(b) = 7 /\ Place(d) \in {5, 6}
    BY <2>2, <2>3, Places
  <2>7. LoopOK(d) /\ d.pc # "touch"
    BY <2>2, <2>3, <2>4 DEF LoopOK
  <2>8. Onward(b, d)
    BY <2>6, <2>7 DEF Onward, Nearer
  <2> QED
    BY <2>5, <2>8 DEF b
<1>3. CASE StoreSession(p)
  <2> DEFINE d == [b EXCEPT !.pc = "zadd"]
  <2>1. d.pc = "zadd" /\ d.kind = b.kind /\ d.todo = b.todo
    BY <1>0 DEF Call
  <2>2. b.pc = "setex" /\ Go(p, d)
    BY <1>3 DEF StoreSession, At
  <2> HIDE DEF b, d
  <2>3. Place(d) < Place(b)
    BY <2>1, <2>2, Places
  <2> QED
    BY <1>0, <2>1, <2>2, <2>3, PassOnward DEF b
<1>4. CASE IndexSession(p)
  <2> DEFINE d == [b EXCEPT !.pc = "expire"]
  <2>1. d.pc = "expire" /\ d.kind = b.kind /\ d.todo = b.todo
    BY <1>0 DEF Call
  <2>2. b.pc = "zadd" /\ Go(p, d)
    BY <1>4 DEF IndexSession, At
  <2> HIDE DEF b, d
  <2>3. Place(d) < Place(b)
    BY <2>1, <2>2, Places
  <2> QED
    BY <1>0, <2>1, <2>2, <2>3, PassOnward DEF b
<1>5. CASE ExtendIndex(p)
  <2>1. b.pc # "idle" /\ Go(p, Idle)
    BY <1>5 DEF ExtendIndex, At
  <2> QED
    BY <1>0, <2>1, IdleOnward
<1> QED
  BY <1>1, <1>2, <1>3, <1>4, <1>5

LEMMA RevokeOnward ==
  ASSUME LoopInv, NEW p \in Proc, RevokeDel(p) \/ RevokeRem(p)
  PROVE  \E c : Go(p, c) /\ Onward(call[p], c)
<1> DEFINE b == call[p]
<1>0. TypeInv /\ b \in Call /\ LoopOK(b)
  BY Here DEF LoopInv, LoopsGoOn
<1>1. CASE RevokeDel(p)
  <2>1. PICK s \in b.todo : Go(p, [b EXCEPT !.pc = "revRem", !.at = s])
    BY <1>1 DEF RevokeDel
  <2> DEFINE d == [b EXCEPT !.pc = "revRem", !.at = s]
  <2>2. d.pc = "revRem" /\ d.kind = b.kind /\ d.todo = b.todo /\ d.at = s
    BY <1>0 DEF Call
  <2>3. Go(p, d) /\ b.pc = "revDel"
    BY <1>1, <2>1 DEF RevokeDel, At
  <2> HIDE DEF b, d
  <2>4. Place(b) = 6 /\ Place(d) = 6 /\ Turn(d.pc) < Turn(b.pc)
    BY <2>2, <2>3, Places DEF Turn
  <2>5. LoopOK(d)
    BY <1>0, <2>1, <2>2 DEF LoopOK
  <2> QED
    BY <2>2, <2>3, <2>4, <2>5 DEF Onward, Nearer, b
<1>2. CASE RevokeRem(p)
  <2> DEFINE left == b.todo \ {b.at}
             next == [b EXCEPT !.todo = left, !.at = NoId]
             d == [next EXCEPT !.pc = "revDel"]
             e == [next EXCEPT !.pc = "setex"]
  <2>1. /\ d.pc = "revDel" /\ d.kind = b.kind /\ d.todo = left
        /\ e.pc = "setex" /\ e.kind = b.kind /\ e.todo = left
    BY <1>0 DEF Call
  <2>2. /\ b.pc = "revRem"
        /\ left # {} => Go(p, d)
        /\ left = {} => (Go(p, e) /\ b.kind = "login") \/ Go(p, Idle)
    BY <1>2 DEF RevokeRem, At
  <2>3. b.at \in b.todo
    BY <1>0, <2>2 DEF LoopOK
  <2> HIDE DEF b, d, e
  <2>4. IsFiniteSet(left)
    BY <1>0, FS_Subset DEF LoopOK
  <2>5. Place(b) = 6 /\ Place(d) = 6 /\ Place(e) = 5
    BY <2>1, <2>2, Places
  <2>6. left # {} => Onward(b, d)
    <3>1. left # {} => LoopOK(d)
      BY <2>1, <2>4 DEF LoopOK
    <3> QED
      BY <2>1, <2>3, <2>5, <3>1 DEF Onward, Nearer
  <2>7. b.kind = "login" => Onward(b, e)
    <3>1. b.kind = "login" => LoopOK(e)
      BY <2>1, <2>4 DEF LoopOK
    <3> QED
      BY <2>1, <2>5, <3>1 DEF Onward, Nearer
  <2>8. Onward(b, Idle)
    BY <1>0, <2>2, IdleOnward
  <2> QED
    BY <2>2, <2>6, <2>7, <2>8 DEF b
<1> QED
  BY <1>1, <1>2

LEMMA ReadOnward ==
  ASSUME LoopInv, NEW p \in Proc, ReadTtl(p) \/ Touch(p) \/ Get(p) \/ Purge(p)
  PROVE  \E c : Go(p, c) /\ Onward(call[p], c)
<1> DEFINE b == call[p]
<1>0. TypeInv /\ b \in Call /\ CallOK(b) /\ LoopOK(b)
  BY Here DEF LoopInv, LoopsGoOn
<1>1. CASE ReadTtl(p)
  <2> DEFINE d == [b EXCEPT !.pc = "touch", !.n = session[b.cur].end - now]
  <2>1. d.pc = "touch" /\ d.kind = b.kind /\ d.todo = b.todo
    BY <1>0 DEF Call
  <2>2. b.pc = "ttl" /\ (Go(p, d) \/ Go(p, Handler(b)))
    BY <1>1 DEF ReadTtl, At
  <2>3. b.kind \in AuthKinds
    BY <1>0, <2>2 DEF CallOK, PcFits
  <2> HIDE DEF b, d
  <2>4. Place(d) < Place(b)
    BY <2>1, <2>2, Places
  <2>5. Onward(b, d)
    BY <1>0, <2>1, <2>2, <2>4, PassOnward
  <2>6. Onward(b, Handler(b))
    BY <1>0, <2>2, <2>3, HandlerOnward
  <2> QED
    BY <2>2, <2>5, <2>6 DEF b
<1>2. CASE Touch(p)
  <2>1. b.pc = "touch" /\ Go(p, Handler(b))
    BY <1>2 DEF Touch, At
  <2>2. b.kind \in AuthKinds
    BY <1>0, <2>1 DEF CallOK, PcFits
  <2> QED
    BY <1>0, <2>1, <2>2, HandlerOnward
<1>3. CASE Get(p)
  <2>1. PICK s \in SessionId :
          /\ b.sub = "list" => s \in b.todo
          /\ Go(p, CASE s \notin Live       -> Missing([b EXCEPT !.at = s])
                     [] now > ExpiresAt(s)  -> [[b EXCEPT !.at = s] EXCEPT !.pc = "purge"]
                     [] OTHER               -> [Found([b EXCEPT !.at = s], s) EXCEPT !.at = NoId])
    BY <1>3 DEF Get, IsFirst
  <2> DEFINE d == [b EXCEPT !.at = s]
             e == [d EXCEPT !.pc = "purge"]
  <2>2. b.pc = "get" /\ d \in Call /\ CallOK(d)
    BY <1>0, <1>3, Update, OtherOK DEF Get, At
  <2>3. /\ d.pc = b.pc /\ d.sub = b.sub /\ d.kind = b.kind /\ d.todo = b.todo /\ d.at = s
        /\ e.pc = "purge" /\ e.sub = b.sub /\ e.kind = b.kind /\ e.todo = b.todo /\ e.at = s
    BY <1>0 DEF Call
  <2>4. Go(p, Missing(d)) \/ Go(p, e) \/ Go(p, [Found(d, s) EXCEPT !.at = NoId])
    BY <2>1, Zenon
  <2>5. b.sub = "list" => s \in b.todo
    BY <2>1
  <2> HIDE DEF b, d, e
  <2>6. LoopOK(d)
    BY <1>0, <2>2, <2>3 DEF LoopOK
  <2>7. Onward(d, Missing(d))
    BY <2>2, <2>3, <2>5, <2>6, MissingOnward
  <2>8. Onward(d, [Found(d, s) EXCEPT !.at = NoId])
    BY <2>2, <2>3, <2>5, <2>6, FoundOnward
  <2>9. Onward(b, e)
    <3>1. Place(e) = Place(b)
      BY <2>2, <2>3 DEF Place, Getting
    <3>2. LoopOK(e)
      BY <1>0, <2>3, <2>5 DEF LoopOK
    <3>3. Turn(e.pc) < Turn(b.pc)
      BY <2>2, <2>3 DEF Turn
    <3> QED
      BY <2>3, <3>1, <3>2, <3>3 DEF Onward, Nearer
  <2>10. Onward(b, Missing(d)) /\ Onward(b, [Found(d, s) EXCEPT !.at = NoId])
    BY <2>3, <2>7, <2>8, SamePlace
  <2> QED
    BY <2>4, <2>9, <2>10, Zenon DEF b
<1>4. CASE Purge(p)
  <2>1. b.pc = "purge" /\ Go(p, Missing(b))
    BY <1>4 DEF Purge, At
  <2>2. b.sub = "list" => b.at \in b.todo
    BY <1>0, <2>1 DEF LoopOK
  <2> QED
    BY <1>0, <2>1, <2>2, MissingOnward
<1> QED
  BY <1>1, <1>2, <1>3, <1>4

LEMMA ListOnward ==
  ASSUME LoopInv, NEW p \in Proc, ListRange(p) \/ ListRem(p)
  PROVE  \E c : Go(p, c) /\ Onward(call[p], c)
<1> DEFINE b == call[p]
<1>0. TypeInv /\ b \in Call /\ LoopOK(b) /\ b.kind = "list"
  <2>1. TypeInv /\ b \in Call /\ CallOK(b) /\ LoopOK(b)
    BY Here DEF LoopInv, LoopsGoOn
  <2>2. b.pc \in {"listRange", "listRem"}
    BY DEF ListRange, ListRem, At
  <2> QED
    BY <2>1, <2>2 DEF CallOK, PcFits
<1>1. CASE ListRange(p)
  <2> DEFINE d == [b EXCEPT !.pc = "get", !.sub = "list", !.todo = Index, !.at = NoId]
  <2>1. d.pc = "get" /\ d.sub = "list" /\ d.todo = Index /\ d.kind = b.kind
    BY <1>0 DEF Call
  <2>2. b.pc = "listRange" /\ ((Index # {} /\ Go(p, d)) \/ Go(p, Idle))
    BY <1>1 DEF ListRange, NextListed, At
  <2> HIDE DEF b, d
  <2>3. Place(d) < Place(b)
    BY <2>1, <2>2, Places, GettingPlaces
  <2>4. IsFiniteSet(Index)
    BY <1>0, IndexType
  <2>5. Index # {} => LoopOK(d)
    BY <1>0, <2>1, <2>4 DEF LoopOK
  <2>6. Index # {} => Onward(b, d)
    BY <2>1, <2>3, <2>5 DEF Onward, Nearer
  <2>7. Onward(b, Idle)
    BY <1>0, <2>2, IdleOnward
  <2> QED
    BY <2>2, <2>6, <2>7 DEF b
<1>2. CASE ListRem(p)
  <2>1. b.pc = "listRem" /\ Go(p, NextListed(b, b.todo \ {b.at}))
    BY <1>2 DEF ListRem, At
  <2>2. b.at \in b.todo
    BY <1>0, <2>1 DEF LoopOK
  <2> QED
    BY <1>0, <2>1, <2>2, NextListedOnward
<1> QED
  BY <1>1, <1>2

LEMMA AllOnward ==
  ASSUME LoopInv, NEW p \in Proc, AllRange(p) \/ AllDel(p) \/ AllClear(p)
  PROVE  \E c : Go(p, c) /\ Onward(call[p], c)
<1> DEFINE b == call[p]
<1>0. /\ TypeInv /\ b \in Call /\ LoopOK(b) /\ b.kind \in {"reset", "password"}
      /\ b.pc \in {"allRange", "allDel", "allClear"}
  <2>1. TypeInv /\ b \in Call /\ CallOK(b) /\ LoopOK(b)
    BY Here DEF LoopInv, LoopsGoOn
  <2>2. b.pc \in {"allRange", "allDel", "allClear"}
    BY DEF AllRange, AllDel, AllClear, At
  <2> QED
    BY <2>1, <2>2 DEF CallOK, PcFits
<1>1. ASSUME NEW left, IsFiniteSet(left),
             b.pc = "allRange" \/ (b.pc = "allDel" /\ left \subseteq b.todo /\ left # b.todo)
      PROVE  Onward(b, AllNext(b, left))
  <2> DEFINE x == IF left = {} THEN "allClear" ELSE "allDel"
             d == [b EXCEPT !.pc = x, !.todo = left]
  <2>1. d.pc = x /\ d.kind = b.kind /\ d.todo = left
    BY <1>0 DEF Call
  <2>2. AllNext(b, left) = d
    BY DEF AllNext
  <2> HIDE DEF b, d
  <2>3. /\ b.pc = "allRange" => Place(b) = 18
        /\ b.pc = "allDel" => Place(b) = 17
        /\ x = "allClear" => Place(d) = 16
        /\ x = "allDel" => Place(d) = 17
    BY <2>1, Places
  <2>4. LoopOK(d)
    BY <1>0, <1>1, <2>1 DEF LoopOK
  <2>5. Onward(b, d)
    BY <1>1, <2>1, <2>3, <2>4 DEF Onward, Nearer
  <2> QED
    BY <2>2, <2>5
<1>2. CASE AllRange(p)
  <2>1. b.pc = "allRange" /\ Go(p, AllNext(b, Index \ {b.cur}))
    BY <1>2 DEF AllRange, At
  <2>2. IsFiniteSet(Index \ {b.cur})
    BY <1>0, IndexType, FS_Subset
  <2> QED
    BY <1>1, <2>1, <2>2
<1>3. CASE AllDel(p)
  <2>1. PICK s \in b.todo : Go(p, AllNext(b, b.todo \ {s}))
    BY <1>3 DEF AllDel
  <2>2. b.pc = "allDel"
    BY <1>3 DEF AllDel, At
  <2>3. IsFiniteSet(b.todo \ {s})
    BY <1>0, FS_Subset DEF LoopOK
  <2>4. b.todo \ {s} \subseteq b.todo /\ b.todo \ {s} # b.todo
    OBVIOUS
  <2>5. Onward(b, AllNext(b, b.todo \ {s}))
    BY <1>1, <2>2, <2>3, <2>4
  <2> QED
    BY <2>1, <2>5
<1>4. CASE AllClear(p)
  <2> DEFINE d == [b EXCEPT !.pc = "get", !.sub = "keep"]
  <2>1. d.pc = "get" /\ d.sub = "keep" /\ d.kind = b.kind /\ d.todo = b.todo
    BY <1>0 DEF Call
  <2>2. b.pc = "allClear" /\ (Go(p, d) \/ Go(p, Idle))
    BY <1>4 DEF AllClear, At
  <2> HIDE DEF b, d
  <2>3. Place(d) < Place(b)
    BY <2>1, <2>2, Places, GettingPlaces
  <2>4. Onward(b, d)
    BY <1>0, <2>1, <2>3, PassOnward
  <2>5. Onward(b, Idle)
    BY <1>0, IdleOnward
  <2> QED
    BY <2>2, <2>4, <2>5 DEF b
<1> QED
  BY <1>2, <1>3, <1>4

LEMMA KeepOnward ==
  ASSUME LoopInv, NEW p \in Proc,
         KeepAdd(p) \/ Copy(p) \/ CopyRem(p) \/ CopyAdd(p) \/ CopyDel(p)
  PROVE  \E c : Go(p, c) /\ Onward(call[p], c)
<1> DEFINE b == call[p]
<1>0. b \in Call /\ LoopOK(b)
  BY Here DEF LoopInv, LoopsGoOn
<1>1. CASE KeepAdd(p)
  <2> DEFINE d == [b EXCEPT !.pc = "get", !.sub = "regen"]
  <2>1. d.pc = "get" /\ d.sub = "regen" /\ d.kind = b.kind /\ d.todo = b.todo
    BY <1>0 DEF Call
  <2>2. b.pc = "keepAdd" /\ Go(p, d)
    BY <1>1 DEF KeepAdd, At
  <2> HIDE DEF b, d
  <2>3. Place(d) < Place(b)
    BY <2>1, <2>2, Places, GettingPlaces
  <2> QED
    BY <1>0, <2>1, <2>2, <2>3, PassOnward DEF b
<1>2. CASE Copy(p)
  <2> DEFINE d == [b EXCEPT !.pc = "copyRem", !.n = 0, !.t = 0]
  <2>1. d.pc = "copyRem" /\ d.kind = b.kind /\ d.todo = b.todo
    BY <1>0 DEF Call
  <2>2. b.pc = "copy" /\ Go(p, d)
    BY <1>2 DEF Copy, At
  <2> HIDE DEF b, d
  <2>3. Place(d) < Place(b)
    BY <2>1, <2>2, Places
  <2> QED
    BY <1>0, <2>1, <2>2, <2>3, PassOnward DEF b
<1>3. CASE CopyRem(p)
  <2> DEFINE d == [b EXCEPT !.pc = "copyAdd"]
  <2>1. d.pc = "copyAdd" /\ d.kind = b.kind /\ d.todo = b.todo
    BY <1>0 DEF Call
  <2>2. b.pc = "copyRem" /\ Go(p, d)
    BY <1>3 DEF CopyRem, At
  <2> HIDE DEF b, d
  <2>3. Place(d) < Place(b)
    BY <2>1, <2>2, Places
  <2> QED
    BY <1>0, <2>1, <2>2, <2>3, PassOnward DEF b
<1>4. CASE CopyAdd(p)
  <2> DEFINE d == [b EXCEPT !.pc = "copyDel"]
  <2>1. d.pc = "copyDel" /\ d.kind = b.kind /\ d.todo = b.todo
    BY <1>0 DEF Call
  <2>2. b.pc = "copyAdd" /\ Go(p, d)
    BY <1>4 DEF CopyAdd, At
  <2> HIDE DEF b, d
  <2>3. Place(d) < Place(b)
    BY <2>1, <2>2, Places
  <2> QED
    BY <1>0, <2>1, <2>2, <2>3, PassOnward DEF b
<1>5. CASE CopyDel(p)
  <2>1. b.pc # "idle" /\ Go(p, Idle)
    BY <1>5 DEF CopyDel, At
  <2> QED
    BY <1>0, <2>1, IdleOnward
<1> QED
  BY <1>1, <1>2, <1>3, <1>4, <1>5

LEMMA StartLoop ==
  ASSUME LoopInv, NEW p \in Proc, Start(p)
  PROVE  At(p, "idle") /\ \E c : Go(p, c) /\ LoopOK(c) /\ c.pc # "touch"
<1>1. CASE StartLogin(p)
  <2>1. PICK s \in SessionId :
          Go(p, [Idle EXCEPT !.kind = "login", !.pc = "zcard", !.new = s, !.t = now])
    BY <1>1 DEF StartLogin
  <2> DEFINE d == [Idle EXCEPT !.kind = "login", !.pc = "zcard", !.new = s, !.t = now]
  <2>2. d.pc = "zcard" /\ d.kind = "login" /\ d.todo = {}
    BY DEF Idle
  <2>3. Go(p, d) /\ At(p, "idle")
    BY <1>1, <2>1 DEF StartLogin
  <2> HIDE DEF d
  <2> QED
    BY <2>2, <2>3, FS_EmptySet DEF LoopOK
<1>2. CASE StartReset(p)
  <2> DEFINE d == [Idle EXCEPT !.kind = "reset", !.pc = "allRange"]
  <2>1. d.pc = "allRange" /\ d.kind = "reset" /\ d.todo = {}
    BY DEF Idle
  <2>2. Go(p, d) /\ At(p, "idle")
    BY <1>2 DEF StartReset
  <2> HIDE DEF d
  <2> QED
    BY <2>1, <2>2, FS_EmptySet DEF LoopOK
<1>3. CASE StartAuth(p)
  <2>1. PICK s \in issued, k \in Kinds \cap AuthKinds :
          LET c == [Idle EXCEPT !.kind = k, !.pc = "get", !.sub = "auth", !.cur = s]
          IN  CASE k = "delete" ->
                      /\ \E target \in SessionId : Go(p, [c EXCEPT !.todo = {target}])
                      /\ UNCHANGED used
                [] k = "password" ->
                      \E new \in SessionId \ used :
                          Go(p, [c EXCEPT !.new = new]) /\ used' = used \cup {new}
                [] k = "logout" -> Go(p, [c EXCEPT !.todo = {s}]) /\ UNCHANGED used
                [] OTHER -> Go(p, c) /\ UNCHANGED used
    BY <1>3, Zenon DEF StartAuth
  <2> DEFINE d == [Idle EXCEPT !.kind = k, !.pc = "get", !.sub = "auth", !.cur = s]
  <2>2. /\ d.kind = k /\ d.pc = "get" /\ d.sub = "auth" /\ d.todo = {}
        /\ \A T : /\ [d EXCEPT !.todo = T].kind = k /\ [d EXCEPT !.todo = T].pc = "get"
                  /\ [d EXCEPT !.todo = T].sub = "auth" /\ [d EXCEPT !.todo = T].todo = T
        /\ \A n : /\ [d EXCEPT !.new = n].kind = k /\ [d EXCEPT !.new = n].pc = "get"
                  /\ [d EXCEPT !.new = n].sub = "auth" /\ [d EXCEPT !.new = n].todo = {}
    BY DEF Idle
  <2>3. /\ k = "delete" => \E target \in SessionId : Go(p, [d EXCEPT !.todo = {target}])
        /\ k = "password" => \E new \in SessionId \ used : Go(p, [d EXCEPT !.new = new])
        /\ k = "logout" => Go(p, [d EXCEPT !.todo = {s}])
        /\ k \notin {"delete", "password", "logout"} => Go(p, d)
    BY <2>1
  <2> HIDE DEF d
  <2>4. \E c : /\ Go(p, c) /\ c.kind = k /\ c.pc = "get" /\ c.sub = "auth"
               /\ \/ c.todo = {} /\ k \notin {"delete", "logout"}
                  \/ \E x : c.todo = {x}
    <3>1. CASE k = "delete"
      <4>1. PICK target \in SessionId : Go(p, [d EXCEPT !.todo = {target}])
        BY <2>3, <3>1
      <4> DEFINE c == [d EXCEPT !.todo = {target}]
      <4>2. c.kind = k /\ c.pc = "get" /\ c.sub = "auth" /\ c.todo = {target}
        BY <2>2
      <4> HIDE DEF c
      <4> QED
        BY <4>1, <4>2 DEF c
    <3>2. CASE k = "password"
      <4>1. PICK new \in SessionId \ used : Go(p, [d EXCEPT !.new = new])
        BY <2>3, <3>2
      <4> QED
        BY <2>2, <3>2, <4>1
    <3>3. CASE k = "logout"
      <4> DEFINE c == [d EXCEPT !.todo = {s}]
      <4>1. c.kind = k /\ c.pc = "get" /\ c.sub = "auth" /\ c.todo = {s}
        BY <2>2
      <4>2. Go(p, c)
        BY <2>3, <3>3
      <4> HIDE DEF c
      <4> QED
        BY <4>1, <4>2
    <3>4. CASE k \notin {"delete", "password", "logout"}
      BY <2>2, <2>3, <3>4
    <3> QED
      BY <3>1, <3>2, <3>3, <3>4
  <2>5. PICK c : /\ Go(p, c) /\ c.kind = k /\ c.pc = "get" /\ c.sub = "auth"
                 /\ \/ c.todo = {} /\ k \notin {"delete", "logout"}
                    \/ \E x : c.todo = {x}
    BY <2>4
  <2>6. IsFiniteSet(c.todo) /\ (k \in {"delete", "logout"} => c.todo # {})
    <3>1. c.todo = {} => IsFiniteSet(c.todo)
      BY FS_EmptySet
    <3>2. ASSUME NEW x, c.todo = {x} PROVE IsFiniteSet(c.todo) /\ c.todo # {}
      BY <3>2, FS_Singleton
    <3> QED
      BY <2>5, <3>1, <3>2
  <2>7. LoopOK(c) /\ c.pc # "touch"
    BY <2>5, <2>6 DEF LoopOK
  <2>8. At(p, "idle")
    BY <1>3 DEF StartAuth
  <2> QED
    BY <2>5, <2>7, <2>8, Zenon
<1> QED
  BY <1>1, <1>2, <1>3 DEF Start

LEMMA StepOnward ==
  ASSUME LoopInv, NEW p \in Proc, Step(p)
  PROVE  \E c : Go(p, c) /\ Onward(call[p], c)
  BY LoginOnward, RevokeOnward, ReadOnward, ListOnward, AllOnward, KeepOnward DEF Step

\* Each step moves one request, on or out of the way.
LEMMA NextOnward ==
  ASSUME LoopInv, [Next]_vars
  PROVE  /\ \A p \in Proc : call'[p] = call[p] \/ At(p, "idle") \/ Nearer(call[p], call'[p])
         /\ \A p \in Proc : LoopOK(call'[p])
<1>0. TypeInv /\ \A p \in Proc : call[p] \in Call /\ LoopOK(call[p])
  BY Here DEF LoopInv, LoopsGoOn
<1>1. CASE UNCHANGED call
  BY <1>0, <1>1
<1>2. ASSUME NEW p \in Proc, NEW c, Go(p, c), LoopOK(c), At(p, "idle") \/ Nearer(call[p], c)
      PROVE  /\ \A q \in Proc : call'[q] = call[q] \/ At(q, "idle") \/ Nearer(call[q], call'[q])
             /\ \A q \in Proc : LoopOK(call'[q])
  <2>1. call'[p] = c /\ \A q \in Proc : q # p => call'[q] = call[q]
    BY <1>0, <1>2, CallsAfter
  <2>2. \A q \in Proc : LoopOK(call'[q])
    BY <1>0, <1>2, <2>1
  <2>3. \A q \in Proc : call'[q] = call[q] \/ At(q, "idle") \/ Nearer(call[q], call'[q])
    BY <1>2, <2>1
  <2> QED
    BY <2>2, <2>3
<1>3. CASE Tick
  BY <1>1, <1>3 DEF Tick
<1>4. ASSUME NEW p \in Proc, Start(p)
      PROVE  \E c : Go(p, c) /\ LoopOK(c) /\ (At(p, "idle") \/ Nearer(call[p], c))
  BY <1>4, StartLoop
<1>5. ASSUME NEW p \in Proc, Step(p)
      PROVE  \E c : Go(p, c) /\ LoopOK(c) /\ (At(p, "idle") \/ Nearer(call[p], c))
  BY <1>5, StepOnward DEF Onward
<1>6. ASSUME NEW p \in Proc, Fail(p)
      PROVE  \E c : Go(p, c) /\ LoopOK(c) /\ (At(p, "idle") \/ Nearer(call[p], c))
  <2>1. Go(p, Idle) /\ call[p].pc # "idle"
    BY <1>6 DEF Fail, At
  <2> QED
    BY <1>0, <2>1, IdleOnward DEF Onward
<1>7. CASE UNCHANGED vars
  BY <1>1, <1>7 DEF vars
<1>8. CASE \E p \in Proc : Start(p) \/ Step(p) \/ Fail(p)
  <2>1. PICK p \in Proc : \E c : Go(p, c) /\ LoopOK(c) /\ (At(p, "idle") \/ Nearer(call[p], c))
    BY <1>4, <1>5, <1>6, <1>8
  <2>2. PICK c : Go(p, c) /\ LoopOK(c) /\ (At(p, "idle") \/ Nearer(call[p], c))
    BY <2>1
  <2> QED
    BY <1>2, <2>2
<1> QED
  BY <1>3, <1>7, <1>8 DEF Next

LEMMA InitLoop == Init => LoopInv
  BY InitType, IdleLoop DEF Init, LoopInv, LoopsGoOn

LEMMA NextLoop == LoopInv /\ [Next]_vars => LoopInv'
<1> SUFFICES ASSUME LoopInv, [Next]_vars PROVE LoopInv'
  OBVIOUS
<1>1. TypeInv'
  BY NextType DEF LoopInv
<1>2. \A p \in Proc : LoopOK(call'[p])
  BY NextOnward
<1>3. \A p \in Proc : LoopOK(call[p])'
  BY <1>2 DEF LoopOK
<1> QED
  BY <1>1, <1>3 DEF LoopInv, LoopsGoOn

\* The lists that requests work through are finite, and a loop that goes on has
\* an id to go on with, however the index changed since it was read.
THEOREM Loops == Spec => []LoopsGoOn
<1>1. LoopInv => LoopsGoOn
  BY DEF LoopInv
<1> QED
  BY <1>1, InitLoop, NextLoop, PTL DEF Spec

\* What makes every request end, once its own steps are taken (RequestsEnd):
\* each of them brings it nearer to its end, whatever number of other requests
\* inserts ids into the index and removes them meanwhile, and none of theirs
\* moves it.
THEOREM LeadToEnd == Spec => StepsLeadToEnd
<1>1. LoopInv /\ [Next]_vars =>
        [\A p \in Proc : call'[p] = call[p] \/ At(p, "idle") \/ Nearer(call[p], call'[p])]_vars
  BY NextOnward
<1> QED
  BY <1>1, InitLoop, NextLoop, PTL DEF Spec, StepsLeadToEnd

\* A set of natural numbers that is not empty has a least element.
LEMMA Least ==
  ASSUME NEW S \in SUBSET Nat, S # {}
  PROVE  \E m \in S : \A n \in S : m <= n
<1> DEFINE Less == {ss \in Nat \X Nat : ss[1] < ss[2]}
<1>1. IsWellFoundedOn(Less, Nat)
  BY NatLessThanWellFounded DEF OpToRel
<1>2. PICK m \in S : \A n \in S : <<n, m>> \notin Less
  BY <1>1, WFMin
<1>3. ASSUME NEW n \in S PROVE m <= n
  <2>1. ~(n < m)
    BY <1>2
  <2> QED
    BY <2>1
<1> QED
  BY <1>2, <1>3

\* The locals a request can have (Loops).
Locals == {c \in Call : IsFiniteSet(c.todo)}

\* There is no endless sequence of locals each nearer to the end than the one
\* before: with LeadToEnd, a request takes finitely many steps, however long
\* the lists it reads.
THEOREM NoEndlessRequest ==
  IsWellFoundedOn({bc \in Locals \X Locals : Nearer(bc[2], bc[1])}, Locals)
<1> DEFINE R == {bc \in Locals \X Locals : Nearer(bc[2], bc[1])}
<1>1. ASSUME NEW T \in SUBSET Locals, T # {}
      PROVE  \E x \in T : \A y \in T : <<y, x>> \notin R
  <2>1. \A c \in T : Place(c) \in Nat /\ Turn(c.pc) \in Nat
    BY PlaceType DEF Locals, Turn
  <2>2. PICK least \in T : \A c \in T : Place(least) <= Place(c)
    <3>1. {Place(c) : c \in T} \in SUBSET Nat /\ {Place(c) : c \in T} # {}
      BY <1>1, <2>1
    <3>2. PICK m \in {Place(c) : c \in T} : \A n \in {Place(c) : c \in T} : m <= n
      BY <3>1, Least
    <3> QED
      BY <3>2
  <2> DEFINE First == {c \in T : Place(c) = Place(least)}
  <2>3. PICK short \in First : \A c \in First : ~(c.todo \subseteq short.todo /\ c.todo # short.todo)
    <3> DEFINE Lists == {c.todo : c \in First}
    <3>1. Lists \subseteq FiniteSubsetsOf(SessionId) /\ Lists # {}
      <4>1. \A c \in First : c.todo \in SUBSET SessionId /\ IsFiniteSet(c.todo)
        BY FieldType DEF Locals
      <4>2. least \in First
        OBVIOUS
      <4> HIDE DEF First
      <4> QED
        BY <4>1, <4>2 DEF FiniteSubsetsOf
    <3>2. PICK L \in Lists : \A M \in Lists : <<M, L>> \notin StrictSubsetOrdering(SessionId)
      BY <3>1, FS_StrictSubsetOrderingWellFounded, WFMin
    <3>3. \A M \in Lists : ~(M \subseteq L /\ M # L)
      BY <3>1, <3>2 DEF StrictSubsetOrdering, FiniteSubsetsOf
    <3>4. PICK short \in First : short.todo = L
      BY <3>2
    <3>5. \A c \in First : c.todo \in Lists
      OBVIOUS
    <3> HIDE DEF Lists, First
    <3> QED
      BY <3>3, <3>4, <3>5
  <2> DEFINE Second == {c \in First : c.todo = short.todo}
  <2>4. PICK x \in Second : \A c \in Second : Turn(x.pc) <= Turn(c.pc)
    <3>1. {Turn(c.pc) : c \in Second} \in SUBSET Nat /\ {Turn(c.pc) : c \in Second} # {}
      BY <2>1, <2>3
    <3>2. PICK m \in {Turn(c.pc) : c \in Second} : \A n \in {Turn(c.pc) : c \in Second} : m <= n
      BY <3>1, Least
    <3> QED
      BY <3>2
  <2>5. ASSUME NEW y \in T PROVE ~Nearer(x, y)
    <3>1. x \in T /\ Place(x) = Place(least) /\ x.todo = short.todo
      BY <2>4
    <3>2. ~(Place(y) < Place(x))
      BY <2>1, <2>2, <3>1
    <3>3. Place(y) = Place(x) => y \in First
      BY <3>1
    <3>4. ~(Place(y) = Place(x) /\ y.todo \subseteq x.todo /\ y.todo # x.todo)
      BY <2>3, <3>1, <3>3
    <3>5. ~(Place(y) = Place(x) /\ y.todo = x.todo /\ Turn(y.pc) < Turn(x.pc))
      <4>1. Place(y) = Place(x) /\ y.todo = x.todo => Turn(x.pc) <= Turn(y.pc)
        BY <2>4, <3>1, <3>3
      <4> QED
        BY <2>1, <3>1, <4>1
    <3> QED
      BY <3>2, <3>4, <3>5 DEF Nearer
  <2> QED
    BY <2>4, <2>5
<1> HIDE DEF R
<1>2. IsWellFoundedOn(R, Locals)
  BY <1>1, MinWF
<1> QED
  BY <1>2 DEF R

-----------------------------------------------------------------------------
(* What is gone stays gone.                                                *)

\* A command that leaves the key alone or deletes it brings nothing back,
\* unless the request goes on to write it back.
LEMMA GoneKept ==
  ASSUME TypeInv, NEW p \in Proc, NEW c, Go(p, c), NEW s \in SessionId, Gone(s),
         ~(c.pc = "touch" /\ c.cur = s), now' = now, issued \subseteq issued',
         session'[s].end = session[s].end \/ session'[s].end = 0
  PROVE  Gone(s)'
<1>1. call'[p] = c /\ \A q \in Proc : q # p => call'[q] = call[q]
  BY CallsAfter
<1>2. now \in Nat
  BY DEF TypeInv, TypeOK
<1>3. (s \notin Live)'
  BY <1>2 DEF Gone, Live
<1>4. \A q \in Proc : ~(call'[q].pc = "touch" /\ call'[q].cur = s)
  BY <1>1 DEF Gone, At
<1> QED
  BY <1>3, <1>4 DEF Gone, At

\* Only the SETEX of createSession, regenerateSession and validateSession give
\* a key a life, and the first two an id nobody else has been given.
LEMMA OnlyTouch ==
  ASSUME LifeInv, NEW p \in Proc, Step(p), NEW s \in SessionId, Gone(s)
  PROVE  /\ session'[s].end = session[s].end \/ session'[s].end = 0
         /\ now' = now /\ issued \subseteq issued'
<1>0. /\ TypeInv /\ s \in issued
      /\ session \in [SessionId -> [createdAt : Nat, lastActivityAt : Nat, end : Nat]]
      /\ call[p] \in Call /\ CallOK(call[p])
  BY Here DEF LifeInv, TypeInv, TypeOK, Gone
<1>1. now' = now /\ issued \subseteq issued'
  BY Zenon DEF Step, CountSessions, PickVictims, StoreSession, IndexSession, ExtendIndex, RevokeDel,
         RevokeRem, ReadTtl, Touch, Get, Purge, ListRange, ListRem, AllRange, AllDel, AllClear,
         KeepAdd, Copy, CopyRem, CopyAdd, CopyDel
<1>2. CASE StoreSession(p) \/ Copy(p)
  <2>1. Creates(call[p])
    BY <1>0, <1>2 DEF StoreSession, Copy, At, CallOK, PcFits, Creates
  <2>2. call[p].new # s
    BY <1>0, <2>1 DEF LifeInv, Fresh
  <2> QED
    BY <1>0, <1>1, <1>2, <2>2 DEF StoreSession, Copy
<1>3. CASE Touch(p)
  <2>1. call[p].cur # s
    BY <1>3 DEF Touch, Gone, At
  <2> QED
    BY <1>0, <1>1, <1>3, <2>1 DEF Touch
<1>4. CASE RevokeDel(p) \/ AllDel(p) \/ Purge(p) \/ CopyDel(p)
  <2>1. PICK x : session' = [session EXCEPT ![x].end = 0]
    BY <1>4, Zenon DEF RevokeDel, AllDel, Purge, CopyDel
  <2> QED
    BY <1>0, <1>1, <2>1
<1>5. CASE UNCHANGED session
  BY <1>1, <1>5
<1>6. \/ UNCHANGED session \/ StoreSession(p) \/ Copy(p) \/ Touch(p)
      \/ RevokeDel(p) \/ AllDel(p) \/ Purge(p) \/ CopyDel(p)
  BY Zenon DEF Step, CountSessions, PickVictims, IndexSession, ExtendIndex, RevokeRem, ReadTtl, Get,
         ListRange, ListRem, AllRange, AllClear, KeepAdd, CopyRem, CopyAdd
<1> QED
  BY <1>2, <1>3, <1>4, <1>5, <1>6

\* A validation goes on to write back only what it found alive.
LEMMA AliveToTouch ==
  ASSUME LoopInv, NEW p \in Proc, Step(p), NEW s \in SessionId, Gone(s)
  PROVE  \E c : Go(p, c) /\ ~(c.pc = "touch" /\ c.cur = s)
<1>1. CASE ReadTtl(p)
  <2> DEFINE b == call[p]
             d == [b EXCEPT !.pc = "touch", !.n = session[b.cur].end - now]
  <2>1. /\ b \in Call /\ CallOK(b) /\ b.pc = "ttl" /\ LoopOK(b)
    BY <1>1, Here DEF LoopInv, LoopsGoOn, ReadTtl, At
  <2>2. b.kind \in AuthKinds /\ b.cur \in SessionId
    BY <2>1 DEF CallOK, PcFits
  <2>3. now \in Nat /\ session[b.cur].end \in Nat
    BY <2>2 DEF LoopInv, TypeInv, TypeOK
  <2>4. (session[b.cur].end > now /\ Go(p, d)) \/ Go(p, Handler(b))
    BY <1>1, <2>3 DEF ReadTtl
  <2>5. session[b.cur].end > now => b.cur # s
    BY <2>2 DEF Gone, Live
  <2>6. d.cur = b.cur
    BY <2>1 DEF Call
  <2>7. Handler(b).pc # "touch"
    <3>1. Onward(b, Handler(b))
      BY <2>1, <2>2, HandlerOnward
    <3>2. Handler(b) = Idle \/ \E x \in {"revDel", "listRange", "allRange"} :
             Handler(b) = [b EXCEPT !.sub = "none", !.n = 0, !.t = 0, !.pc = x]
      BY DEF Handler
    <3>3. \A x : [b EXCEPT !.sub = "none", !.n = 0, !.t = 0, !.pc = x].pc = x
      BY <2>1 DEF Call
    <3> QED
      BY <3>2, <3>3, IdleLoop
  <2> HIDE DEF b, d
  <2> QED
    BY <2>4, <2>5, <2>6, <2>7
<1>2. CASE ~ReadTtl(p)
  <2>1. PICK c : Go(p, c) /\ Onward(call[p], c)
    BY StepOnward, Zenon
  <2>2. call[p].pc # "ttl"
    BY <1>2, Zenon DEF Step, At, CountSessions, PickVictims, StoreSession, IndexSession, ExtendIndex,
                RevokeDel, RevokeRem, Touch, Get, Purge, ListRange, ListRem, AllRange, AllDel,
                AllClear, KeepAdd, Copy, CopyRem, CopyAdd, CopyDel
  <2> QED
    BY <2>1, <2>2 DEF Onward
<1> QED
  BY <1>1, <1>2

\* A session handed out that is no longer live is live again only through a
\* validation that found it alive before: logout, eviction, reset and expiry
\* are final for everybody else, for every number of requests and ids.
THEOREM GoneForGood == Spec => GoneStays
<1>1. LifeInv /\ LoopInv /\ [Next]_vars => \A s \in SessionId : Gone(s) => Gone(s)'
  <2> SUFFICES ASSUME LifeInv, LoopInv, [Next]_vars, NEW s \in SessionId, Gone(s)
               PROVE  Gone(s)'
    OBVIOUS
  <2>0. TypeInv /\ now \in Nat /\ session[s].end \in Nat
    BY DEF LifeInv, TypeInv, TypeOK
  <2>1. CASE Tick
    <3>1. now' = now + 1 /\ UNCHANGED <<session, issued, call>>
      BY <2>1 DEF Tick
    <3>2. (s \notin Live)'
      BY <2>0, <3>1 DEF Gone, Live
    <3> QED
      BY <3>1, <3>2 DEF Gone, At
  <2>2. ASSUME NEW p \in Proc, Start(p) PROVE Gone(s)'
    <3>1. PICK c : Go(p, c) /\ c.pc # "touch"
      BY <2>2, StartLoop, Zenon
    <3>2. UNCHANGED <<now, session, issued>>
      BY <2>2, Zenon DEF Start, StartLogin, StartAuth, StartReset
    <3> QED
      BY <2>0, <3>1, <3>2, GoneKept
  <2>3. ASSUME NEW p \in Proc, Step(p) PROVE Gone(s)'
    <3>1. PICK c : Go(p, c) /\ ~(c.pc = "touch" /\ c.cur = s)
      BY <2>3, AliveToTouch
    <3>2. /\ session'[s].end = session[s].end \/ session'[s].end = 0
          /\ now' = now /\ issued \subseteq issued'
      BY <2>3, OnlyTouch
    <3> QED
      BY <2>0, <3>1, <3>2, GoneKept
  <2>4. ASSUME NEW p \in Proc, Fail(p) PROVE Gone(s)'
    <3>1. Go(p, Idle) /\ Idle.pc # "touch" /\ UNCHANGED <<now, session, issued>>
      BY <2>4, IdleLoop DEF Fail
    <3> QED
      BY <2>0, <3>1, GoneKept
  <2>5. CASE UNCHANGED vars
    BY <2>5 DEF vars, Gone, Live, At
  <2> QED
    BY <2>1, <2>2, <2>3, <2>4, <2>5 DEF Next
<1>2. LifeInv /\ LoopInv /\ [Next]_vars => [\A s \in SessionId : Gone(s) => Gone(s)']_vars
  BY <1>1
<1> QED
  BY <1>2, InitLife, NextLife, InitLoop, NextLoop, PTL DEF Spec, GoneStays
=============================================================================
