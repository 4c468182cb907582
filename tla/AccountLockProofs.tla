------------------------- MODULE AccountLockProofs -------------------------
(***************************************************************************)
(* For every limit and every number of requests: the type invariant of     *)
(* AccountLock, that a stale save never loses a lock (LockStands), how     *)
(* many passwords are compared before the account is locked (GuessBound),  *)
(* and, by the same count of lost updates, how late the address they come  *)
(* from is blocked (AddressBlock: MissBound, TargetBound), how often a     *)
(* block of it is lifted (LiftBound), and that its requests are counted in *)
(* windows that end (WindowHasEnd).                                        *)
(***************************************************************************)
EXTENDS AccountLock, AddressBlock, FiniteSetTheorems, WellFoundedInduction, TLAPS

LEMMA Increment ==
  ASSUME NEW n \in 0 .. Max
  PROVE  Incremented(n) \in 0 .. Max /\ Incremented(n) # 0 /\ (Incremented(n) >= Max <=> Incremented(n) = Max)
  BY NumberAssumption DEF Incremented

LEMMA Limits == 0 \in 0 .. Max /\ Max \in 0 .. Max /\ Max # 0
  BY NumberAssumption

LEMMA IdleCall == Idle \in Call
  BY NumberAssumption DEF Idle, Call

\* A step that moves one request keeps the types if its locals have theirs.
LEMMA Moved ==
  ASSUME TypeOK, NEW p \in Proc, NEW c \in Call, Go(p, c)
  PROVE  call' \in [Proc -> Call]
  BY DEF TypeOK, Go

LEMMA LoadedCall ==
  ASSUME TypeOK, NEW pc \in {"verify", "clear"}
  PROVE  Loaded(pc) \in Call
  BY IdleCall DEF TypeOK, Loaded, Call

LEMMA MovePc ==
  ASSUME TypeOK, NEW p \in Proc, NEW pc \in {"count", "challenge", "clear", "reset", "store", "save"},
         NEW n \in 0 .. Max
  PROVE  /\ [call[p] EXCEPT !.pc = pc] \in Call
         /\ [call[p] EXCEPT !.pc = pc, !.n = n] \in Call
  BY DEF TypeOK, Call

LEMMA MovedFields ==
  ASSUME TypeOK, NEW p \in Proc, NEW pc, NEW n
  PROVE  /\ [call[p] EXCEPT !.pc = pc].pc = pc
         /\ [call[p] EXCEPT !.pc = pc].failed = call[p].failed
         /\ [call[p] EXCEPT !.pc = pc, !.n = n].pc = pc
         /\ [call[p] EXCEPT !.pc = pc, !.n = n].failed = call[p].failed
  BY DEF TypeOK, Call

LEMMA TypesInit == Init => TypeOK
  BY IdleCall, NumberAssumption DEF Init, TypeOK, NoAttempts, Lock

LEMMA TypesStep == TypeOK /\ [Next]_vars => TypeOK'
<1> SUFFICES ASSUME TypeOK, [Next]_vars PROVE TypeOK'
  OBVIOUS
<1>1. ASSUME NEW p \in Proc, StartLogin(p) PROVE TypeOK'
  <2>1. [Idle EXCEPT !.pc = "check"] \in Call
    BY IdleCall DEF Call
  <2> QED
    BY <1>1, <2>1, Moved DEF StartLogin, TypeOK
<1>2. ASSUME NEW p \in Proc, CheckAttempts(p) PROVE TypeOK'
  <2>1. [Idle EXCEPT !.pc = "load"] \in Call
    BY IdleCall DEF Call
  <2> QED
    BY <1>2, <2>1, IdleCall, Moved DEF CheckAttempts, TypeOK
<1>3. ASSUME NEW p \in Proc, LoadUser(p) PROVE TypeOK'
  BY <1>3, IdleCall, LoadedCall, Moved DEF LoadUser, TypeOK
<1>4. ASSUME NEW p \in Proc, WrongPassword(p) PROVE TypeOK'
  <2>1. [call[p] EXCEPT !.pc = "count"] \in Call
    BY Limits, MovePc
  <2> QED
    BY <1>4, <2>1, Moved DEF WrongPassword, TypeOK
<1>5. ASSUME NEW p \in Proc, RightPassword(p) PROVE TypeOK'
  <2>1. call' \in [Proc -> Call]
    <3>1. CASE Go(p, Idle)
      BY <3>1, IdleCall, Moved
    <3>2. ASSUME NEW pc \in {"challenge", "clear"}, Go(p, [call[p] EXCEPT !.pc = pc])
          PROVE  call' \in [Proc -> Call]
      <4>1. [call[p] EXCEPT !.pc = pc] \in Call
        BY Limits, MovePc
      <4> QED
        BY <3>2, <4>1, Moved
    <3> QED
      BY <1>5, <3>1, <3>2 DEF RightPassword
  <2> QED
    BY <1>5, <2>1 DEF RightPassword, TypeOK
<1>6. ASSUME NEW p \in Proc, CountAttempts(p) PROVE TypeOK'
  <2>1. attempts.count \in 0 .. Max
    BY DEF TypeOK
  <2> QED
    BY <1>6, <2>1, MovePc, Moved DEF CountAttempts, TypeOK
<1>7. ASSUME NEW p \in Proc, StoreAttempts(p) PROVE TypeOK'
  <2>1. call[p].n \in 0 .. Max
    BY DEF TypeOK, Call
  <2>2. /\ attempts' \in [count : 0 .. Max, lock : Lock]
        /\ attempts'.lock # "none" <=> attempts'.count = Max
    BY <1>7, <2>1, Increment DEF StoreAttempts, Lock
  <2>3. [call[p] EXCEPT !.pc = "save", !.n = 0] \in Call
    BY MovePc, Limits
  <2>4. call' \in [Proc -> Call]
    BY <1>7, <2>3, Moved DEF StoreAttempts
  <2> QED
    BY <1>7, <2>2, <2>4 DEF StoreAttempts, TypeOK
<1>8. ASSUME NEW p \in Proc, SaveFailure(p) PROVE TypeOK'
  <2>1. call[p].failed \in 0 .. Max
    BY DEF TypeOK, Call
  <2>2. row' \in [failed : 0 .. Max, lock : Lock]
    BY <1>8, <2>1, Increment DEF SaveFailure, TypeOK, Lock
  <2> QED
    BY <1>8, <2>2, IdleCall, Moved DEF SaveFailure, TypeOK
<1>9. ASSUME NEW p \in Proc, ClearAttempts(p) PROVE TypeOK'
  <2>1. /\ attempts' \in [count : 0 .. Max, lock : Lock]
        /\ attempts'.lock # "none" <=> attempts'.count = Max
    BY <1>9, Limits DEF ClearAttempts, NoAttempts, Lock
  <2> QED
    BY <1>9, <2>1, MovePc, Moved DEF ClearAttempts, TypeOK
<1>10. ASSUME NEW p \in Proc, ResetRow(p) PROVE TypeOK'
  <2>1. row' \in [failed : 0 .. Max, lock : Lock]
    BY <1>10, Limits DEF ResetRow, TypeOK, Lock
  <2> QED
    BY <1>10, <2>1, IdleCall, Moved DEF ResetRow, TypeOK
<1>11. ASSUME NEW p \in Proc, SetTicket(p) PROVE TypeOK'
  BY <1>11, IdleCall, Moved DEF SetTicket, TypeOK
<1>12. ASSUME NEW p \in Proc, StartMfa(p) PROVE TypeOK'
  <2>1. \A t \in tickets : [Idle EXCEPT !.pc = "claim", !.ticket = t] \in Call
    BY IdleCall DEF TypeOK, Call
  <2> QED
    BY <1>12, <2>1, Moved DEF StartMfa, TypeOK
<1>13. ASSUME NEW p \in Proc, ClaimTicket(p) PROVE TypeOK'
  <2>1. [Idle EXCEPT !.pc = "loadMfa"] \in Call
    BY IdleCall DEF Call
  <2> QED
    BY <1>13, <2>1, Moved DEF ClaimTicket, TypeOK
<1>14. ASSUME NEW p \in Proc, LoadMfaUser(p) PROVE TypeOK'
  BY <1>14, IdleCall, LoadedCall, Moved DEF LoadMfaUser, TypeOK
<1>15. ASSUME NEW p \in Proc, Fail(p) PROVE TypeOK'
  <2>1. guesses' \in Nat
    BY <1>15 DEF Fail, TypeOK
  <2> QED
    BY <1>15, <2>1, IdleCall, Moved DEF Fail, TypeOK
<1>16. CASE RowLockEnds
  BY <1>16 DEF RowLockEnds, TypeOK, Lock
<1>17. CASE AttemptsLockEnds
  BY <1>17 DEF AttemptsLockEnds, TypeOK, Lock
<1>18. CASE AttemptsExpire
  BY <1>18, Limits DEF AttemptsExpire, NoAttempts, TypeOK, Lock
<1>19. CASE TicketExpires
  BY <1>19 DEF TicketExpires, TypeOK
<1>20. CASE UNCHANGED vars
  BY <1>20 DEF vars, TypeOK
<1> QED
  BY <1>1, <1>2, <1>3, <1>4, <1>5, <1>6, <1>7, <1>8, <1>9, <1>10, <1>11, <1>12, <1>13,
     <1>14, <1>15, <1>16, <1>17, <1>18, <1>19, <1>20 DEF Next

\* The state of AccountLock keeps its types: in particular, the record in Redis
\* carries a lock exactly when its count has reached the limit.
THEOREM LockTypes == Spec => []TypeOK
<1> QED
  BY TypesInit, TypesStep, PTL DEF Spec

-----------------------------------------------------------------------------

\* The only steps that write the row are the two saves and the end of a lock.
LEMMA LockStandsStep ==
  ASSUME TypeOK, Next, row.lock = "active", row'.lock # "active"
  PROVE  RowLockEnds \/ \E p \in Proc : ResetRow(p) /\ call[p].locked
<1>1. ASSUME NEW p \in Proc, SaveFailure(p) PROVE row'.lock = "active"
  BY <1>1 DEF SaveFailure
<1>2. ASSUME NEW p \in Proc, ResetRow(p) PROVE call[p].locked
  <2>1. call[p].locked \in BOOLEAN
    BY DEF TypeOK, Call
  <2> QED
    BY <1>2, <2>1 DEF ResetRow
<1>3. RowLockEnds \/ row' = row \/ \E p \in Proc : SaveFailure(p) \/ ResetRow(p)
  BY DEF Next, AttemptsLockEnds, AttemptsExpire, TicketExpires, StartLogin, CheckAttempts,
         LoadUser, WrongPassword, RightPassword, CountAttempts, StoreAttempts, ClearAttempts,
         SetTicket, StartMfa, ClaimTicket, LoadMfaUser, Fail
<1> QED
  BY <1>1, <1>2, <1>3

\* A save of an instance loaded before the lock was set cannot lift it, however
\* many requests are in flight (incrementFailedAttempts, resetFailedAttempts).
THEOREM LockHolds == Spec => LockStands
<1>1. TypeOK /\ [Next]_vars =>
        [row.lock = "active" /\ row'.lock # "active" =>
           RowLockEnds \/ \E p \in Proc : ResetRow(p) /\ call[p].locked]_vars
  BY LockStandsStep DEF vars
<1> QED
  BY <1>1, LockTypes, PTL DEF Spec, LockStands

-----------------------------------------------------------------------------
(***************************************************************************)
(* Lost updates (LostUpdates): the profile of a counter r and of the       *)
(* requests H of P that hold a count they have read, h, and its place      *)
(* among all profiles, in the order in which the smallest v decides.       *)
(***************************************************************************)

Profile(P, limit, r, H, h) ==
  [v \in Passed(limit) |-> IF v < r THEN Cardinality(P \ {q \in H : h[q] <= v}) ELSE 0]

Below(limit, c, d) ==
  \E v \in Passed(limit) : c[v] < d[v] /\ \A u \in Passed(limit) : u < v => c[u] = d[u]

Lower(P, limit, c) == {d \in Profiles(P, limit) : Below(limit, d, c)}

Rank(P, limit, c) == Cardinality(Lower(P, limit, c))

\* A set of natural numbers that is not empty has a least element.
LEMMA Least ==
  ASSUME NEW S \in SUBSET Nat, S # {}
  PROVE  \E m \in S : \A n \in S : m <= n
<1> DEFINE Less == {ss \in Nat \X Nat : ss[1] < ss[2]}
<1>1. IsWellFoundedOn(Less, Nat)
  BY NatLessThanWellFounded DEF OpToRel
<1>2. PICK m \in S : \A n \in S : <<n, m>> \notin Less
  BY <1>1, WFMin
<1>3. ASSUME NEW n \in S PROVE m <= n
  <2>1. m \in Nat /\ n \in Nat
    OBVIOUS
  <2>2. ~(n < m)
    BY <1>2, <2>1
  <2> QED
    BY <2>1, <2>2
<1> QED
  BY <1>3

\* A profile is its graph, a subset of a finite product.
LEMMA ProfilesFinite ==
  ASSUME NEW P, IsFiniteSet(P), NEW limit \in Nat
  PROVE  IsFiniteSet(Profiles(P, limit)) /\ Cardinality(Profiles(P, limit)) \in Nat
<1> DEFINE Grid == Passed(limit) \X (0 .. Cardinality(P))
           Graph(c) == {<<v, c[v]>> : v \in Passed(limit)}
           g == [c \in Profiles(P, limit) |-> Graph(c)]
<1>1. Cardinality(P) \in Nat
  BY FS_CardinalityType
<1>2. IsFiniteSet(Passed(limit)) /\ IsFiniteSet(0 .. Cardinality(P))
  <2>1. limit - 2 \in Int
    OBVIOUS
  <2> QED
    BY <1>1, <2>1, FS_Interval DEF Passed
<1>3. IsFiniteSet(SUBSET Grid)
  BY <1>2, FS_Product, FS_SUBSET
<1>4. \A c \in Profiles(P, limit) : c \in [Passed(limit) -> 0 .. Cardinality(P)]
  BY DEF Profiles
<1>5. g \in [Profiles(P, limit) -> SUBSET Grid]
  <2> SUFFICES ASSUME NEW c \in Profiles(P, limit) PROVE Graph(c) \in SUBSET Grid
    OBVIOUS
  <2> QED
    BY <1>4
<1>6. ASSUME NEW c \in Profiles(P, limit), NEW d \in Profiles(P, limit), g[c] = g[d]
      PROVE  c = d
  <2>1. Graph(c) = Graph(d)
    BY <1>6
  <2>2. ASSUME NEW v \in Passed(limit) PROVE c[v] = d[v]
    <3>1. <<v, c[v]>> \in Graph(d)
      BY <2>1
    <3> QED
      BY <3>1
  <2> QED
    BY <1>4, <2>2
<1>7. g \in Injection(Profiles(P, limit), SUBSET Grid)
  BY <1>5, <1>6 DEF Injection, IsInjective
<1>8. IsFiniteSet(Profiles(P, limit))
  BY <1>3, <1>7, FS_Injection
<1> QED
  BY <1>8, FS_CardinalityType

\* How many requests have not read v or less, and how that compares.
LEMMA Others ==
  ASSUME NEW P, IsFiniteSet(P), NEW S, NEW T, T \subseteq S
  PROVE  /\ Cardinality(P \ S) \in 0 .. Cardinality(P)
         /\ Cardinality(P \ S) <= Cardinality(P \ T)
         /\ \A p \in P : p \in S /\ p \notin T => Cardinality(P \ S) < Cardinality(P \ T)
<1>1. IsFiniteSet(P \ S) /\ IsFiniteSet(P \ T)
  BY FS_Difference
<1>2. Cardinality(P \ S) \in Nat /\ Cardinality(P \ T) \in Nat /\ Cardinality(P) \in Nat
  BY <1>1, FS_CardinalityType
<1>3. Cardinality(P \ S) <= Cardinality(P)
  <2>1. P \ S \in SUBSET P
    OBVIOUS
  <2> QED
    BY <2>1, FS_Subset
<1>4. P \ S \in SUBSET (P \ T)
  OBVIOUS
<1>5. /\ Cardinality(P \ S) <= Cardinality(P \ T)
      /\ Cardinality(P \ T) = Cardinality(P \ S) => P \ T = P \ S
  BY <1>1, <1>4, FS_Subset
<1>6. ASSUME NEW p \in P, p \in S, p \notin T PROVE P \ T # P \ S
  BY <1>6
<1> QED
  BY <1>2, <1>3, <1>5, <1>6

LEMMA ProfileType ==
  ASSUME NEW P, IsFiniteSet(P), NEW limit \in Nat, NEW r \in Nat,
         NEW H \in SUBSET P, NEW h \in [P -> Nat]
  PROVE  Profile(P, limit, r, H, h) \in Profiles(P, limit)
<1> DEFINE Upto(v) == {q \in H : h[q] <= v}
           c == Profile(P, limit, r, H, h)
<1>1. Cardinality(P) \in Nat
  BY FS_CardinalityType
<1>2. \A v \in Passed(limit) : v \in Nat /\ Cardinality(P \ Upto(v)) \in 0 .. Cardinality(P)
  <2> SUFFICES ASSUME NEW v \in Passed(limit)
               PROVE  v \in Nat /\ Cardinality(P \ Upto(v)) \in 0 .. Cardinality(P)
    OBVIOUS
  <2>1. {} \subseteq Upto(v)
    OBVIOUS
  <2>2. Cardinality(P \ Upto(v)) \in 0 .. Cardinality(P)
    BY <2>1, Others
  <2> QED
    BY <2>2 DEF Passed
<1>3. \A v \in Passed(limit) : c[v] = IF v < r THEN Cardinality(P \ Upto(v)) ELSE 0
  BY DEF Profile
<1>4. c \in [Passed(limit) -> 0 .. Cardinality(P)]
  BY <1>1, <1>2 DEF Profile
<1>5. ASSUME NEW u \in Passed(limit), NEW v \in Passed(limit), u <= v PROVE c[v] <= c[u]
  <2>1. u \in Nat /\ v \in Nat /\ \A q \in H : h[q] \in Nat
    BY <1>2
  <2>2. Upto(u) \subseteq Upto(v)
    BY <1>5, <2>1
  <2>3. Cardinality(P \ Upto(v)) <= Cardinality(P \ Upto(u))
    BY <2>2, Others
  <2>4. Cardinality(P \ Upto(u)) \in Nat /\ Cardinality(P \ Upto(v)) \in Nat
    BY <1>1, <1>2
  <2>5. /\ c[v] = IF v < r THEN Cardinality(P \ Upto(v)) ELSE 0
        /\ c[u] = IF u < r THEN Cardinality(P \ Upto(u)) ELSE 0
    BY <1>3
  <2>6. v < r => u < r
    BY <1>5, <2>1
  <2> QED
    BY <2>3, <2>4, <2>5, <2>6
<1> QED
  BY <1>4, <1>5 DEF Profiles

LEMMA BelowTransitive ==
  ASSUME NEW P, IsFiniteSet(P), NEW limit \in Nat, NEW b \in Profiles(P, limit),
         NEW c \in Profiles(P, limit), NEW d \in Profiles(P, limit),
         Below(limit, b, c), Below(limit, c, d)
  PROVE  Below(limit, b, d)
<1>1. Cardinality(P) \in Nat
  BY FS_CardinalityType
<1>2. \A v \in Passed(limit) : v \in Int /\ b[v] \in Int /\ c[v] \in Int /\ d[v] \in Int
  BY <1>1 DEF Passed, Profiles
<1>3. PICK v \in Passed(limit) :
        b[v] < c[v] /\ \A u \in Passed(limit) : u < v => b[u] = c[u]
  BY DEF Below
<1>4. PICK w \in Passed(limit) :
        c[w] < d[w] /\ \A u \in Passed(limit) : u < w => c[u] = d[u]
  BY DEF Below
<1>5. CASE v <= w
  <2>1. c[v] <= d[v]
    BY <1>2, <1>4, <1>5
  <2>2. b[v] < d[v] /\ \A u \in Passed(limit) : u < v => b[u] = d[u]
    BY <1>2, <1>3, <1>4, <1>5, <2>1
  <2> QED
    BY <2>2 DEF Below
<1>6. CASE w < v
  <2>1. b[w] < d[w] /\ \A u \in Passed(limit) : u < w => b[u] = d[u]
    BY <1>2, <1>3, <1>4, <1>6
  <2> QED
    BY <2>1 DEF Below
<1> QED
  BY <1>2, <1>5, <1>6

\* A higher profile has a higher rank; no rank exceeds LostUpdates.
LEMMA RankRises ==
  ASSUME NEW P, IsFiniteSet(P), NEW limit \in Nat,
         NEW c \in Profiles(P, limit), NEW d \in Profiles(P, limit), Below(limit, c, d)
  PROVE  Rank(P, limit, c) + 1 <= Rank(P, limit, d)
<1>1. /\ IsFiniteSet(Lower(P, limit, c)) /\ Cardinality(Lower(P, limit, c)) \in Nat
      /\ IsFiniteSet(Lower(P, limit, d)) /\ Cardinality(Lower(P, limit, d)) \in Nat
  <2>1. Lower(P, limit, c) \in SUBSET Profiles(P, limit) /\ Lower(P, limit, d) \in SUBSET Profiles(P, limit)
    BY DEF Lower
  <2> QED
    BY <2>1, ProfilesFinite, FS_Subset, FS_CardinalityType
<1>2. c \notin Lower(P, limit, c)
  <2>1. Cardinality(P) \in Nat
    BY FS_CardinalityType
  <2>2. \A v \in Passed(limit) : ~(c[v] < c[v])
    BY <2>1 DEF Profiles
  <2> QED
    BY <2>2 DEF Lower, Below
<1>3. Lower(P, limit, c) \cup {c} \in SUBSET Lower(P, limit, d)
  BY BelowTransitive DEF Lower
<1>4. Cardinality(Lower(P, limit, c) \cup {c}) = Cardinality(Lower(P, limit, c)) + 1
  BY <1>1, <1>2, FS_AddElement
<1> QED
  BY <1>1, <1>3, <1>4, FS_Subset DEF Rank

LEMMA RankLimit ==
  ASSUME NEW P, IsFiniteSet(P), NEW limit \in Nat, NEW c \in Profiles(P, limit)
  PROVE  Rank(P, limit, c) \in 0 .. LostUpdates(P, limit) /\ LostUpdates(P, limit) \in Nat
<1>1. Cardinality(P) \in Nat
  BY FS_CardinalityType
<1>2. c \notin Lower(P, limit, c)
  <2>1. \A v \in Passed(limit) : ~(c[v] < c[v])
    BY <1>1 DEF Profiles
  <2> QED
    BY <2>1 DEF Lower, Below
<1>3. Lower(P, limit, c) \in SUBSET (Profiles(P, limit) \ {c})
  BY <1>2 DEF Lower
<1>4. /\ IsFiniteSet(Profiles(P, limit) \ {c})
      /\ Cardinality(Profiles(P, limit) \ {c}) = LostUpdates(P, limit)
  BY ProfilesFinite, FS_RemoveElement DEF LostUpdates
<1>5. /\ IsFiniteSet(Lower(P, limit, c))
      /\ Cardinality(Lower(P, limit, c)) <= LostUpdates(P, limit)
  BY <1>3, <1>4, FS_Subset
<1> QED
  BY <1>4, <1>5, FS_CardinalityType DEF Rank

\* Nowhere lower and somewhere higher is higher: the first difference decides.
LEMMA FirstDifference ==
  ASSUME NEW P, IsFiniteSet(P), NEW limit \in Nat,
         NEW c \in Profiles(P, limit), NEW d \in Profiles(P, limit),
         NEW v \in Passed(limit), c[v] < d[v],
         \A u \in Passed(limit) : u < v => c[u] <= d[u]
  PROVE  Below(limit, c, d)
<1> DEFINE Higher == {u \in Passed(limit) : c[u] < d[u]}
<1>1. Cardinality(P) \in Nat
  BY FS_CardinalityType
<1>2. \A u \in Passed(limit) : u \in Nat /\ c[u] \in Int /\ d[u] \in Int
  BY <1>1 DEF Passed, Profiles
<1>3. Higher \in SUBSET Nat /\ v \in Higher
  BY <1>2
<1>4. PICK m \in Higher : \A n \in Higher : m <= n
  BY <1>3, Least
<1>5. \A u \in Passed(limit) : u < m => c[u] = d[u]
  BY <1>2, <1>3, <1>4
<1> QED
  BY <1>4, <1>5 DEF Below

LEMMA NowhereLower ==
  ASSUME NEW P, IsFiniteSet(P), NEW limit \in Nat,
         NEW c \in Profiles(P, limit), NEW d \in Profiles(P, limit),
         \A u \in Passed(limit) : c[u] <= d[u]
  PROVE  Rank(P, limit, c) <= Rank(P, limit, d)
<1>1. Cardinality(P) \in Nat
  BY FS_CardinalityType
<1>2. \A u \in Passed(limit) : c[u] \in Int /\ d[u] \in Int
  BY <1>1 DEF Profiles
<1>3. Rank(P, limit, c) \in Int /\ Rank(P, limit, d) \in Int
  BY RankLimit
<1>4. CASE \E v \in Passed(limit) : c[v] < d[v]
  <2>1. Below(limit, c, d)
    BY <1>4, FirstDifference
  <2> QED
    BY <1>3, <2>1, RankRises
<1>5. CASE \A v \in Passed(limit) : ~(c[v] < d[v])
  <2>1. c = d
    BY <1>2, <1>5 DEF Profiles
  <2> QED
    BY <1>3, <2>1
<1> QED
  BY <1>4, <1>5

\* A request that stops holding its count, and one that has just read the
\* counter, lower no profile; nor do counts that grow while they are held.
LEMMA Released ==
  ASSUME NEW P, IsFiniteSet(P), NEW limit \in Nat, NEW r \in Nat,
         NEW H \in SUBSET P, NEW h \in [P -> Nat], NEW G \in SUBSET P, NEW g \in [P -> Nat],
         \A q \in G : (q \in H /\ h[q] <= g[q]) \/ g[q] >= r
  PROVE  Rank(P, limit, Profile(P, limit, r, H, h)) <= Rank(P, limit, Profile(P, limit, r, G, g))
<1> DEFINE c == Profile(P, limit, r, H, h)
           d == Profile(P, limit, r, G, g)
<1>1. c \in Profiles(P, limit) /\ d \in Profiles(P, limit)
  BY ProfileType
<1>2. ASSUME NEW v \in Passed(limit) PROVE c[v] <= d[v]
  <2>1. v \in Nat
    BY DEF Passed
  <2>2. (c[v] = 0 /\ d[v] = 0) \/ v < r
    BY <2>1 DEF Profile
  <2>3. CASE v < r
    <3> DEFINE S == {q \in H : h[q] <= v}
               T == {q \in G : g[q] <= v}
    <3>1. T \subseteq S
      BY <2>1, <2>3
    <3>2. Cardinality(P \ S) <= Cardinality(P \ T)
      BY <3>1, Others
    <3> QED
      BY <2>3, <3>2 DEF Profile
  <2> QED
    BY <2>2, <2>3
<1> QED
  BY <1>1, <1>2, NowhereLower

\* A write below the limit raises the profile.
LEMMA Written ==
  ASSUME NEW P, IsFiniteSet(P), NEW limit \in Nat, NEW r \in Nat,
         NEW H \in SUBSET P, NEW h \in [P -> Nat], NEW G \in SUBSET P, NEW g \in [P -> Nat],
         NEW p \in H, p \notin G, h[p] + 1 < limit,
         \A q \in G : q \in H /\ h[q] <= g[q]
  PROVE  Rank(P, limit, Profile(P, limit, r, H, h)) + 1
           <= Rank(P, limit, Profile(P, limit, h[p] + 1, G, g))
<1> DEFINE c == Profile(P, limit, r, H, h)
           d == Profile(P, limit, h[p] + 1, G, g)
           S(v) == {q \in H : h[q] <= v}
           T(v) == {q \in G : g[q] <= v}
<1>0. p \in P /\ h[p] \in Nat
  OBVIOUS
<1>1. c \in Profiles(P, limit) /\ d \in Profiles(P, limit)
  BY <1>0, ProfileType
<1>2. \A v \in Passed(limit) : v \in Nat
  BY DEF Passed
<1>3. \A v \in Passed(limit) : /\ c[v] = IF v < r THEN Cardinality(P \ S(v)) ELSE 0
                               /\ d[v] = IF v < h[p] + 1 THEN Cardinality(P \ T(v)) ELSE 0
  BY DEF Profile
<1>4. \A v \in Passed(limit) : Cardinality(P \ S(v)) <= Cardinality(P \ T(v)) /\ Cardinality(P \ T(v)) \in Nat
  <2> SUFFICES ASSUME NEW v \in Passed(limit)
               PROVE  Cardinality(P \ S(v)) <= Cardinality(P \ T(v)) /\ Cardinality(P \ T(v)) \in Nat
    OBVIOUS
  <2>1. T(v) \subseteq S(v)
    BY <1>2
  <2>2. Cardinality(P \ S(v)) <= Cardinality(P \ T(v))
    BY <2>1, Others
  <2>3. Cardinality(P \ T(v)) \in Nat
    BY FS_Difference, FS_CardinalityType
  <2> QED
    BY <2>2, <2>3
<1>5. \A v \in Passed(limit) : v < r /\ v < h[p] + 1 => c[v] <= d[v]
  BY <1>2, <1>3, <1>4
<1>6. CASE h[p] < r
  <2>1. h[p] \in Passed(limit)
    BY <1>0 DEF Passed
  <2>2. T(h[p]) \subseteq S(h[p])
    BY <1>0
  <2>3. p \in S(h[p]) /\ p \notin T(h[p])
    BY <1>0
  <2>4. Cardinality(P \ S(h[p])) < Cardinality(P \ T(h[p]))
    BY <1>0, <2>2, <2>3, Others
  <2>5. c[h[p]] < d[h[p]]
    BY <1>0, <1>3, <1>6, <2>1, <2>4
  <2>6. \A u \in Passed(limit) : u < h[p] => c[u] <= d[u]
    BY <1>0, <1>2, <1>5, <1>6
  <2>7. Below(limit, c, d)
    BY <1>1, <2>1, <2>5, <2>6, FirstDifference
  <2> QED
    BY <1>1, <2>7, RankRises
<1>7. CASE r <= h[p]
  <2>1. r \in Passed(limit)
    BY <1>0, <1>7 DEF Passed
  <2>2. T(r) \subseteq P /\ p \in P /\ p \notin T(r)
    OBVIOUS
  <2>3. 0 < Cardinality(P \ T(r))
    <3>1. Cardinality(P \ P) < Cardinality(P \ T(r))
      BY <2>2, Others
    <3>2. Cardinality(P \ P) \in Nat /\ Cardinality(P \ T(r)) \in Nat
      BY FS_Difference, FS_CardinalityType
    <3> QED
      BY <3>1, <3>2
  <2>4. c[r] < d[r]
    <3>1. ~(r < r) /\ r < h[p] + 1
      BY <1>0, <1>7
    <3>2. c[r] = 0 /\ d[r] = Cardinality(P \ T(r))
      BY <1>3, <2>1, <3>1
    <3> QED
      BY <2>3, <3>2
  <2>5. \A u \in Passed(limit) : u < r => c[u] <= d[u]
    BY <1>0, <1>2, <1>5, <1>7
  <2>6. Below(limit, c, d)
    BY <1>1, <2>1, <2>4, <2>5, FirstDifference
  <2> QED
    BY <1>1, <2>6, RankRises
<1> QED
  BY <1>0, <1>6, <1>7


-----------------------------------------------------------------------------
(* How many passwords are compared before the account is locked.           *)

Verifying == {p \in Proc : At(p, "verify")}

\* Requests whose failure is compared and not saved yet.
Pending == {p \in Proc : call[p].pc \in {"count", "store", "save"}}

RowRank == Rank(Proc, Max, Profile(Proc, Max, row.failed, Verifying \cup Pending,
                                   [p \in Proc |-> call[p].failed]))

\* Without a lock, as many failures are saved as the profile of the row has
\* risen; under a lock no request comes to compare that does not already.
GuessInv ==
  IF row.lock = "active"
  THEN guesses + Cardinality(Verifying) <= LostUpdates(Proc, Max) + Cardinality(Proc)
  ELSE guesses <= RowRank + Cardinality(Pending)

LEMMA Sizes ==
  ASSUME NEW V \in SUBSET Proc, NEW W \in SUBSET Proc
  PROVE  /\ IsFiniteSet(V) /\ Cardinality(V) \in Nat /\ Cardinality(Proc) \in Nat
         /\ Cardinality(V) <= Cardinality(Proc)
         /\ V \subseteq W => Cardinality(V) <= Cardinality(W)
         /\ V \cap W = {} => Cardinality(V) + Cardinality(W) <= Cardinality(Proc)
         /\ \A p \in V : Cardinality(V \ {p}) = Cardinality(V) - 1
         /\ \A p \in Proc \ V : Cardinality(V \cup {p}) = Cardinality(V) + 1
<1>1. /\ IsFiniteSet(V) /\ Cardinality(V) \in Nat /\ Cardinality(V) <= Cardinality(Proc)
      /\ IsFiniteSet(W) /\ Cardinality(W) \in Nat /\ Cardinality(Proc) \in Nat
  BY ProcAssumption, FS_Subset, FS_CardinalityType
<1>2. V \subseteq W => Cardinality(V) <= Cardinality(W)
  BY <1>1, FS_Subset
<1>3. V \cap W = {} => Cardinality(V) + Cardinality(W) <= Cardinality(Proc)
  <2> SUFFICES ASSUME V \cap W = {} PROVE Cardinality(V) + Cardinality(W) <= Cardinality(Proc)
    OBVIOUS
  <2>1. Cardinality(V \cup W) = Cardinality(V) + Cardinality(W)
    <3>1. Cardinality(V \cap W) = 0
      BY FS_EmptySet
    <3>2. Cardinality(V \cup W) = Cardinality(V) + Cardinality(W) - Cardinality(V \cap W)
      BY <1>1, FS_Union
    <3> QED
      BY <1>1, <3>1, <3>2
  <2>2. V \cup W \in SUBSET Proc
    OBVIOUS
  <2> QED
    BY <2>1, <2>2, ProcAssumption, FS_Subset
<1>4. \A p \in V : Cardinality(V \ {p}) = Cardinality(V) - 1
  BY <1>1, FS_RemoveElement
<1>5. \A p \in Proc \ V : Cardinality(V \cup {p}) = Cardinality(V) + 1
  BY <1>1, FS_AddElement
<1> QED
  BY <1>1, <1>2, <1>3, <1>4, <1>5

LEMMA Positions ==
  /\ Verifying \in SUBSET Proc /\ Pending \in SUBSET Proc /\ Verifying \cap Pending = {}
  /\ Verifying' \in SUBSET Proc /\ Pending' \in SUBSET Proc /\ Verifying' \cap Pending' = {}
  BY DEF Verifying, Pending, At

\* Where a request goes decides which sets it is in.
LEMMA Goes ==
  ASSUME TypeOK, NEW p \in Proc, NEW c \in Call, Go(p, c)
  PROVE  /\ Verifying' = IF c.pc = "verify" THEN Verifying \cup {p} ELSE Verifying \ {p}
         /\ Pending' = IF c.pc \in {"count", "store", "save"} THEN Pending \cup {p} ELSE Pending \ {p}
         /\ call'[p] = c /\ \A q \in Proc : q # p => call'[q] = call[q]
<1>1. call'[p] = c /\ \A q \in Proc : q # p => call'[q] = call[q]
  BY DEF TypeOK, Go
<1>2. Verifying' = IF c.pc = "verify" THEN Verifying \cup {p} ELSE Verifying \ {p}
  BY <1>1 DEF Verifying, At
<1>3. Pending' = IF c.pc \in {"count", "store", "save"} THEN Pending \cup {p} ELSE Pending \ {p}
  BY <1>1 DEF Pending
<1> QED
  BY <1>1, <1>2, <1>3

LEMMA RankTypes ==
  ASSUME TypeOK, TypeOK'
  PROVE  /\ RowRank \in 0 .. LostUpdates(Proc, Max) /\ RowRank' \in 0 .. LostUpdates(Proc, Max)
         /\ LostUpdates(Proc, Max) \in Nat
<1>1. /\ Max \in Nat /\ row.failed \in Nat /\ row'.failed \in Nat
      /\ [p \in Proc |-> call[p].failed] \in [Proc -> Nat]
      /\ [p \in Proc |-> call'[p].failed] \in [Proc -> Nat]
  BY NumberAssumption DEF TypeOK, Call
<1>2. Verifying \cup Pending \in SUBSET Proc /\ Verifying' \cup Pending' \in SUBSET Proc
  BY Positions
<1>3. /\ Profile(Proc, Max, row.failed, Verifying \cup Pending, [p \in Proc |-> call[p].failed])
           \in Profiles(Proc, Max)
      /\ Profile(Proc, Max, row'.failed, Verifying' \cup Pending', [p \in Proc |-> call'[p].failed])
           \in Profiles(Proc, Max)
  BY <1>1, <1>2, ProcAssumption, ProfileType
<1> QED
  BY <1>1, <1>3, ProcAssumption, RankLimit DEF RowRank

\* Requests that load the row as it is, or leave, do not lower its profile.
LEMMA RowKept ==
  ASSUME TypeOK, TypeOK', row'.failed = row.failed,
         \A q \in Verifying' \cup Pending' :
            \/ q \in Verifying \cup Pending /\ call'[q].failed = call[q].failed
            \/ call'[q].failed = row.failed
  PROVE  RowRank <= RowRank'
<1> DEFINE H == Verifying \cup Pending
           h == [p \in Proc |-> call[p].failed]
           G == Verifying' \cup Pending'
           g == [p \in Proc |-> call'[p].failed]
<1>1. /\ Max \in Nat /\ row.failed \in Nat
      /\ h \in [Proc -> Nat] /\ g \in [Proc -> Nat]
  BY NumberAssumption DEF TypeOK, Call
<1>2. H \in SUBSET Proc /\ G \in SUBSET Proc
  BY Positions
<1>3. \A q \in G : (q \in H /\ h[q] <= g[q]) \/ g[q] >= row.failed
  <2> SUFFICES ASSUME NEW q \in G PROVE (q \in H /\ h[q] <= g[q]) \/ g[q] >= row.failed
    OBVIOUS
  <2>1. q \in Proc /\ h[q] = call[q].failed /\ g[q] = call'[q].failed
    BY <1>2
  <2>2. h[q] \in Int /\ g[q] \in Int
    BY <1>1, <2>1
  <2> QED
    BY <1>1, <2>1, <2>2
<1> HIDE DEF H, h, G, g
<1>4. Rank(Proc, Max, Profile(Proc, Max, row.failed, H, h))
        <= Rank(Proc, Max, Profile(Proc, Max, row.failed, G, g))
  BY <1>1, <1>2, <1>3, ProcAssumption, Released
<1> QED
  BY <1>4 DEF RowRank, H, h, G, g

\* A failure that does not lock the account raises it.
LEMMA RowSaved ==
  ASSUME TypeOK, TypeOK', NEW p \in Pending, row'.failed = call[p].failed + 1, row'.failed < Max,
         \A q \in Verifying' \cup Pending' :
            q # p /\ q \in Verifying \cup Pending /\ call'[q].failed = call[q].failed
  PROVE  RowRank + 1 <= RowRank'
<1> DEFINE H == Verifying \cup Pending
           h == [q \in Proc |-> call[q].failed]
           G == Verifying' \cup Pending'
           g == [q \in Proc |-> call'[q].failed]
<1>1. /\ Max \in Nat /\ row.failed \in Nat
      /\ h \in [Proc -> Nat] /\ g \in [Proc -> Nat]
  BY NumberAssumption DEF TypeOK, Call
<1>2. H \in SUBSET Proc /\ G \in SUBSET Proc
  BY Positions
<1>3. \A q \in G : q \in H /\ h[q] <= g[q]
  <2> SUFFICES ASSUME NEW q \in G PROVE q \in H /\ h[q] <= g[q]
    OBVIOUS
  <2>1. q \in Proc /\ h[q] = call[q].failed /\ g[q] = call'[q].failed
    BY <1>2
  <2>2. h[q] \in Int
    BY <1>1, <2>1
  <2> QED
    BY <2>1, <2>2
<1>4. p \in H /\ p \notin G /\ h[p] + 1 = row'.failed /\ h[p] + 1 < Max
  BY <1>2
<1> HIDE DEF H, h, G, g
<1>5. Rank(Proc, Max, Profile(Proc, Max, row.failed, H, h)) + 1
        <= Rank(Proc, Max, Profile(Proc, Max, h[p] + 1, G, g))
  BY <1>1, <1>2, <1>3, <1>4, ProcAssumption, Written
<1> QED
  BY <1>4, <1>5 DEF RowRank, H, h, G, g

\* A step that sets no failure and no row aside.
LEMMA Quiet ==
  ASSUME TypeOK, TypeOK', GuessInv, NEW p \in Proc, NEW c \in Call, Go(p, c),
         row' = row, guesses' = guesses,
         c.pc = "verify" => row.lock # "active" /\ c.failed = row.failed,
         c.pc \in {"count", "store", "save"} => p \in Pending /\ c.failed = call[p].failed,
         p \in Pending => c.pc \in {"count", "store", "save"}
  PROVE  GuessInv'
<1>1. Verifying \in SUBSET Proc /\ Pending \in SUBSET Proc /\ Pending' \in SUBSET Proc
  BY Positions
<1>2. Pending' = Pending
  <2>1. Pending' = IF c.pc \in {"count", "store", "save"} THEN Pending \cup {p} ELSE Pending \ {p}
    BY Goes
  <2>2. CASE p \in Pending
    <3>1. Pending' = Pending \cup {p}
      BY <2>1, <2>2
    <3> QED
      BY <2>2, <3>1
  <2>3. CASE p \notin Pending
    <3>1. Pending' = Pending \ {p}
      BY <2>1, <2>3
    <3> QED
      BY <2>3, <3>1
  <2> QED
    BY <2>2, <2>3
<1>3. guesses \in Nat /\ guesses' \in Nat
  BY DEF TypeOK
<1>4. CASE row.lock = "active"
  <2>1. Verifying' \subseteq Verifying /\ Verifying' \in SUBSET Proc
    BY <1>1, <1>4, Goes
  <2>2. /\ Cardinality(Verifying') <= Cardinality(Verifying)
        /\ Cardinality(Verifying') \in Nat /\ Cardinality(Verifying) \in Nat /\ Cardinality(Proc) \in Nat
    BY <1>1, <2>1, Sizes
  <2>3. LostUpdates(Proc, Max) \in Nat
    BY RankTypes
  <2> QED
    BY <1>3, <1>4, <2>2, <2>3 DEF GuessInv
<1>5. CASE row.lock # "active"
  <2>1. \A q \in Verifying' \cup Pending' :
            \/ q \in Verifying \cup Pending /\ call'[q].failed = call[q].failed
            \/ call'[q].failed = row.failed
    BY <1>1, Goes
  <2>2. RowRank <= RowRank' /\ RowRank \in Int /\ RowRank' \in Int
    BY <2>1, RowKept, RankTypes
  <2>3. Cardinality(Pending) \in Nat
    BY <1>1, Sizes
  <2> QED
    BY <1>2, <1>3, <1>5, <2>2, <2>3 DEF GuessInv
<1> QED
  BY <1>4, <1>5

\* A step that starts the count of guesses anew.
LEMMA Anew ==
  ASSUME TypeOK, TypeOK', guesses' = 0
  PROVE  GuessInv'
<1>1. Verifying' \in SUBSET Proc /\ Pending' \in SUBSET Proc
  BY Positions
<1>2. /\ Cardinality(Verifying') \in Nat /\ Cardinality(Pending') \in Nat /\ Cardinality(Proc) \in Nat
      /\ Cardinality(Verifying') <= Cardinality(Proc)
  BY <1>1, Sizes
<1>3. RowRank' \in Nat /\ LostUpdates(Proc, Max) \in Nat
  BY RankTypes
<1> QED
  BY <1>2, <1>3 DEF GuessInv

LEMMA PendingFails ==
  ASSUME TypeOK, TypeOK', GuessInv, NEW p \in Pending, Fail(p)
  PROVE  GuessInv'
<1>1. p \in Proc /\ Verifying \in SUBSET Proc /\ Pending \in SUBSET Proc
  BY Positions
<1>2. Go(p, Idle) /\ row' = row /\ guesses' = IF guesses > 0 THEN guesses - 1 ELSE guesses
  BY DEF Fail, Pending
<1>3. guesses \in Nat
  BY DEF TypeOK
<1>4. Idle.pc = "idle"
  BY DEF Idle
<1>5. Verifying' = Verifying /\ Pending' = Pending \ {p}
  BY <1>1, <1>2, <1>4, IdleCall, Goes, Positions
<1>6. \A q \in Verifying' \cup Pending' :
         q \in Verifying \cup Pending /\ call'[q].failed = call[q].failed
  BY <1>1, <1>2, <1>4, <1>5, IdleCall, Goes, Positions
<1>7. RowRank <= RowRank' /\ RowRank \in Int /\ RowRank' \in Int /\ LostUpdates(Proc, Max) \in Int
  BY <1>2, <1>6, RowKept, RankTypes
<1>8. /\ Cardinality(Pending') = Cardinality(Pending) - 1 /\ Cardinality(Pending) \in Nat
      /\ Cardinality(Verifying) \in Nat /\ Cardinality(Proc) \in Nat
  BY <1>1, <1>5, Sizes
<1>9. CASE guesses > 0
  BY <1>2, <1>3, <1>5, <1>7, <1>8, <1>9 DEF GuessInv
<1>10. CASE guesses = 0
  BY <1>2, <1>10, Anew
<1> QED
  BY <1>3, <1>9, <1>10

LEMMA GuessStep == TypeOK /\ TypeOK' /\ GuessInv /\ [Next]_vars => GuessInv'
<1> SUFFICES ASSUME TypeOK, TypeOK', GuessInv, [Next]_vars PROVE GuessInv'
  OBVIOUS
<1>0. \A p \in Proc : p \in Pending <=> call[p].pc \in {"count", "store", "save"}
  BY DEF Pending
<1>1. ASSUME NEW p \in Proc, StartLogin(p) PROVE GuessInv'
  <2>1. [Idle EXCEPT !.pc = "check"] \in Call /\ [Idle EXCEPT !.pc = "check"].pc = "check"
    BY IdleCall DEF Call, Idle
  <2> QED
    BY <1>0, <1>1, <2>1, Quiet DEF StartLogin, At
<1>2. ASSUME NEW p \in Proc, CheckAttempts(p) PROVE GuessInv'
  <2>1. /\ [Idle EXCEPT !.pc = "load"] \in Call /\ [Idle EXCEPT !.pc = "load"].pc = "load"
        /\ Idle \in Call /\ Idle.pc = "idle"
    BY IdleCall DEF Call, Idle
  <2> QED
    BY <1>0, <1>2, <2>1, Quiet DEF CheckAttempts, At
<1>3. ASSUME NEW p \in Proc, LoadUser(p) PROVE GuessInv'
  <2>1. /\ Idle \in Call /\ Idle.pc = "idle" /\ Loaded("verify") \in Call
        /\ Loaded("verify").pc = "verify" /\ Loaded("verify").failed = row.failed
    BY IdleCall, LoadedCall DEF Idle, Loaded
  <2> QED
    BY <1>0, <1>3, <2>1, Quiet DEF LoadUser, At
<1>4. ASSUME NEW p \in Proc, WrongPassword(p) PROVE GuessInv'
  <2> DEFINE c == [call[p] EXCEPT !.pc = "count"]
  <2>1. c \in Call /\ c.pc = "count" /\ c.failed = call[p].failed
    <3>1. c \in Call
      BY Limits, MovePc
    <3>2. c.pc = "count" /\ c.failed = call[p].failed
      BY MovedFields
    <3> QED
      BY <3>1, <3>2
  <2>2. Go(p, c) /\ row' = row /\ guesses' = guesses + 1 /\ p \in Verifying
    BY <1>4 DEF WrongPassword, Verifying
  <2> HIDE DEF c
  <2>3. Verifying \in SUBSET Proc /\ Pending \in SUBSET Proc /\ p \notin Pending
    BY <2>2, Positions
  <2>4. Verifying' = Verifying \ {p} /\ Pending' = Pending \cup {p}
    BY <2>1, <2>2, Goes
  <2>5. \A q \in Verifying' \cup Pending' :
           q \in Verifying \cup Pending /\ call'[q].failed = call[q].failed
    BY <2>1, <2>2, <2>3, <2>4, Goes
  <2>6. RowRank <= RowRank' /\ RowRank \in Int /\ RowRank' \in Int /\ LostUpdates(Proc, Max) \in Int
    BY <2>2, <2>5, RowKept, RankTypes
  <2>7. /\ Cardinality(Pending') = Cardinality(Pending) + 1 /\ Cardinality(Pending) \in Nat
        /\ Cardinality(Verifying') = Cardinality(Verifying) - 1 /\ Cardinality(Verifying) \in Nat
        /\ Cardinality(Proc) \in Nat /\ guesses \in Nat
    BY <2>2, <2>3, <2>4, Sizes DEF TypeOK
  <2> QED
    BY <2>2, <2>6, <2>7 DEF GuessInv
<1>5. ASSUME NEW p \in Proc, RightPassword(p) PROVE GuessInv'
  <2>1. CASE Go(p, Idle)
    <3>1. Idle \in Call /\ Idle.pc = "idle"
      BY IdleCall DEF Idle
    <3> QED
      BY <1>0, <1>5, <2>1, <3>1, Quiet DEF RightPassword, At
  <2>2. ASSUME NEW pc \in {"challenge", "clear"}, Go(p, [call[p] EXCEPT !.pc = pc])
        PROVE  GuessInv'
    <3>1. [call[p] EXCEPT !.pc = pc] \in Call /\ [call[p] EXCEPT !.pc = pc].pc = pc
      BY Limits, MovePc, MovedFields
    <3> QED
      BY <1>0, <1>5, <2>2, <3>1, Quiet DEF RightPassword, At
  <2> QED
    BY <1>5, <2>1, <2>2 DEF RightPassword
<1>6. ASSUME NEW p \in Proc, CountAttempts(p) PROVE GuessInv'
  <2> DEFINE c == [call[p] EXCEPT !.pc = "store", !.n = attempts.count]
  <2>1. c \in Call /\ c.pc = "store" /\ c.failed = call[p].failed
    <3>1. c \in Call
      <4>1. attempts.count \in 0 .. Max
        BY DEF TypeOK
      <4> QED
        BY <4>1, MovePc
    <3>2. c.pc = "store" /\ c.failed = call[p].failed
      BY MovedFields
    <3> QED
      BY <3>1, <3>2
  <2>2. Go(p, c) /\ p \in Pending /\ row' = row /\ guesses' = guesses
    BY <1>0, <1>6 DEF CountAttempts, At
  <2> QED
    BY <2>1, <2>2, Quiet
<1>7. ASSUME NEW p \in Proc, StoreAttempts(p) PROVE GuessInv'
  <2> DEFINE c == [call[p] EXCEPT !.pc = "save", !.n = 0]
  <2>1. c \in Call /\ c.pc = "save" /\ c.failed = call[p].failed
    <3>1. c \in Call
      BY Limits, MovePc
    <3>2. c.pc = "save" /\ c.failed = call[p].failed
      BY MovedFields
    <3> QED
      BY <3>1, <3>2
  <2>2. Go(p, c) /\ p \in Pending /\ row' = row /\ guesses' = guesses
    BY <1>0, <1>7 DEF StoreAttempts, At
  <2> QED
    BY <2>1, <2>2, Quiet
<1>8. ASSUME NEW p \in Proc, SaveFailure(p) PROVE GuessInv'
  <2>1. p \in Pending /\ Go(p, Idle) /\ guesses' = guesses
    BY <1>0, <1>8 DEF SaveFailure, At
  <2>2. Idle \in Call /\ Idle.pc = "idle"
    BY IdleCall DEF Idle
  <2>3. Verifying \in SUBSET Proc /\ Pending \in SUBSET Proc /\ p \notin Verifying
    BY <2>1, Positions
  <2>4. Verifying' = Verifying /\ Pending' = Pending \ {p}
    BY <2>1, <2>2, <2>3, Goes
  <2>5. \A q \in Verifying' \cup Pending' :
           q # p /\ q \in Verifying \cup Pending /\ call'[q].failed = call[q].failed
    BY <2>1, <2>2, <2>3, <2>4, Goes
  <2>6. /\ Cardinality(Pending') = Cardinality(Pending) - 1 /\ Cardinality(Pending) \in Nat
        /\ Cardinality(Verifying) \in Nat /\ Cardinality(Proc) \in Nat /\ guesses \in Nat
        /\ Cardinality(Verifying) + Cardinality(Pending) <= Cardinality(Proc)
    BY <2>1, <2>3, <2>4, Sizes, Positions DEF TypeOK
  <2>7. RowRank \in 0 .. LostUpdates(Proc, Max) /\ RowRank' \in Int /\ LostUpdates(Proc, Max) \in Nat
    BY RankTypes
  <2>8. CASE row.lock = "active"
    <3>1. row'.lock = "active"
      BY <1>8, <2>8 DEF SaveFailure
    <3> QED
      BY <2>1, <2>4, <2>8, <3>1 DEF GuessInv
  <2>9. CASE row.lock # "active" /\ row'.lock = "active"
    BY <2>1, <2>4, <2>6, <2>7, <2>9 DEF GuessInv
  <2>10. CASE row.lock # "active" /\ row'.lock # "active"
    <3>1. call[p].failed \in 0 .. Max /\ Max \in Nat
      BY <2>3, NumberAssumption DEF TypeOK, Call
    <3>2. row'.failed = Incremented(call[p].failed) /\ ~(Incremented(call[p].failed) >= Max)
      BY <1>8, <2>10 DEF SaveFailure
    <3>3. row'.failed = call[p].failed + 1 /\ row'.failed < Max
      BY <3>1, <3>2 DEF Incremented
    <3>4. RowRank + 1 <= RowRank'
      BY <2>1, <2>5, <3>3, RowSaved
    <3> QED
      BY <2>1, <2>6, <2>7, <2>10, <3>4 DEF GuessInv
  <2> QED
    BY <2>8, <2>9, <2>10
<1>9. ASSUME NEW p \in Proc, ClearAttempts(p) PROVE GuessInv'
  <2>1. [call[p] EXCEPT !.pc = "reset"] \in Call /\ [call[p] EXCEPT !.pc = "reset"].pc = "reset"
    BY Limits, MovePc, MovedFields
  <2> QED
    BY <1>0, <1>9, <2>1, Quiet DEF ClearAttempts, At
<1>10. ASSUME NEW p \in Proc, ResetRow(p) PROVE GuessInv'
  BY <1>10, Anew DEF ResetRow
<1>11. ASSUME NEW p \in Proc, SetTicket(p) PROVE GuessInv'
  <2>1. Idle \in Call /\ Idle.pc = "idle"
    BY IdleCall DEF Idle
  <2> QED
    BY <1>0, <1>11, <2>1, Quiet DEF SetTicket, At
<1>12. ASSUME NEW p \in Proc, StartMfa(p) PROVE GuessInv'
  <2>1. PICK t \in tickets : Go(p, [Idle EXCEPT !.pc = "claim", !.ticket = t])
    BY <1>12 DEF StartMfa
  <2>2. /\ [Idle EXCEPT !.pc = "claim", !.ticket = t] \in Call
        /\ [Idle EXCEPT !.pc = "claim", !.ticket = t].pc = "claim"
    BY IdleCall DEF TypeOK, Call, Idle
  <2> QED
    BY <1>0, <1>12, <2>1, <2>2, Quiet DEF StartMfa, At
<1>13. ASSUME NEW p \in Proc, ClaimTicket(p) PROVE GuessInv'
  <2>1. [Idle EXCEPT !.pc = "loadMfa"] \in Call /\ [Idle EXCEPT !.pc = "loadMfa"].pc = "loadMfa"
    BY IdleCall DEF Call, Idle
  <2> QED
    BY <1>0, <1>13, <2>1, Quiet DEF ClaimTicket, At
<1>14. ASSUME NEW p \in Proc, LoadMfaUser(p) PROVE GuessInv'
  <2>1. /\ Idle \in Call /\ Idle.pc = "idle"
        /\ Loaded("clear") \in Call /\ Loaded("clear").pc = "clear"
    BY IdleCall, LoadedCall DEF Idle, Loaded
  <2> QED
    BY <1>0, <1>14, <2>1, Quiet DEF LoadMfaUser, At
<1>15. ASSUME NEW p \in Proc, Fail(p) PROVE GuessInv'
  <2>1. CASE p \in Pending
    BY <1>15, <2>1, PendingFails
  <2>2. CASE p \notin Pending
    <3>1. Idle \in Call /\ Idle.pc = "idle"
      BY IdleCall DEF Idle
    <3>2. Go(p, Idle) /\ row' = row /\ guesses' = guesses
      BY <1>0, <1>15, <2>2 DEF Fail
    <3> QED
      BY <2>2, <3>1, <3>2, Quiet
  <2> QED
    BY <2>1, <2>2
<1>16. CASE RowLockEnds
  BY <1>16, Anew DEF RowLockEnds
<1>17. ASSUME row' = row, guesses' = guesses, call' = call PROVE GuessInv'
  BY <1>17 DEF GuessInv, RowRank, Verifying, Pending, At
<1>18. CASE AttemptsLockEnds \/ AttemptsExpire \/ TicketExpires \/ UNCHANGED vars
  BY <1>17, <1>18 DEF AttemptsLockEnds, AttemptsExpire, TicketExpires, vars
<1> QED
  BY <1>1, <1>2, <1>3, <1>4, <1>5, <1>6, <1>7, <1>8, <1>9, <1>10, <1>11, <1>12, <1>13,
     <1>14, <1>15, <1>16, <1>18 DEF Next

LEMMA GuessInit == Init => GuessInv
<1> SUFFICES ASSUME Init PROVE GuessInv
  OBVIOUS
<1>1. TypeOK
  BY TypesInit
<1>2. row.lock # "active" /\ guesses = 0
  BY DEF Init
<1>3. Cardinality(Pending) \in Nat
  BY Positions, Sizes
<1>4. RowRank \in Nat
  <2>1. /\ Max \in Nat /\ row.failed \in Nat
        /\ [p \in Proc |-> call[p].failed] \in [Proc -> Nat]
    BY <1>1, NumberAssumption DEF TypeOK, Call
  <2>2. Profile(Proc, Max, row.failed, Verifying \cup Pending, [p \in Proc |-> call[p].failed])
          \in Profiles(Proc, Max)
    BY <2>1, Positions, ProcAssumption, ProfileType
  <2> QED
    BY <2>1, <2>2, ProcAssumption, RankLimit DEF RowRank
<1> QED
  BY <1>2, <1>3, <1>4 DEF GuessInv

LEMMA GuessLimit == TypeOK /\ GuessInv => GuessBound
<1> SUFFICES ASSUME TypeOK, GuessInv PROVE GuessBound
  OBVIOUS
<1>1. /\ Cardinality(Verifying) \in Nat /\ Cardinality(Pending) \in Nat /\ Cardinality(Proc) \in Nat
      /\ Cardinality(Pending) <= Cardinality(Proc) /\ guesses \in Nat
  BY Positions, Sizes DEF TypeOK
<1>2. RowRank \in 0 .. LostUpdates(Proc, Max) /\ LostUpdates(Proc, Max) \in Nat
  <2>1. /\ Max \in Nat /\ row.failed \in Nat
        /\ [p \in Proc |-> call[p].failed] \in [Proc -> Nat]
    BY NumberAssumption DEF TypeOK, Call
  <2>2. Profile(Proc, Max, row.failed, Verifying \cup Pending, [p \in Proc |-> call[p].failed])
          \in Profiles(Proc, Max)
    BY <2>1, Positions, ProcAssumption, ProfileType
  <2> QED
    BY <2>1, <2>2, ProcAssumption, RankLimit DEF RowRank
<1> QED
  BY <1>1, <1>2 DEF GuessInv, GuessBound

\* Whatever the limit and however many requests compare passwords at once, no
\* more are compared between two ends of a lock than lost updates allow: every
\* save of an older instance raises the profile of the row (User.ts:
\* incrementFailedAttempts), and LostUpdates counts the profiles.
THEOREM GuessesBounded == Spec => []GuessBound
<1>1. TypeOK /\ GuessInv /\ [Next]_vars => (TypeOK /\ GuessInv)'
  BY TypesStep, GuessStep
<1>2. Init => TypeOK /\ GuessInv
  BY TypesInit, GuessInit
<1> QED
  BY <1>1, <1>2, GuessLimit, PTL DEF Spec

-----------------------------------------------------------------------------
(***************************************************************************)
(* The blocks of one IP address (AddressBlock), for the same requests: its *)
(* record of failures is read and written like the row, and lost updates   *)
(* postpone its block in the same way.                                     *)
(***************************************************************************)
LEMMA AddressCalls ==
  /\ Clean \in Record
  /\ \A pc \in {"idle", "pexpire", "get", "cleanUp", "decide", "read", "store", "block", "forget", "clear"},
        k \in {"none", "login", "mfa", "other"} :
        /\ [AddressIdle EXCEPT !.pc = pc, !.kind = k] \in AddressCall
        /\ [AddressIdle EXCEPT !.pc = pc] \in AddressCall
  /\ AddressIdle \in AddressCall
<1>1. Clean \in Record
  BY LimitAssumption DEF Clean, Record
<1>2. AddressIdle \in AddressCall
  BY <1>1 DEF AddressIdle, AddressCall
<1> QED
  BY <1>1, <1>2 DEF AddressCall, AddressIdle

\* A step that moves one request keeps the types if its locals have theirs.
LEMMA AddressMoved ==
  ASSUME AddressTypeOK, NEW p \in Proc, NEW c \in AddressCall, Go(p, c)
  PROVE  /\ call' \in [Proc -> AddressCall]
         /\ call'[p] = c /\ \A q \in Proc : q # p => call'[q] = call[q]
  BY DEF AddressTypeOK, Go

LEMMA AddressMovePc ==
  ASSUME AddressTypeOK, NEW p \in Proc, NEW pc \in {"cleanUp", "decide", "forget"}
  PROVE  [call[p] EXCEPT !.pc = pc] \in AddressCall
  BY DEF AddressTypeOK, AddressCall

LEMMA AddressNotBlocked ==
  ASSUME AddressTypeOK, NEW p \in Proc
  PROVE  NotBlocked(call[p]) \in AddressCall
  BY AddressCalls, AddressMovePc DEF NotBlocked

LEMMA AddressFailed ==
  ASSUME NEW r \in Record, NEW a \in Account
  PROVE  Failed(r, a) \in Record
  BY LimitAssumption DEF Failed, Record

LEMMA AddressTypesInit == AddressInit => AddressTypeOK
<1> SUFFICES ASSUME AddressInit PROVE AddressTypeOK
  OBVIOUS
<1>1. hits \in 0 .. MaxRequests + 1 /\ missed \in Nat /\ lifted \in Nat
  BY LimitAssumption DEF AddressInit
<1>2. record \in Record /\ call \in [Proc -> AddressCall]
  BY AddressCalls DEF AddressInit
<1> QED
  BY <1>1, <1>2 DEF AddressInit, AddressTypeOK

LEMMA AddressTypesStep ==
  AddressTypeOK /\ [AddressNext]_addressVars => AddressTypeOK'
<1> SUFFICES ASSUME AddressTypeOK, [AddressNext]_addressVars PROVE AddressTypeOK'
  OBVIOUS
<1> USE DEF CountAnew
<1>1. ASSUME NEW p \in Proc, NEW k \in {"login", "mfa"}, CountRequest(p, k)
      PROVE  AddressTypeOK'
  <2>1. /\ Counted(k) \in AddressCall /\ AddressIdle \in AddressCall
        /\ [AddressIdle EXCEPT !.pc = "pexpire", !.kind = k] \in AddressCall
    BY AddressCalls DEF Counted
  <2>2. hits' \in 0 .. MaxRequests + 1
    BY <1>1, LimitAssumption DEF CountRequest, AddressTypeOK
  <2>3. call' \in [Proc -> AddressCall]
    BY <1>1, <2>1, AddressMoved DEF CountRequest
  <2> QED
    BY <1>1, <2>2, <2>3 DEF CountRequest, AddressTypeOK
<1>2. ASSUME NEW p \in Proc, StartOther(p) PROVE AddressTypeOK'
  <2>1. [AddressIdle EXCEPT !.pc = "get", !.kind = "other"] \in AddressCall
    BY AddressCalls
  <2> QED
    BY <1>2, <2>1, AddressMoved DEF StartOther, AddressTypeOK
<1>3. ASSUME NEW p \in Proc, SetWindow(p) PROVE AddressTypeOK'
  <2>1. Counted(call[p].kind) \in AddressCall
    <3>1. call[p].kind \in {"none", "login", "mfa", "other"}
      BY DEF AddressTypeOK, AddressCall
    <3> QED
      BY <3>1, AddressCalls DEF Counted
  <2>2. ends' \in BOOLEAN
    BY <1>3 DEF SetWindow
  <2> QED
    BY <1>3, <2>1, <2>2, AddressMoved DEF SetWindow, AddressTypeOK
<1>4. ASSUME NEW p \in Proc, GetBlock(p) PROVE AddressTypeOK'
  <2>1. call' \in [Proc -> AddressCall]
    <3>1. /\ NotBlocked(call[p]) \in AddressCall /\ AddressIdle \in AddressCall
          /\ [call[p] EXCEPT !.pc = "cleanUp"] \in AddressCall
      BY AddressCalls, AddressMovePc, AddressNotBlocked
    <3>2. block \in {"none", "live", "past"}
      BY DEF AddressTypeOK
    <3> QED
      BY <1>4, <3>1, <3>2, AddressMoved DEF GetBlock
  <2> QED
    BY <1>4, <2>1 DEF GetBlock, AddressTypeOK
<1>5. ASSUME NEW p \in Proc, CleanUp(p) PROVE AddressTypeOK'
  <2>1. call' \in [Proc -> AddressCall]
    BY <1>5, AddressNotBlocked, AddressMoved DEF CleanUp
  <2> QED
    BY <1>5, <2>1 DEF CleanUp, AddressTypeOK
<1>6. ASSUME NEW p \in Proc, Decide(p) PROVE AddressTypeOK'
  <2>1. call' \in [Proc -> AddressCall]
    BY <1>6, AddressCalls, AddressMoved DEF Decide
  <2> QED
    BY <1>6, <2>1 DEF Decide, AddressTypeOK
<1>7. ASSUME NEW p \in Proc, ReadRecord(p) PROVE AddressTypeOK'
  <2>1. [call[p] EXCEPT !.pc = "store", !.read = record] \in AddressCall
    BY DEF AddressTypeOK, AddressCall
  <2> QED
    BY <1>7, <2>1, AddressMoved DEF ReadRecord, AddressTypeOK
<1>8. ASSUME NEW p \in Proc, NEW a \in Account, StoreRecord(p, a) PROVE AddressTypeOK'
  <2>1. record' \in Record
    <3>1. call[p].read \in Record
      BY DEF AddressTypeOK, AddressCall
    <3> QED
      BY <1>8, <3>1, AddressFailed DEF StoreRecord
  <2>2. missed' \in Nat /\ tried' \subseteq Account
    BY <1>8 DEF StoreRecord, AddressTypeOK
  <2>3. call' \in [Proc -> AddressCall]
    BY <1>8, AddressCalls, AddressMoved DEF StoreRecord
  <2> QED
    BY <1>8, <2>1, <2>2, <2>3 DEF StoreRecord, AddressTypeOK
<1>9. ASSUME NEW p \in Proc, PutBlock(p) PROVE AddressTypeOK'
  BY <1>9, AddressMovePc, AddressMoved DEF PutBlock, AddressTypeOK
<1>10. ASSUME NEW p \in Proc, Forget(p) PROVE AddressTypeOK'
  BY <1>10, AddressCalls, AddressMoved DEF Forget, AddressTypeOK
<1>11. ASSUME NEW p \in Proc, ClearFailed(p) PROVE AddressTypeOK'
  BY <1>11, AddressCalls, AddressMoved DEF ClearFailed, AddressTypeOK
<1>12. ASSUME NEW p \in Proc, AddressFail(p) PROVE AddressTypeOK'
  <2>1. orphaned' \in BOOLEAN
    BY <1>12 DEF AddressFail, AddressTypeOK, At
  <2> QED
    BY <1>12, <2>1, AddressCalls, AddressMoved DEF AddressFail, AddressTypeOK
<1>13. CASE WindowEnds
  <2>1. hits' \in 0 .. MaxRequests + 1
    <3>1. hits' = 0
      BY <1>13 DEF WindowEnds
    <3> QED
      BY <3>1, LimitAssumption
  <2> QED
    BY <1>13, <2>1 DEF WindowEnds, AddressTypeOK
<1>14. CASE BlockEnds
  BY <1>14 DEF BlockEnds, AddressTypeOK
<1>15. CASE RecordExpires
  BY <1>15, AddressCalls DEF RecordExpires, AddressTypeOK
<1>16. CASE UNCHANGED addressVars
  BY <1>16 DEF addressVars, AddressTypeOK
<1> QED
  BY <1>1, <1>2, <1>3, <1>4, <1>5, <1>6, <1>7, <1>8, <1>9, <1>10, <1>11, <1>12, <1>13,
     <1>14, <1>15, <1>16 DEF AddressNext, Step

Storing == {p \in Proc : call[p].pc = "store"}

\* The lists of accounts are finite, also where Account is not.
FiniteLists ==
  /\ IsFiniteSet(record.targets) /\ IsFiniteSet(tried)
  /\ \A p \in Proc : IsFiniteSet(call[p].read.targets)

MissRank == Rank(Proc, MaxFailed, Profile(Proc, MaxFailed, record.failed, Storing,
                                          [p \in Proc |-> call[p].read.failed]))

\* What a list counts for: the accounts on it that were tried since the last block.
AimRank == Rank(Proc, MaxTargets,
                Profile(Proc, MaxTargets, Cardinality(record.targets \cap tried), Storing,
                        [p \in Proc |-> Cardinality(call[p].read.targets \cap tried)]))

\* As many failures, and accounts if they are all different, have been stored
\* as the profile of the record has risen.
StoreInv ==
  /\ missed <= MissRank
  /\ Cardinality(tried) <= missed
  /\ missed = Cardinality(tried) => Cardinality(tried) <= AimRank

LEMMA Lists ==
  ASSUME FiniteLists, NEW T
  PROVE  /\ IsFiniteSet(record.targets \cap T) /\ Cardinality(record.targets \cap T) \in Nat
         /\ Cardinality(tried) \in Nat
         /\ \A p \in Proc : /\ IsFiniteSet(call[p].read.targets \cap T)
                            /\ Cardinality(call[p].read.targets \cap T) \in Nat
<1>1. \A S : IsFiniteSet(S) => IsFiniteSet(S \cap T) /\ Cardinality(S \cap T) \in Nat
  BY FS_Intersection, FS_CardinalityType
<1> QED
  BY <1>1, FS_CardinalityType DEF FiniteLists

\* A step stores a failure, deletes the record and starts the count anew, or
\* leaves the record: then whoever is about to store was so before or has just
\* read the record.
LEMMA AddressSteps ==
  ASSUME AddressTypeOK, [AddressNext]_addressVars
  PROVE  \/ \E p \in Proc, a \in Account : StoreRecord(p, a)
         \/ /\ missed' = 0 /\ tried' = {} /\ record' = Clean
            /\ \A q \in Proc : \/ call'[q].read = call[q].read
                               \/ call'[q].read = Clean
         \/ /\ record' = record /\ missed' = missed /\ tried' = tried
            /\ \A q \in Proc : \/ call'[q].read = call[q].read
                               \/ call'[q].read = Clean
                               \/ call'[q].read = record
            /\ \A q \in Storing' : (q \in Storing /\ call'[q].read = call[q].read)
                                      \/ call'[q].read = record
<1> DEFINE Other == /\ record' = record /\ missed' = missed /\ tried' = tried
                    /\ \A q \in Proc : \/ call'[q].read = call[q].read
                                       \/ call'[q].read = Clean
                                       \/ call'[q].read = record
                    /\ \A q \in Storing' : (q \in Storing /\ call'[q].read = call[q].read)
                                              \/ call'[q].read = record
<1>1. ASSUME record' = record, missed' = missed, tried' = tried,
             NEW p \in Proc, NEW c \in AddressCall, Go(p, c),
             c.pc # "store" \/ c.read = record,
             c.read = call[p].read \/ c.read = Clean \/ c.read = record
      PROVE  Other
  <2>1. call'[p] = c /\ \A q \in Proc : q # p => call'[q] = call[q]
    BY <1>1, AddressMoved
  <2>2. \A q \in Storing' : q \in Proc /\ call'[q].pc = "store"
    BY DEF Storing
  <2>3. \A q \in Storing' : (q \in Storing /\ call'[q].read = call[q].read)
                               \/ call'[q].read = record
    BY <1>1, <2>1, <2>2 DEF Storing
  <2> QED
    BY <1>1, <2>1, <2>3
<1> HIDE DEF Other
<1>2. AddressIdle \in AddressCall /\ AddressIdle.pc # "store" /\ AddressIdle.read = Clean
  BY AddressCalls DEF AddressIdle
<1>3. \A pc \in {"pexpire", "get", "cleanUp", "decide", "read", "block", "forget", "clear"},
         k \in {"none", "login", "mfa", "other"} :
         /\ [AddressIdle EXCEPT !.pc = pc] \in AddressCall
         /\ [AddressIdle EXCEPT !.pc = pc].pc # "store"
         /\ [AddressIdle EXCEPT !.pc = pc].read = Clean
         /\ [AddressIdle EXCEPT !.pc = pc, !.kind = k] \in AddressCall
         /\ [AddressIdle EXCEPT !.pc = pc, !.kind = k].pc # "store"
         /\ [AddressIdle EXCEPT !.pc = pc, !.kind = k].read = Clean
  <2>1. \A pc \in {"pexpire", "get", "cleanUp", "decide", "read", "block", "forget", "clear"},
           k \in {"none", "login", "mfa", "other"} :
           /\ [AddressIdle EXCEPT !.pc = pc].pc # "store"
           /\ [AddressIdle EXCEPT !.pc = pc].read = Clean
           /\ [AddressIdle EXCEPT !.pc = pc, !.kind = k].pc # "store"
           /\ [AddressIdle EXCEPT !.pc = pc, !.kind = k].read = Clean
    BY DEF AddressIdle
  <2> QED
    BY <2>1, AddressCalls
<1>4. \A p \in Proc, pc \in {"cleanUp", "decide", "forget"} :
         /\ [call[p] EXCEPT !.pc = pc] \in AddressCall
         /\ [call[p] EXCEPT !.pc = pc].pc # "store"
         /\ [call[p] EXCEPT !.pc = pc].read = call[p].read
  <2>0. \A p \in Proc : call[p] \in AddressCall
    BY DEF AddressTypeOK
  <2>1. \A p \in Proc, pc \in {"cleanUp", "decide", "forget"} :
           /\ [call[p] EXCEPT !.pc = pc].pc # "store"
           /\ [call[p] EXCEPT !.pc = pc].read = call[p].read
    BY <2>0 DEF AddressCall
  <2> QED
    BY <2>1, AddressMovePc
<1>5. ASSUME NEW p \in Proc, NEW k \in {"login", "mfa"}, CountRequest(p, k) PROVE Other
  <2>1. \E c \in AddressCall : Go(p, c) /\ c.pc # "store" /\ c.read = Clean
    BY <1>2, <1>3, <1>5 DEF CountRequest, Counted
  <2> QED
    BY <1>1, <1>5, <2>1 DEF CountRequest
<1>6. ASSUME NEW p \in Proc, StartOther(p) PROVE Other
  BY <1>1, <1>3, <1>6 DEF StartOther
<1>7. ASSUME NEW p \in Proc, SetWindow(p) PROVE Other
  <2>1. call[p].kind \in {"none", "login", "mfa", "other"}
    BY DEF AddressTypeOK, AddressCall
  <2>2. \E c \in AddressCall : Go(p, c) /\ c.pc # "store" /\ c.read = Clean
    BY <1>3, <1>7, <2>1 DEF SetWindow, Counted
  <2> QED
    BY <1>1, <1>7, <2>2 DEF SetWindow
<1>8. ASSUME NEW p \in Proc, GetBlock(p) PROVE Other
  <2>1. block \in {"none", "live", "past"}
    BY DEF AddressTypeOK
  <2>2. \E c \in AddressCall : /\ Go(p, c) /\ c.pc # "store"
                               /\ c.read = Clean \/ c.read = call[p].read
    BY <1>2, <1>4, <1>8, <2>1 DEF GetBlock, NotBlocked
  <2> QED
    BY <1>1, <1>8, <2>2 DEF GetBlock
<1>9. ASSUME NEW p \in Proc, CleanUp(p) PROVE Other
  <2>1. \E c \in AddressCall : /\ Go(p, c) /\ c.pc # "store"
                               /\ c.read = Clean \/ c.read = call[p].read
    BY <1>2, <1>4, <1>9 DEF CleanUp, NotBlocked
  <2> QED
    BY <1>1, <1>9, <2>1 DEF CleanUp
<1>10. ASSUME NEW p \in Proc, Decide(p) PROVE Other
  <2>1. \E c \in AddressCall : Go(p, c) /\ c.pc # "store" /\ c.read = Clean
    BY <1>2, <1>3, <1>10 DEF Decide
  <2> QED
    BY <1>1, <1>10, <2>1 DEF Decide
<1>11. ASSUME NEW p \in Proc, ReadRecord(p) PROVE Other
  <2>1. [call[p] EXCEPT !.pc = "store", !.read = record] \in AddressCall
    BY DEF AddressTypeOK, AddressCall
  <2>2. [call[p] EXCEPT !.pc = "store", !.read = record].read = record
    BY DEF AddressTypeOK, AddressCall
  <2> QED
    BY <1>1, <1>11, <2>1, <2>2 DEF ReadRecord
<1>12. ASSUME NEW p \in Proc, PutBlock(p) PROVE Other
  BY <1>1, <1>4, <1>12 DEF PutBlock
<1>13. ASSUME NEW p \in Proc, Forget(p) \/ ClearFailed(p)
       PROVE  /\ missed' = 0 /\ tried' = {} /\ record' = Clean
              /\ \A q \in Proc : \/ call'[q].read = call[q].read
                                 \/ call'[q].read = Clean
  <2>1. missed' = 0 /\ tried' = {} /\ record' = Clean /\ Go(p, AddressIdle)
    BY <1>13 DEF Forget, ClearFailed, CountAnew
  <2> QED
    BY <1>2, <2>1, AddressMoved
<1>14. ASSUME NEW p \in Proc, AddressFail(p) PROVE Other
  BY <1>1, <1>2, <1>14 DEF AddressFail
<1>15. CASE RecordExpires
  BY <1>15 DEF RecordExpires, CountAnew
<1>16. ASSUME record' = record, missed' = missed, tried' = tried, call' = call PROVE Other
  BY <1>16 DEF Other, Storing
<1>17. CASE WindowEnds \/ BlockEnds \/ UNCHANGED addressVars
  BY <1>16, <1>17 DEF WindowEnds, BlockEnds, addressVars, Other
<1> QED
  BY <1>5, <1>6, <1>7, <1>8, <1>9, <1>10, <1>11, <1>12, <1>13, <1>14, <1>15, <1>17
     DEF AddressNext, Step, Other

LEMMA RankRange ==
  ASSUME NEW limit \in Nat, NEW r \in Nat, NEW H \in SUBSET Proc, NEW h \in [Proc -> Nat]
  PROVE  /\ Rank(Proc, limit, Profile(Proc, limit, r, H, h)) \in 0 .. LostUpdates(Proc, limit)
         /\ LostUpdates(Proc, limit) \in Nat
  BY ProcAssumption, ProfileType, RankLimit

LEMMA MissProfile ==
  ASSUME AddressTypeOK
  PROVE  /\ MaxFailed \in Nat /\ record.failed \in Nat /\ Storing \in SUBSET Proc
         /\ [p \in Proc |-> call[p].read.failed] \in [Proc -> Nat]
         /\ MissRank \in 0 .. LostUpdates(Proc, MaxFailed) /\ LostUpdates(Proc, MaxFailed) \in Nat
<1>1. /\ MaxFailed \in Nat /\ record.failed \in Nat /\ Storing \in SUBSET Proc
      /\ [p \in Proc |-> call[p].read.failed] \in [Proc -> Nat]
  BY LimitAssumption DEF AddressTypeOK, AddressCall, Record, Storing
<1> QED
  BY <1>1, RankRange DEF MissRank

LEMMA MissProfileNext ==
  ASSUME AddressTypeOK'
  PROVE  /\ record'.failed \in Nat /\ Storing' \in SUBSET Proc
         /\ [p \in Proc |-> call'[p].read.failed] \in [Proc -> Nat]
         /\ MissRank' \in 0 .. LostUpdates(Proc, MaxFailed)
<1>1. /\ MaxFailed \in Nat /\ record'.failed \in Nat /\ Storing' \in SUBSET Proc
      /\ [p \in Proc |-> call'[p].read.failed] \in [Proc -> Nat]
  BY LimitAssumption DEF AddressTypeOK, AddressCall, Record, Storing
<1> QED
  BY <1>1, RankRange DEF MissRank

LEMMA AimProfile ==
  ASSUME FiniteLists
  PROVE  /\ MaxTargets \in Nat /\ Cardinality(record.targets \cap tried) \in Nat
         /\ Storing \in SUBSET Proc
         /\ [p \in Proc |-> Cardinality(call[p].read.targets \cap tried)] \in [Proc -> Nat]
         /\ AimRank \in 0 .. LostUpdates(Proc, MaxTargets) /\ LostUpdates(Proc, MaxTargets) \in Nat
<1>1. /\ MaxTargets \in Nat /\ Cardinality(record.targets \cap tried) \in Nat
      /\ Storing \in SUBSET Proc
      /\ [p \in Proc |-> Cardinality(call[p].read.targets \cap tried)] \in [Proc -> Nat]
  BY Lists, LimitAssumption DEF Storing
<1> QED
  BY <1>1, RankRange DEF AimRank

LEMMA AimProfileNext ==
  ASSUME FiniteLists'
  PROVE  /\ Cardinality(record'.targets \cap tried') \in Nat /\ Cardinality(tried') \in Nat
         /\ Storing' \in SUBSET Proc
         /\ [p \in Proc |-> Cardinality(call'[p].read.targets \cap tried')] \in [Proc -> Nat]
         /\ AimRank' \in 0 .. LostUpdates(Proc, MaxTargets)
<1>1. \A S : IsFiniteSet(S) => IsFiniteSet(S \cap tried') /\ Cardinality(S \cap tried') \in Nat
  BY FS_Intersection, FS_CardinalityType
<1>2. /\ MaxTargets \in Nat /\ Cardinality(record'.targets \cap tried') \in Nat
      /\ Storing' \in SUBSET Proc /\ Cardinality(tried') \in Nat
      /\ [p \in Proc |-> Cardinality(call'[p].read.targets \cap tried')] \in [Proc -> Nat]
  BY <1>1, FS_CardinalityType, LimitAssumption DEF FiniteLists, Storing
<1> QED
  BY <1>2, RankRange DEF AimRank

\* What a failure that leads to no block stores.
LEMMA Stored ==
  ASSUME AddressTypeOK, FiniteLists, NEW p \in Proc, NEW a \in Account,
         StoreRecord(p, a), ~TooMany(Failed(call[p].read, a))
  PROVE  /\ p \in Storing /\ p \notin Storing'
         /\ record'.failed = call[p].read.failed + 1 /\ record'.failed < MaxFailed
         /\ record'.targets = call[p].read.targets \cup {a}
         /\ Cardinality(record'.targets) < MaxTargets
         /\ missed' = missed + 1 /\ tried' = tried \cup {a}
         /\ call'[p].read = Clean
         /\ \A q \in Proc : q # p => call'[q] = call[q]
         /\ \A q \in Storing' : q # p /\ q \in Storing /\ call'[q].read = call[q].read
<1> DEFINE r == Failed(call[p].read, a)
<1>1. call[p].read.failed \in 0 .. MaxFailed /\ MaxFailed \in Nat /\ MaxTargets \in Nat
  BY LimitAssumption DEF AddressTypeOK, AddressCall, Record
<1>2. IsFiniteSet(call[p].read.targets \cup {a}) /\ Cardinality(call[p].read.targets \cup {a}) \in Nat
  BY FS_AddElement, FS_CardinalityType DEF FiniteLists
<1>3. /\ record' = r /\ missed' = missed + 1 /\ tried' = tried \cup {a}
      /\ Go(p, AddressIdle) /\ call[p].pc = "store"
  BY DEF StoreRecord, At
<1>4. r.targets = call[p].read.targets \cup {a}
  BY DEF Failed
<1>5. r.failed = IF call[p].read.failed < MaxFailed THEN call[p].read.failed + 1 ELSE MaxFailed
  BY DEF Failed
<1>6. ~(r.failed >= MaxFailed) /\ ~(Cardinality(r.targets) >= MaxTargets)
  BY DEF TooMany
<1>7. r.failed = call[p].read.failed + 1 /\ r.failed < MaxFailed
  BY <1>1, <1>5, <1>6
<1>8. Cardinality(r.targets) < MaxTargets
  BY <1>1, <1>2, <1>4, <1>6
<1> HIDE DEF r
<1>9. /\ call'[p] = AddressIdle /\ \A q \in Proc : q # p => call'[q] = call[q]
  BY <1>3, AddressCalls, AddressMoved
<1>10. AddressIdle.pc # "store" /\ AddressIdle.read = Clean
  BY DEF AddressIdle
<1> QED
  BY <1>3, <1>4, <1>7, <1>8, <1>9, <1>10 DEF Storing

LEMMA FiniteListsStep ==
  ASSUME AddressTypeOK, FiniteLists, [AddressNext]_addressVars
  PROVE  FiniteLists'
<1>0. IsFiniteSet({}) /\ Clean.targets = {}
  BY FS_EmptySet DEF Clean
<1>1. ASSUME NEW p \in Proc, NEW a \in Account, StoreRecord(p, a) PROVE FiniteLists'
  <2>1. IsFiniteSet(record'.targets)
    <3>1. record'.targets = call[p].read.targets \cup {a}
      BY <1>1 DEF StoreRecord, Failed
    <3> QED
      BY <3>1, FS_AddElement DEF FiniteLists
  <2>2. IsFiniteSet(tried')
    <3>1. tried' = {} \/ tried' = tried \cup {a}
      BY <1>1 DEF StoreRecord, CountAnew
    <3> QED
      BY <1>0, <3>1, FS_AddElement DEF FiniteLists
  <2>3. \A q \in Proc : call'[q].read = call[q].read \/ call'[q].read = Clean
    <3>1. \E c \in AddressCall : Go(p, c) /\ c.read = Clean
      <4>1. /\ AddressIdle \in AddressCall /\ [AddressIdle EXCEPT !.pc = "block"] \in AddressCall
            /\ AddressIdle.read = Clean
            /\ [AddressIdle EXCEPT !.pc = "block"].read = Clean
        BY AddressCalls DEF AddressIdle
      <4> QED
        BY <1>1, <4>1 DEF StoreRecord
    <3> QED
      BY <3>1, AddressMoved
  <2> QED
    BY <1>0, <2>1, <2>2, <2>3 DEF FiniteLists
<1>2. CASE /\ tried' = {} /\ record' = Clean
           /\ \A q \in Proc : \/ call'[q].read = call[q].read
                              \/ call'[q].read = Clean
  BY <1>0, <1>2 DEF FiniteLists
<1>3. CASE /\ record' = record /\ tried' = tried
           /\ \A q \in Proc : \/ call'[q].read = call[q].read
                              \/ call'[q].read = Clean
                              \/ call'[q].read = record
  BY <1>0, <1>3 DEF FiniteLists
<1> QED
  BY <1>1, <1>2, <1>3, AddressSteps

\* The number of failures: a failure stored raises the profile of the record.
LEMMA MissStored ==
  ASSUME AddressTypeOK, AddressTypeOK', FiniteLists, NEW p \in Proc, NEW a \in Account,
         StoreRecord(p, a), ~TooMany(Failed(call[p].read, a))
  PROVE  MissRank + 1 <= MissRank'
<1> DEFINE h == [q \in Proc |-> call[q].read.failed]
           g == [q \in Proc |-> call'[q].read.failed]
<1>1. \A q \in Storing' : q \in Storing /\ h[q] <= g[q]
  <2> SUFFICES ASSUME NEW q \in Storing' PROVE q \in Storing /\ h[q] <= g[q]
    OBVIOUS
  <2>1. q \in Proc /\ q \in Storing /\ call'[q].read = call[q].read
    BY Stored DEF Storing
  <2>2. h[q] = g[q] /\ h[q] \in Nat
    BY <2>1, MissProfile
  <2> QED
    BY <2>1, <2>2
<1>2. p \in Storing /\ p \notin Storing' /\ h[p] + 1 = record'.failed /\ h[p] + 1 < MaxFailed
  BY Stored
<1>3. MaxFailed \in Nat /\ record.failed \in Nat /\ Storing \in SUBSET Proc /\ h \in [Proc -> Nat]
  BY MissProfile
<1>4. Storing' \in SUBSET Proc /\ g \in [Proc -> Nat]
  BY MissProfileNext
<1> HIDE DEF h, g
<1>5. Rank(Proc, MaxFailed, Profile(Proc, MaxFailed, record.failed, Storing, h)) + 1
        <= Rank(Proc, MaxFailed, Profile(Proc, MaxFailed, h[p] + 1, Storing', g))
  BY <1>1, <1>2, <1>3, <1>4, ProcAssumption, Written
<1> QED
  BY <1>2, <1>5 DEF MissRank, h, g

LEMMA MissKept ==
  ASSUME AddressTypeOK, AddressTypeOK', record' = record,
         \A q \in Storing' : (q \in Storing /\ call'[q].read = call[q].read)
                                \/ call'[q].read = record
  PROVE  MissRank <= MissRank'
<1> DEFINE h == [q \in Proc |-> call[q].read.failed]
           g == [q \in Proc |-> call'[q].read.failed]
<1>1. MaxFailed \in Nat /\ record.failed \in Nat /\ Storing \in SUBSET Proc /\ h \in [Proc -> Nat]
  BY MissProfile
<1>2. Storing' \in SUBSET Proc /\ g \in [Proc -> Nat]
  BY MissProfileNext
<1>3. \A q \in Storing' : (q \in Storing /\ h[q] <= g[q]) \/ g[q] >= record.failed
  <2> SUFFICES ASSUME NEW q \in Storing'
               PROVE  (q \in Storing /\ h[q] <= g[q]) \/ g[q] >= record.failed
    OBVIOUS
  <2>1. q \in Proc /\ h[q] = call[q].read.failed /\ g[q] = call'[q].read.failed
    BY <1>2
  <2>2. h[q] \in Int /\ g[q] \in Int
    BY <1>1, <1>2, <2>1
  <2> QED
    BY <1>1, <2>1, <2>2
<1> HIDE DEF h, g
<1>4. Rank(Proc, MaxFailed, Profile(Proc, MaxFailed, record.failed, Storing, h))
        <= Rank(Proc, MaxFailed, Profile(Proc, MaxFailed, record.failed, Storing', g))
  BY <1>1, <1>2, <1>3, ProcAssumption, Released
<1> QED
  BY <1>4 DEF MissRank, h, g

\* The number of accounts: so does one stored for an account not tried yet.
LEMMA AimStored ==
  ASSUME AddressTypeOK, FiniteLists, FiniteLists', NEW p \in Proc, NEW a \in Account \ tried,
         StoreRecord(p, a), ~TooMany(Failed(call[p].read, a))
  PROVE  AimRank + 1 <= AimRank'
<1> DEFINE h == [q \in Proc |-> Cardinality(call[q].read.targets \cap tried)]
           g == [q \in Proc |-> Cardinality(call'[q].read.targets \cap tried')]
<1>1. /\ MaxTargets \in Nat /\ Cardinality(record.targets \cap tried) \in Nat
      /\ Storing \in SUBSET Proc /\ h \in [Proc -> Nat]
  BY AimProfile
<1>2. /\ Storing' \in SUBSET Proc /\ g \in [Proc -> Nat]
      /\ Cardinality(record'.targets \cap tried') \in Nat
  BY AimProfileNext
<1>3. \A q \in Storing' : q \in Storing /\ h[q] <= g[q]
  <2> SUFFICES ASSUME NEW q \in Storing' PROVE q \in Storing /\ h[q] <= g[q]
    OBVIOUS
  <2>1. q \in Proc /\ q \in Storing /\ call'[q].read = call[q].read /\ tried' = tried \cup {a}
    BY <1>2, Stored
  <2>2. call[q].read.targets \cap tried \in SUBSET (call'[q].read.targets \cap tried')
    BY <2>1
  <2>3. IsFiniteSet(call'[q].read.targets \cap tried')
    BY <2>1, FS_Intersection DEF FiniteLists
  <2> QED
    BY <2>1, <2>2, <2>3, FS_Subset
<1>4. h[p] + 1 = Cardinality(record'.targets \cap tried') /\ h[p] + 1 < MaxTargets
  <2>1. record'.targets \cap tried' = (call[p].read.targets \cap tried) \cup {a}
    BY Stored
  <2>2. IsFiniteSet(call[p].read.targets \cap tried) /\ a \notin call[p].read.targets \cap tried
    BY Lists
  <2>3. Cardinality(record'.targets \cap tried') = h[p] + 1
    BY <2>1, <2>2, FS_AddElement
  <2>4. Cardinality(record'.targets \cap tried') <= Cardinality(record'.targets)
    BY FS_Intersection DEF FiniteLists
  <2>5. Cardinality(record'.targets) \in Nat /\ Cardinality(record'.targets) < MaxTargets
    BY Stored, FS_CardinalityType DEF FiniteLists
  <2> QED
    BY <1>1, <1>2, <2>3, <2>4, <2>5
<1>5. p \in Storing /\ p \notin Storing'
  BY Stored
<1> HIDE DEF h, g
<1>6. Rank(Proc, MaxTargets, Profile(Proc, MaxTargets, Cardinality(record.targets \cap tried), Storing, h)) + 1
        <= Rank(Proc, MaxTargets, Profile(Proc, MaxTargets, h[p] + 1, Storing', g))
  BY <1>1, <1>2, <1>3, <1>4, <1>5, ProcAssumption, Written
<1> QED
  BY <1>4, <1>6 DEF AimRank, h, g

LEMMA AimKept ==
  ASSUME FiniteLists, FiniteLists', record' = record, tried' = tried,
         \A q \in Storing' : (q \in Storing /\ call'[q].read = call[q].read)
                                \/ call'[q].read = record
  PROVE  AimRank <= AimRank'
<1> DEFINE h == [q \in Proc |-> Cardinality(call[q].read.targets \cap tried)]
           g == [q \in Proc |-> Cardinality(call'[q].read.targets \cap tried')]
           r == Cardinality(record.targets \cap tried)
<1>1. MaxTargets \in Nat /\ r \in Nat /\ Storing \in SUBSET Proc /\ h \in [Proc -> Nat]
  BY AimProfile
<1>2. Storing' \in SUBSET Proc /\ g \in [Proc -> Nat]
  BY AimProfileNext
<1>3. \A q \in Storing' : (q \in Storing /\ h[q] <= g[q]) \/ g[q] >= r
  <2> SUFFICES ASSUME NEW q \in Storing'
               PROVE  (q \in Storing /\ h[q] <= g[q]) \/ g[q] >= r
    OBVIOUS
  <2>1. /\ q \in Proc /\ h[q] = Cardinality(call[q].read.targets \cap tried)
        /\ g[q] = Cardinality(call'[q].read.targets \cap tried)
    BY <1>2
  <2>2. (q \in Storing /\ g[q] = h[q]) \/ g[q] = r
    BY <2>1
  <2> HIDE DEF h, g, r
  <2>3. h[q] \in Int /\ g[q] \in Int
    BY <1>1, <1>2, <2>1
  <2> QED
    BY <1>1, <2>2, <2>3
<1> HIDE DEF h, g, r
<1>4. Rank(Proc, MaxTargets, Profile(Proc, MaxTargets, r, Storing, h))
        <= Rank(Proc, MaxTargets, Profile(Proc, MaxTargets, r, Storing', g))
  BY <1>1, <1>2, <1>3, ProcAssumption, Released
<1> QED
  BY <1>4 DEF AimRank, h, g, r

LEMMA StoreInvStep ==
  ASSUME AddressTypeOK, AddressTypeOK', FiniteLists, FiniteLists', StoreInv,
         [AddressNext]_addressVars
  PROVE  StoreInv'
<1>1. /\ MissRank \in Nat /\ MissRank' \in Nat /\ AimRank \in Nat /\ AimRank' \in Nat
      /\ missed \in Nat /\ Cardinality(tried) \in Nat
  <2>1. MissRank \in Nat /\ AimRank \in Nat
    BY MissProfile, AimProfile
  <2>2. MissRank' \in Nat /\ AimRank' \in Nat
    BY MissProfileNext, AimProfileNext
  <2> QED
    BY <2>1, <2>2, Lists DEF AddressTypeOK
<1>2. CASE missed' = 0 /\ tried' = {}
  BY <1>1, <1>2, FS_EmptySet DEF StoreInv
<1>3. ASSUME NEW p \in Proc, NEW a \in Account, StoreRecord(p, a),
             ~TooMany(Failed(call[p].read, a))
      PROVE  StoreInv'
  <2>1. missed' = missed + 1 /\ tried' = tried \cup {a}
    BY <1>3, Stored
  <2>2. MissRank + 1 <= MissRank'
    BY <1>3, MissStored
  <2>3. CASE a \in tried
    <3>1. Cardinality(tried') = Cardinality(tried)
      BY <2>1, <2>3
    <3>2. missed' <= MissRank' /\ Cardinality(tried') < missed'
      BY <1>1, <2>1, <2>2, <3>1 DEF StoreInv
    <3> QED
      BY <1>1, <2>1, <3>1, <3>2 DEF StoreInv
  <2>4. CASE a \notin tried
    <3>1. Cardinality(tried') = Cardinality(tried) + 1
      BY <2>1, <2>4, FS_AddElement DEF FiniteLists
    <3>2. AimRank + 1 <= AimRank'
      BY <1>3, <2>4, AimStored
    <3> QED
      BY <1>1, <2>1, <2>2, <3>1, <3>2 DEF StoreInv
  <2> QED
    BY <2>3, <2>4
<1>4. ASSUME NEW p \in Proc, NEW a \in Account, StoreRecord(p, a),
             TooMany(Failed(call[p].read, a))
      PROVE  missed' = 0 /\ tried' = {}
  BY <1>4 DEF StoreRecord, CountAnew
<1>5. CASE /\ record' = record /\ missed' = missed /\ tried' = tried
           /\ \A q \in Storing' : (q \in Storing /\ call'[q].read = call[q].read)
                                     \/ call'[q].read = record
  <2>1. MissRank <= MissRank' /\ AimRank <= AimRank'
    BY <1>5, MissKept, AimKept
  <2> QED
    BY <1>1, <1>5, <2>1 DEF StoreInv
<1> QED
  BY <1>2, <1>3, <1>4, <1>5, AddressSteps

CleaningUp == {p \in Proc : call[p].pc = "cleanUp"}

\* Nobody starts to delete a block in force: whoever does found an earlier one,
\* and whoever set this one was not among them.
LiftInv ==
  /\ block = "past" => lifted = 0
  /\ block = "live" \/ lifted # 0 => lifted + Cardinality(CleaningUp) < Cardinality(Proc)

LEMMA LiftInvStep ==
  ASSUME AddressTypeOK, LiftInv, [AddressNext]_addressVars
  PROVE  LiftInv'
<1>0. /\ CleaningUp \in SUBSET Proc /\ CleaningUp' \in SUBSET Proc
      /\ lifted \in Nat /\ block \in {"none", "live", "past"}
      /\ Cardinality(CleaningUp) \in Nat /\ Cardinality(CleaningUp') \in Nat /\ Cardinality(Proc) \in Nat
  <2>1. /\ CleaningUp \in SUBSET Proc /\ CleaningUp' \in SUBSET Proc
        /\ lifted \in Nat /\ block \in {"none", "live", "past"}
    BY DEF CleaningUp, AddressTypeOK
  <2> QED
    BY <2>1, Sizes
<1>1. ASSUME block' = block, lifted' = lifted, CleaningUp' \subseteq CleaningUp PROVE LiftInv'
  <2>1. Cardinality(CleaningUp') <= Cardinality(CleaningUp)
    BY <1>0, <1>1, Sizes
  <2> QED
    BY <1>0, <1>1, <2>1 DEF LiftInv
<1>2. ASSUME block' = block, lifted' = lifted,
             NEW p \in Proc, NEW c \in AddressCall, Go(p, c), c.pc # "cleanUp"
      PROVE  LiftInv'
  <2>1. CleaningUp' \subseteq CleaningUp
    BY <1>2, AddressMoved DEF CleaningUp
  <2> QED
    BY <1>1, <1>2, <2>1
<1>3. AddressIdle \in AddressCall /\ AddressIdle.pc # "cleanUp"
  BY AddressCalls DEF AddressIdle
<1>4. \A pc \in {"pexpire", "get", "decide", "read", "block", "forget", "clear"},
         k \in {"none", "login", "mfa", "other"} :
         /\ [AddressIdle EXCEPT !.pc = pc] \in AddressCall
         /\ [AddressIdle EXCEPT !.pc = pc].pc # "cleanUp"
         /\ [AddressIdle EXCEPT !.pc = pc, !.kind = k] \in AddressCall
         /\ [AddressIdle EXCEPT !.pc = pc, !.kind = k].pc # "cleanUp"
  <2>1. \A pc \in {"pexpire", "get", "decide", "read", "block", "forget", "clear"},
           k \in {"none", "login", "mfa", "other"} :
           /\ [AddressIdle EXCEPT !.pc = pc].pc # "cleanUp"
           /\ [AddressIdle EXCEPT !.pc = pc, !.kind = k].pc # "cleanUp"
    BY DEF AddressIdle
  <2> QED
    BY <2>1, AddressCalls
<1>5. \A p \in Proc, pc \in {"decide", "forget"} :
         [call[p] EXCEPT !.pc = pc] \in AddressCall /\ [call[p] EXCEPT !.pc = pc].pc # "cleanUp"
  <2>1. \A p \in Proc, pc \in {"decide", "forget"} : [call[p] EXCEPT !.pc = pc].pc # "cleanUp"
    BY DEF AddressTypeOK, AddressCall
  <2> QED
    BY <2>1, AddressMovePc
<1>6. \A p \in Proc : /\ NotBlocked(call[p]) \in AddressCall
                      /\ NotBlocked(call[p]).pc # "cleanUp"
  BY <1>3, <1>5 DEF NotBlocked
<1>7. ASSUME NEW p \in Proc, NEW k \in {"login", "mfa"}, CountRequest(p, k) PROVE LiftInv'
  <2>1. \E c \in AddressCall : Go(p, c) /\ c.pc # "cleanUp"
    BY <1>3, <1>4, <1>7 DEF CountRequest, Counted
  <2> QED
    BY <1>2, <1>7, <2>1 DEF CountRequest
<1>8. ASSUME NEW p \in Proc, StartOther(p) PROVE LiftInv'
  BY <1>2, <1>4, <1>8 DEF StartOther
<1>9. ASSUME NEW p \in Proc, SetWindow(p) PROVE LiftInv'
  <2>1. call[p].kind \in {"none", "login", "mfa", "other"}
    BY DEF AddressTypeOK, AddressCall
  <2>2. \E c \in AddressCall : Go(p, c) /\ c.pc # "cleanUp"
    BY <1>4, <1>9, <2>1 DEF SetWindow, Counted
  <2> QED
    BY <1>2, <1>9, <2>2 DEF SetWindow
<1>10. ASSUME NEW p \in Proc, GetBlock(p) PROVE LiftInv'
  <2>1. CASE block = "past"
    BY <1>10, <2>1 DEF GetBlock, LiftInv
  <2>2. CASE block # "past"
    <3>1. \E c \in AddressCall : Go(p, c) /\ c.pc # "cleanUp"
      BY <1>0, <1>3, <1>6, <1>10, <2>2 DEF GetBlock
    <3> QED
      BY <1>2, <1>10, <3>1 DEF GetBlock
  <2> QED
    BY <2>1, <2>2
<1>11. ASSUME NEW p \in Proc, CleanUp(p) PROVE LiftInv'
  <2>1. p \in CleaningUp /\ Go(p, NotBlocked(call[p])) /\ block' = "none"
    BY <1>11 DEF CleanUp, At, CleaningUp
  <2>2. CleaningUp' = CleaningUp \ {p}
    BY <1>6, <2>1, AddressMoved DEF CleaningUp
  <2>3. Cardinality(CleaningUp') = Cardinality(CleaningUp) - 1
    BY <1>0, <2>1, <2>2, Sizes
  <2>4. lifted' = IF block = "live" THEN lifted + 1 ELSE lifted
    BY <1>11 DEF CleanUp
  <2>5. CASE block = "live"
    BY <1>0, <2>1, <2>3, <2>4, <2>5 DEF LiftInv
  <2>6. CASE block # "live"
    BY <1>0, <2>1, <2>3, <2>4, <2>6 DEF LiftInv
  <2> QED
    BY <2>5, <2>6
<1>12. ASSUME NEW p \in Proc, Decide(p) PROVE LiftInv'
  <2>1. \E c \in AddressCall : Go(p, c) /\ c.pc # "cleanUp"
    BY <1>3, <1>4, <1>12 DEF Decide
  <2> QED
    BY <1>2, <1>12, <2>1 DEF Decide
<1>13. ASSUME NEW p \in Proc, ReadRecord(p) PROVE LiftInv'
  <2>1. [call[p] EXCEPT !.pc = "store", !.read = record] \in AddressCall
    BY DEF AddressTypeOK, AddressCall
  <2>2. [call[p] EXCEPT !.pc = "store", !.read = record].pc = "store"
    BY DEF AddressTypeOK, AddressCall
  <2> QED
    BY <1>2, <1>13, <2>1, <2>2 DEF ReadRecord
<1>14. ASSUME NEW p \in Proc, NEW a \in Account, StoreRecord(p, a) PROVE LiftInv'
  <2>1. \E c \in AddressCall : Go(p, c) /\ c.pc # "cleanUp"
    BY <1>3, <1>4, <1>14 DEF StoreRecord
  <2> QED
    BY <1>2, <1>14, <2>1 DEF StoreRecord
<1>15. ASSUME NEW p \in Proc, PutBlock(p) PROVE LiftInv'
  <2>1. /\ p \in Proc \ CleaningUp /\ block' = "live" /\ lifted' = lifted
        /\ Go(p, [call[p] EXCEPT !.pc = "forget"])
    BY <1>15 DEF PutBlock, At, CleaningUp
  <2>2. CleaningUp' \subseteq CleaningUp
    <3>1. /\ [call[p] EXCEPT !.pc = "forget"] \in AddressCall
          /\ [call[p] EXCEPT !.pc = "forget"].pc # "cleanUp"
      BY <1>5
    <3> QED
      BY <2>1, <3>1, AddressMoved DEF CleaningUp
  <2>3. Cardinality(CleaningUp') <= Cardinality(CleaningUp)
    BY <1>0, <2>2, Sizes
  <2>4. Cardinality(CleaningUp) < Cardinality(Proc)
    <3>1. CleaningUp \cup {p} \in SUBSET Proc
      BY <1>0
    <3>2. Cardinality(CleaningUp \cup {p}) = Cardinality(CleaningUp) + 1
      BY <1>0, <2>1, Sizes
    <3>3. Cardinality(CleaningUp \cup {p}) <= Cardinality(Proc)
      BY <3>1, Sizes
    <3> QED
      BY <1>0, <3>2, <3>3
  <2> QED
    BY <1>0, <2>1, <2>3, <2>4 DEF LiftInv
<1>16. ASSUME NEW p \in Proc, Forget(p) \/ ClearFailed(p) \/ AddressFail(p)
       PROVE  LiftInv'
  BY <1>2, <1>3, <1>16 DEF Forget, ClearFailed, AddressFail
<1>17. CASE BlockEnds
  <2>1. CASE block = "live"
    BY <1>17, <2>1 DEF BlockEnds, LiftInv
  <2>2. CASE block = "past"
    BY <1>17, <2>2 DEF BlockEnds, LiftInv
  <2> QED
    BY <1>0, <1>17, <2>1, <2>2 DEF BlockEnds
<1>18. CASE WindowEnds \/ RecordExpires \/ UNCHANGED addressVars
  <2>1. block' = block /\ lifted' = lifted /\ call' = call
    BY <1>18 DEF WindowEnds, RecordExpires, addressVars
  <2>2. CleaningUp' = CleaningUp
    BY <2>1 DEF CleaningUp
  <2> QED
    BY <1>1, <2>1, <2>2
<1> QED
  BY <1>7, <1>8, <1>9, <1>10, <1>11, <1>12, <1>13, <1>14, <1>15, <1>16, <1>17, <1>18
     DEF AddressNext, Step

LEMMA AddressStart ==
  ASSUME AddressInit
  PROVE  FiniteLists /\ StoreInv /\ LiftInv
<1>1. FiniteLists
  BY FS_EmptySet DEF AddressInit, Clean, AddressIdle, FiniteLists
<1>2. MissRank \in Nat /\ AimRank \in Nat
  BY <1>1, AddressTypesInit, MissProfile, AimProfile
<1>3. StoreInv
  BY <1>2, FS_EmptySet DEF AddressInit, StoreInv
<1>4. LiftInv
  BY DEF AddressInit, LiftInv
<1> QED
  BY <1>1, <1>3, <1>4

LEMMA AddressBounds ==
  ASSUME AddressTypeOK, FiniteLists, StoreInv, LiftInv
  PROVE  MissBound /\ TargetBound /\ LiftBound
<1>1. /\ MissRank \in 0 .. LostUpdates(Proc, MaxFailed) /\ LostUpdates(Proc, MaxFailed) \in Nat
      /\ AimRank \in 0 .. LostUpdates(Proc, MaxTargets) /\ LostUpdates(Proc, MaxTargets) \in Nat
      /\ missed \in Nat /\ lifted \in Nat /\ Cardinality(tried) \in Nat
  BY MissProfile, AimProfile, Lists DEF AddressTypeOK
<1>2. MissBound
  BY <1>1 DEF StoreInv, MissBound
<1>3. TargetBound
  BY <1>1 DEF StoreInv, TargetBound
<1>4. LiftBound
  <2>1. CleaningUp \in SUBSET Proc
    BY DEF CleaningUp
  <2>2. Cardinality(CleaningUp) \in Nat /\ Cardinality(Proc) \in Nat
    BY <2>1, Sizes
  <2>3. 0 < Cardinality(Proc)
    BY <2>2, AddressAssumption, FS_EmptySet
  <2> QED
    BY <1>1, <2>2, <2>3 DEF LiftInv, LiftBound
<1> QED
  BY <1>2, <1>3, <1>4

\* The state of AddressBlock keeps its types.
THEOREM AddressTypes == AddressSpec => []AddressTypeOK
<1>1. AddressInit => AddressTypeOK
  BY AddressTypesInit
<1>2. AddressTypeOK /\ [AddressNext]_addressVars => AddressTypeOK'
  BY AddressTypesStep
<1> QED
  BY <1>1, <1>2, PTL DEF AddressSpec

LEMMA AddressInvariant == AddressSpec => [](AddressTypeOK /\ FiniteLists /\ StoreInv /\ LiftInv)
<1> DEFINE I == AddressTypeOK /\ FiniteLists /\ StoreInv /\ LiftInv
<1>1. AddressInit => I
  BY AddressTypesInit, AddressStart
<1>2. I /\ [AddressNext]_addressVars => I'
  BY AddressTypesStep, FiniteListsStep, StoreInvStep, LiftInvStep
<1> QED
  BY <1>1, <1>2, PTL DEF AddressSpec

\* Whatever the limits and however many logins of an address fail at once, its
\* block is postponed by no more failures than lost updates allow
\* (IPBlockingService.ts: recordFailedAttempt),
THEOREM FewMissed == AddressSpec => []MissBound
  BY AddressInvariant, AddressBounds, PTL

\* nor, while no account is aimed at twice, by more accounts than they allow,
THEOREM FewTargets == AddressSpec => []TargetBound
  BY AddressInvariant, AddressBounds, PTL

\* and it is lifted in force less often than there are requests (isBlocked).
THEOREM FewLifted == AddressSpec => []LiftBound
  BY AddressInvariant, AddressBounds, PTL

\* A window of requests only starts with the command that will give it an end.
LEMMA WindowStep ==
  AddressTypeOK /\ WindowHasEnd /\ [AddressNext]_addressVars => WindowHasEnd'
<1> SUFFICES ASSUME AddressTypeOK, WindowHasEnd, [AddressNext]_addressVars,
                    hits' > 0, ~ends', ~orphaned'
             PROVE  \E p \in Proc : At(p, "pexpire")'
  BY DEF WindowHasEnd
<1> DEFINE Waits == \E p \in Proc : At(p, "pexpire")
<1>h. hits \in Nat
  BY LimitAssumption DEF AddressTypeOK
<1>w. ASSUME UNCHANGED <<hits, ends, orphaned>> PROVE Waits
  BY <1>w DEF WindowHasEnd
\* A request that is elsewhere, and moves, leaves who waits where he is.
<1>m. ASSUME NEW p \in Proc, ~At(p, "pexpire"), NEW c, Go(p, c), Waits
      PROVE  Waits'
  <2>1. PICK q \in Proc : At(q, "pexpire")
    BY <1>m
  <2>2. q # p
    BY <1>m, <2>1
  <2>3. call'[q] = call[q]
    BY <1>m, <2>2 DEF Go, AddressTypeOK
  <2> QED
    BY <2>1, <2>3 DEF At
<1>1. ASSUME NEW p \in Proc, NEW k \in {"login", "mfa"}, CountRequest(p, k)
      PROVE  Waits'
  <2>1. CASE hits = 0
    <3>1. hits' = 1
      BY <1>1, <2>1, LimitAssumption DEF CountRequest
    <3>2. Go(p, [AddressIdle EXCEPT !.pc = "pexpire", !.kind = k])
      BY <1>1, <3>1 DEF CountRequest
    <3>3. call'[p] = [AddressIdle EXCEPT !.pc = "pexpire", !.kind = k]
      BY <3>2, AddressCalls, AddressMoved
    <3> QED
      BY <3>3 DEF At, AddressIdle
  <2>2. CASE hits # 0
    <3>1. Waits
      <4>1. hits > 0 /\ ~ends /\ ~orphaned
        BY <1>1, <2>2, <1>h DEF CountRequest
      <4> QED
        BY <4>1 DEF WindowHasEnd
    <3>2. ~At(p, "pexpire")
      BY <1>1 DEF CountRequest, At
    <3>3. \E c : Go(p, c)
      BY <1>1 DEF CountRequest
    <3> QED
      BY <3>1, <3>2, <3>3, <1>m
  <2> QED
    BY <2>1, <2>2
<1>2. ASSUME NEW p \in Proc, SetWindow(p) PROVE FALSE
  BY <1>2 DEF SetWindow
<1>3. ASSUME NEW p \in Proc, AddressFail(p) PROVE Waits'
  <2>1. ~At(p, "pexpire") /\ UNCHANGED <<hits, ends, orphaned>> /\ \E c : Go(p, c)
    <3>1. orphaned' = (orphaned \/ At(p, "pexpire"))
      BY <1>3 DEF AddressFail
    <3>2. ~At(p, "pexpire") /\ ~orphaned
      BY <3>1
    <3>3. UNCHANGED orphaned
      BY <3>2, AddressTypesStep DEF AddressTypeOK
    <3>4. UNCHANGED <<hits, ends>> /\ Go(p, AddressIdle)
      BY <1>3 DEF AddressFail
    <3> QED
      BY <3>2, <3>3, <3>4
  <2> QED
    BY <2>1, <1>w, <1>m
<1>4. CASE WindowEnds
  BY <1>4, <1>h DEF WindowEnds
<1>5. CASE BlockEnds \/ RecordExpires \/ UNCHANGED addressVars
  <2>1. UNCHANGED <<hits, ends, orphaned, call>>
    BY <1>5 DEF BlockEnds, RecordExpires, addressVars
  <2> QED
    BY <2>1, <1>w DEF At
<1>6. ASSUME NEW p \in Proc,
             \/ StartOther(p) \/ GetBlock(p) \/ CleanUp(p) \/ Decide(p) \/ ReadRecord(p)
             \/ \E a \in Account : StoreRecord(p, a)
             \/ PutBlock(p) \/ Forget(p) \/ ClearFailed(p)
      PROVE  Waits'
  <2>1. UNCHANGED <<hits, ends, orphaned>>
    BY <1>6 DEF StartOther, GetBlock, CleanUp, Decide, ReadRecord, StoreRecord, PutBlock,
                Forget, ClearFailed
  <2>2. ~At(p, "pexpire")
    BY <1>6 DEF StartOther, GetBlock, CleanUp, Decide, ReadRecord, StoreRecord, PutBlock,
                Forget, ClearFailed, At
  <2>3. \E c : Go(p, c)
    <3>1. ASSUME NEW a \in Account, StoreRecord(p, a) PROVE \E c : Go(p, c)
      <4>1. CASE TooMany(Failed(call[p].read, a))
        BY <3>1, <4>1 DEF StoreRecord
      <4>2. CASE ~TooMany(Failed(call[p].read, a))
        BY <3>1, <4>2 DEF StoreRecord
      <4> QED
        BY <4>1, <4>2
    <3> QED
      BY <1>6, <3>1 DEF StartOther, GetBlock, CleanUp, Decide, ReadRecord, PutBlock,
                        Forget, ClearFailed
  <2> QED
    BY <2>1, <2>2, <2>3, <1>w, <1>m
<1> QED
  BY <1>1, <1>2, <1>3, <1>4, <1>5, <1>6 DEF AddressNext, Step

\* A count of requests that refuses an address never stays behind without a
\* time to live, or a request about to set it, unless one died in between
\* (RateLimiter.ts: checkIpRateLimit).
THEOREM WindowsEnd == AddressSpec => []WindowHasEnd
<1>1. AddressInit => WindowHasEnd
  BY DEF AddressInit, WindowHasEnd
<1>2. AddressTypeOK /\ WindowHasEnd /\ [AddressNext]_addressVars => WindowHasEnd'
  BY WindowStep
<1> QED
  BY <1>1, <1>2, AddressTypes, PTL DEF AddressSpec
=============================================================================
