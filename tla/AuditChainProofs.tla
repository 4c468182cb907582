-------------------------- MODULE AuditChainProofs --------------------------
(***************************************************************************)
(* For every number of writers, skew of their clocks, and length of the    *)
(* table: the properties of AuditChain.  That the chain forks little needs *)
(* the calls that have read a row counted with those that follow it; what  *)
(* verifyIntegrity reports needs, of each row written alone, that the row  *)
(* it names is the last of those nobody has tampered with.                 *)
(***************************************************************************)
EXTENDS AuditChain, FiniteSetTheorems, TLAPS

Row == [previous : Hashes, createdAt : Times, alone : BOOLEAN, hash : Nat]

ChainTypes ==
    /\ now \in 0..MaxTime
    /\ rows \in Seq(Row) /\ Len(rows) <= MaxRows
    /\ \A i \in 1..Len(rows) : rows[i].hash \in {i, NewHash(i)}
    /\ altered \subseteq 1..Len(rows)
    /\ removed \subseteq 1..Len(rows)
    /\ call \in [Proc -> Call]

\* h is the hash of one of the first n rows, and the one that row has if nobody
\* has touched it.
Names(h, n) == Named(h) <= n /\ (Named(h) \in Touched \/ h = Named(h))

NamesInv ==
    /\ \A i \in (1..Len(rows)) \ Touched : Names(rows[i].previous, i - 1)
    /\ \A p \in Proc : Names(call[p].previous, Len(rows))

\* Calls in flight that will name row r.
Readers(r) == {p \in Proc : call[p].pc # "idle" /\ call[p].previous = r}

\* Rows that name row r and follow it in time.
Followers(r) == {i \in 1..Len(rows) :
                    /\ rows[i].previous = r
                    /\ r # NoRow => rows[r].createdAt < rows[i].createdAt}

\* Once a row has a follower, nobody reads it as the last one any more.
ForkInv ==
    Tampered = {} =>
        \A r \in 0..Len(rows) :
            Followers(r) = {} \/ Cardinality(Followers(r)) + Cardinality(Readers(r)) <= Cardinality(Proc)

\* Of the first n rows of h, those of T excluded, row r is one of the last
\* moment, if it is not of T itself.
IsLastOf(h, T, r, n) ==
    r \in T \/ \A j \in (1..n) \ T : r # NoRow /\ h[j].createdAt <= h[r].createdAt

AloneInv ==
    /\ \A p \in Proc : call[p].pc # "idle" /\ call[p].alone =>
          /\ \A q \in Proc \ {p} : call[q].pc = "idle"
          /\ IsLastOf(rows, Tampered, Named(call[p].previous), Len(rows))
    /\ \A i \in (1..Len(rows)) \ Touched : rows[i].alone =>
          IsLastOf(rows, Tampered, Named(rows[i].previous), i - 1)

ChainInv == ChainTypes /\ NamesInv /\ ForkInv /\ AloneInv

-----------------------------------------------------------------------------
(* Numbers, rows and sets of calls.                                        *)

LEMMA Numbers ==
  /\ Limit \in Nat \ {0} /\ Skew \in Nat /\ MaxTime \in Nat /\ MaxRows \in Nat
  /\ Cardinality(Proc) \in Nat
  BY NumberAssumption, ProcAssumption, FS_CardinalityType

LEMMA NamedHash ==
  /\ Named(0) = 0
  /\ \A h \in Hashes : Named(h) \in Nat /\ (h <= MaxRows => Named(h) = h)
  /\ \A i \in 0..MaxRows : Named(i) = i
  /\ \A i \in 1..MaxRows : Named(i) = i /\ Named(NewHash(i)) = i /\ NewHash(i) # i
  BY Numbers DEF Named, NewHash, Hashes

LEMMA IdleCall ==
  /\ Idle \in Call /\ Idle.pc = "idle" /\ Idle.previous = 0 /\ Idle.alone = FALSE
  BY Numbers DEF Idle, Call, NoRow, Hashes, Times

LEMMA Table ==
  ASSUME ChainTypes
  PROVE  /\ DOMAIN rows = 1..Len(rows) /\ Len(rows) \in Nat /\ Len(rows) <= MaxRows
         /\ \A i \in 1..Len(rows) :
               /\ rows[i] \in Row /\ rows[i].previous \in Hashes /\ rows[i].previous \in Nat
               /\ rows[i].createdAt \in Nat /\ rows[i].alone \in BOOLEAN
               /\ rows[i].hash \in {i, NewHash(i)} /\ rows[i].hash \in Hashes
<1>1. rows \in Seq(Row)
  BY DEF ChainTypes
<1>2. DOMAIN rows = 1..Len(rows) /\ Len(rows) \in Nat /\ \A i \in 1..Len(rows) : rows[i] \in Row
  BY <1>1
<1>3. \A i \in 1..Len(rows) : rows[i].hash \in {i, NewHash(i)} /\ i <= MaxRows
  BY <1>2, Numbers DEF ChainTypes
<1>4. \A i \in 1..MaxRows : i \in Hashes /\ NewHash(i) \in Hashes
  BY Numbers DEF Hashes, NewHash
<1>5. Hashes \subseteq Nat /\ Times \subseteq Nat
  BY Numbers DEF Hashes, Times
<1>6. Len(rows) <= MaxRows
  BY DEF ChainTypes
<1>7. ASSUME NEW i \in 1..Len(rows)
      PROVE  /\ rows[i] \in Row /\ rows[i].previous \in Hashes /\ rows[i].previous \in Nat
             /\ rows[i].createdAt \in Nat /\ rows[i].alone \in BOOLEAN
             /\ rows[i].hash \in {i, NewHash(i)} /\ rows[i].hash \in Hashes
  <2>1. i \in 1..MaxRows
    BY <1>2, <1>3, Numbers
  <2>2. rows[i].hash \in {i, NewHash(i)} /\ rows[i].hash \in Hashes
    BY <1>3, <1>4, <2>1
  <2>3. rows[i] \in Row
    BY <1>2
  <2>4. rows[i].previous \in Hashes /\ rows[i].createdAt \in Times /\ rows[i].alone \in BOOLEAN
    BY <2>3 DEF Row
  <2> QED
    BY <1>5, <2>2, <2>3, <2>4
<1> QED
  BY <1>2, <1>6, <1>7

LEMMA KeptRow ==
  ASSUME ChainTypes, NEW i \in Kept
  PROVE  i \in 1..Len(rows) /\ i \in 1..MaxRows /\ i \notin removed /\ rows[i] \in Row
<1>1. i \in 1..Len(rows) /\ i \notin removed
  BY Table DEF Kept
<1> QED
  BY <1>1, Table, Numbers

LEMMA Callers ==
  ASSUME ChainTypes, NEW p \in Proc
  PROVE  /\ call[p] \in Call /\ call[p].pc \in {"idle", "stamp", "insert"}
         /\ call[p].previous \in Hashes
         /\ call[p].createdAt \in Times
         /\ call[p].alone \in BOOLEAN
  BY DEF ChainTypes, Call

\* Rows that nobody has tampered with.
LEMMA Untouched ==
  ASSUME ChainTypes
  PROVE  /\ Tampered \subseteq 1..Len(rows) /\ Touched \subseteq 1..Len(rows)
         /\ Touched \subseteq Tampered /\ removed \subseteq Tampered
         /\ \A i \in (1..Len(rows)) \ Touched : rows[i].hash = i /\ i \notin altered
  BY Table DEF ChainTypes, Touched, Tampered

LEMMA Fewer ==
  ASSUME NEW A, NEW B, A \subseteq B, B \subseteq Proc
  PROVE  /\ Cardinality(A) \in Nat /\ Cardinality(B) \in Nat
         /\ Cardinality(A) <= Cardinality(B) /\ Cardinality(B) <= Cardinality(Proc)
<1>1. IsFiniteSet(B) /\ Cardinality(B) <= Cardinality(Proc)
  BY ProcAssumption, FS_Subset
<1>2. IsFiniteSet(A) /\ Cardinality(A) <= Cardinality(B)
  BY <1>1, FS_Subset
<1> QED
  BY <1>1, <1>2, FS_CardinalityType

LEMMA OneFewer ==
  ASSUME NEW A, NEW B, NEW p \in B, A \subseteq B \ {p}, B \subseteq Proc
  PROVE  /\ Cardinality(A) \in Nat /\ Cardinality(B) \in Nat
         /\ Cardinality(A) + 1 <= Cardinality(B)
<1>1. IsFiniteSet(B)
  BY ProcAssumption, FS_Subset
<1>2. Cardinality(B \ {p}) = Cardinality(B) - 1
  BY <1>1, FS_RemoveElement
<1>3. Cardinality(A) \in Nat /\ Cardinality(A) <= Cardinality(B \ {p})
  BY Fewer
<1> QED
  BY <1>2, <1>3, Fewer

LEMMA FollowersFinite ==
  ASSUME ChainTypes, NEW r
  PROVE  IsFiniteSet(Followers(r)) /\ Cardinality(Followers(r)) \in Nat
<1>1. IsFiniteSet(1..Len(rows))
  BY Table, FS_Interval
<1>2. Followers(r) \subseteq 1..Len(rows)
  BY DEF Followers
<1> QED
  BY <1>1, <1>2, FS_Subset, FS_CardinalityType

-----------------------------------------------------------------------------
(* One lemma per action.                                                   *)

LEMMA ChainInit == Init => ChainInv
<1> SUFFICES ASSUME Init PROVE ChainInv
  OBVIOUS
<1>1. rows = <<>> /\ Len(rows) = 0 /\ 1..Len(rows) = {} /\ \A p \in Proc : call[p] = Idle
  BY DEF Init
<1>2. rows \in Seq(Row)
  BY <1>1
<1>3. ChainTypes
  BY <1>1, <1>2, IdleCall, Numbers DEF Init, ChainTypes
<1>4. ForkInv
  BY <1>1 DEF ForkInv, Followers
<1>5. AloneInv
  BY <1>1, IdleCall DEF AloneInv
<1>6. NamesInv
  BY <1>1, IdleCall, NamedHash DEF NamesInv, Names
<1> QED
  BY <1>3, <1>4, <1>5, <1>6 DEF ChainInv

\* The table stays, and no call more is about to name a row.
LEMMA FewerReaders ==
  ASSUME ChainInv, UNCHANGED <<rows, altered, removed>>, Tampered = {},
         NEW r \in 0..Len(rows), Readers(r)' \subseteq Readers(r)
  PROVE  \/ Followers(r)' = {}
         \/ Cardinality(Followers(r)') + Cardinality(Readers(r)') <= Cardinality(Proc)
<1>1. Followers(r)' = Followers(r)
  BY DEF Followers
<1>2. Readers(r) \subseteq Proc
  BY DEF Readers
<1>3. /\ Cardinality(Readers(r)') \in Nat /\ Cardinality(Readers(r)) \in Nat
      /\ Cardinality(Readers(r)') <= Cardinality(Readers(r))
  BY <1>2, Fewer
<1>4. Cardinality(Followers(r)) \in Nat
  BY FollowersFinite DEF ChainInv
<1>5. \/ Followers(r) = {}
      \/ Cardinality(Followers(r)) + Cardinality(Readers(r)) <= Cardinality(Proc)
  BY <1>1 DEF ChainInv, ForkInv
<1> QED
  BY <1>1, <1>3, <1>4, <1>5, Numbers

\* findOne: a row that is the last in time has no follower.
LEMMA ReadLastKeeps ==
  ASSUME ChainInv, NEW p \in Proc, ReadLast(p)
  PROVE  ChainInv'
<1> USE DEF ChainInv
<1> DEFINE others == {q \in Proc \ {p} : ~At(q, "idle")}
           n == Len(rows)
<1>1. PICK r \in 0..MaxRows :
        /\ IsLast(r)
        /\ call' = [q \in Proc |->
                      IF q = p THEN [Idle EXCEPT !.pc = "stamp", !.previous = HashOf(r),
                                                 !.alone = (others = {})]
                      ELSE [call[q] EXCEPT !.alone = FALSE]]
  BY Zenon DEF ReadLast
<1>2. call[p].pc = "idle" /\ UNCHANGED <<now, rows, altered, removed>>
  BY DEF ReadLast, At
<1>3. HashOf(r) \in Hashes /\ Named(HashOf(r)) = r /\ r <= n /\ Names(HashOf(r), n)
  <2>1. CASE r = NoRow
    BY <2>1, NamedHash, Numbers, Table DEF HashOf, NoRow, Hashes, Names
  <2>2. CASE r # NoRow
    <3>1. r \in 1..n /\ r \in 1..MaxRows
      <4>1. r \in Kept
        BY <1>1, <2>2 DEF IsLast
      <4> QED
        BY <4>1, KeptRow
    <3>2. HashOf(r) = rows[r].hash /\ rows[r].hash \in {r, NewHash(r)} /\ rows[r].hash \in Hashes
      BY <2>2, <3>1, Table DEF HashOf
    <3>3. rows[r].hash = r \/ r \in Touched
      BY <3>1, Table DEF Touched
    <3> QED
      BY <3>1, <3>2, <3>3, NamedHash DEF Names
  <2> QED
    BY <2>1, <2>2
<1>3a. PICK h \in Hashes : h = HashOf(r)
  BY <1>3
<1>3b. /\ call'[p].pc = "stamp" /\ call'[p].previous = h /\ call'[p] \in Call
       /\ call'[p].alone => others = {}
  BY <1>1, <1>3a, IdleCall DEF Call, Idle
<1>3c. Named(h) = r /\ Names(h, n)
  BY <1>3, <1>3a
<1>4. ASSUME NEW q \in Proc \ {p}
      PROVE  /\ call'[q].pc = call[q].pc /\ call'[q].previous = call[q].previous
             /\ call'[q].alone = FALSE /\ call'[q] \in Call
  BY <1>1, Callers DEF Call
<1>5. DOMAIN rows = 1..n /\ n \in Nat /\ Kept = (1..n) \ removed
  BY Table DEF Kept
<1>6. IsLastOf(rows, Tampered, r, n) /\ (Tampered = {} => Followers(r) = {})
  <2>0. removed \subseteq Tampered
    BY Untouched
  <2>1. CASE Kept = {}
    <3>1. r = 0 /\ IsLastOf(rows, Tampered, r, n)
      BY <1>1, <1>5, <2>0, <2>1 DEF IsLast, NoRow, IsLastOf
    <3>2. Tampered = {} => n = 0
      BY <1>5, <2>0, <2>1
    <3> QED
      BY <1>5, <3>1, <3>2 DEF Followers
  <2>2. CASE Kept # {}
    <3>1. r \in Kept /\ \A i \in Kept : rows[i].createdAt <= rows[r].createdAt
      BY <1>1, <2>2 DEF IsLast
    <3>2. r \in 1..n /\ r # NoRow
      BY <1>5, <3>1 DEF NoRow
    <3>3. IsLastOf(rows, Tampered, r, n)
      BY <1>5, <2>0, <3>1, <3>2 DEF IsLastOf
    <3>4. ASSUME Tampered = {}, NEW i \in Followers(r) PROVE FALSE
      <4>1. i \in 1..n /\ rows[r].createdAt < rows[i].createdAt
        BY <3>2 DEF Followers
      <4>2. rows[i].createdAt <= rows[r].createdAt
        BY <1>5, <2>0, <3>1, <3>4, <4>1
      <4> QED
        BY <3>2, <4>1, <4>2, Table
    <3> QED
      BY <3>2, <3>3, <3>4
  <2> QED
    BY <2>1, <2>2
<1>6a. Touched' = Touched /\ Tampered' = Tampered
  BY <1>2 DEF Touched, Tampered
<1>7. ChainTypes'
  <2>1. call' \in [Proc -> Call]
    BY <1>1, <1>3b, <1>4
  <2> QED
    BY <1>2, <2>1 DEF ChainTypes
<1>7a. NamesInv'
  <2>1. \A q \in Proc : Names(call[q].previous, n)
    BY DEF NamesInv
  <2>2. \A q \in Proc : Names(call'[q].previous, n)
    BY <1>3b, <1>3c, <1>4, <2>1
  <2> QED
    BY <1>2, <1>6a, <2>2 DEF NamesInv, Names
<1>8. ForkInv'
  <2> SUFFICES ASSUME Tampered = {}, NEW s \in 0..n
               PROVE  \/ Followers(s)' = {}
                      \/ Cardinality(Followers(s)') + Cardinality(Readers(s)') <= Cardinality(Proc)
    BY <1>2, <1>6a DEF ForkInv
  <2>1. CASE s = r
    BY <1>2, <1>6, <2>1 DEF Followers
  <2>2. CASE s # r
    <3>1. h # s
      <4>1. s \in 0..MaxRows
        BY <1>5, Table, Numbers
      <4> QED
        BY <1>3c, <2>2, <4>1, NamedHash
    <3>2. Readers(s)' \subseteq Readers(s)
      BY <1>3b, <1>4, <3>1 DEF Readers
    <3> QED
      BY <1>2, <3>2, FewerReaders
  <2> QED
    BY <2>1, <2>2
<1>9. AloneInv'
  <2>1. ASSUME NEW q \in Proc, call'[q].pc # "idle", call'[q].alone
        PROVE  /\ \A s \in Proc \ {q} : call'[s].pc = "idle"
               /\ IsLastOf(rows, Tampered, Named(call'[q].previous), n)
    <3>1. q = p
      BY <1>4, <2>1
    <3>2. \A s \in Proc \ {p} : call'[s].pc = "idle"
      BY <1>3b, <1>4, <2>1, <3>1 DEF At
    <3> QED
      BY <1>3b, <1>3c, <1>6, <3>1, <3>2
  <2> QED
    BY <1>2, <1>6a, <2>1 DEF AloneInv, IsLastOf
<1> QED
  BY <1>7, <1>7a, <1>8, <1>9

\* The time stamp, and calls that end without a row.
LEMMA MoveKeeps ==
  ASSUME ChainInv, NEW p \in Proc, NEW c \in Call, Go(p, c),
         UNCHANGED <<now, rows, altered, removed>>,
         c = Idle \/ (/\ call[p].pc # "idle" /\ c.previous = call[p].previous
                      /\ c.alone = call[p].alone)
  PROVE  ChainInv'
<1> USE DEF ChainInv
<1>1. call'[p] = c /\ (\A q \in Proc \ {p} : call'[q] = call[q]) /\ call' \in [Proc -> Call]
  BY DEF Go, ChainTypes
<1>1a. Touched' = Touched /\ Tampered' = Tampered
  BY DEF Touched, Tampered
<1>2. ChainTypes'
  BY <1>1 DEF ChainTypes
<1>2a. NamesInv'
  <2>1. Names(0, Len(rows))
    BY NamedHash, Table DEF Names
  <2>2. \A q \in Proc : Names(call[q].previous, Len(rows))
    BY DEF NamesInv
  <2>3. \A q \in Proc : call'[q].previous \in {0, call[q].previous}
    BY <1>1, IdleCall
  <2>4. \A q \in Proc : Names(call'[q].previous, Len(rows))
    BY <2>1, <2>2, <2>3
  <2> QED
    BY <1>1a, <2>4 DEF NamesInv, Names
<1>3. ForkInv'
  <2> SUFFICES ASSUME Tampered = {}, NEW s \in 0..Len(rows)
               PROVE  \/ Followers(s)' = {}
                      \/ Cardinality(Followers(s)') + Cardinality(Readers(s)') <= Cardinality(Proc)
    BY <1>1a DEF ForkInv
  <2>1. Readers(s)' \subseteq Readers(s)
    BY <1>1, IdleCall DEF Readers
  <2> QED
    BY <2>1, FewerReaders
<1>4. AloneInv'
  <2>1. ASSUME NEW q \in Proc, call'[q].pc # "idle", call'[q].alone
        PROVE  /\ \A s \in Proc \ {q} : call'[s].pc = "idle"
               /\ IsLastOf(rows, Tampered, Named(call'[q].previous), Len(rows))
    <3>1. call[q].pc # "idle" /\ call[q].alone /\ call'[q].previous = call[q].previous
      BY <1>1, <2>1, IdleCall
    <3>2. /\ \A s \in Proc \ {q} : call[s].pc = "idle"
          /\ IsLastOf(rows, Tampered, Named(call[q].previous), Len(rows))
      BY <3>1 DEF AloneInv
    <3>3. \A s \in Proc \ {q} : call'[s].pc = "idle"
      BY <1>1, <3>2, IdleCall
    <3> QED
      BY <3>1, <3>2, <3>3
  <2> QED
    BY <1>1a, <2>1 DEF AloneInv, IsLastOf
<1> QED
  BY <1>2, <1>2a, <1>3, <1>4

LEMMA StampKeeps ==
  ASSUME ChainInv, NEW p \in Proc, Stamp(p)
  PROVE  ChainInv'
<1>1. PICK t \in now..(now + Skew) : Go(p, [call[p] EXCEPT !.pc = "insert", !.createdAt = t])
  BY DEF Stamp
<1>2. call[p].pc = "stamp" /\ UNCHANGED <<now, rows, altered, removed>>
  BY DEF Stamp, At
<1> DEFINE d == [call[p] EXCEPT !.pc = "insert", !.createdAt = t]
<1>3. t \in Times
  BY Numbers DEF ChainInv, ChainTypes, Times
<1>4. d \in Call /\ d.previous = call[p].previous /\ d.alone = call[p].alone
  BY <1>3, Callers DEF ChainInv, Call
<1>5. Go(p, d)
  BY <1>1
<1> HIDE DEF d
<1> QED
  BY <1>2, <1>4, <1>5, MoveKeeps

LEMMA FailKeeps ==
  ASSUME ChainInv, NEW p \in Proc, Fail(p)
  PROVE  ChainInv'
  BY IdleCall, MoveKeeps DEF Fail

\* create: the row comes after those there are, and has no follower yet.
LEMMA InsertKeeps ==
  ASSUME ChainInv, NEW p \in Proc, Insert(p)
  PROVE  ChainInv'
<1> USE DEF ChainInv
<1> DEFINE n == Len(rows)
           r == call[p].previous
           row == [previous |-> r, createdAt |-> call[p].createdAt, alone |-> call[p].alone,
                   hash |-> n + 1]
<1>1. call[p].pc = "insert" /\ n < MaxRows /\ rows' = Append(rows, row) /\ Go(p, Idle)
      /\ UNCHANGED <<now, altered, removed>>
  BY DEF Insert, At
<1>2. call'[p] = Idle /\ (\A q \in Proc \ {p} : call'[q] = call[q]) /\ call' \in [Proc -> Call]
  BY <1>1, IdleCall DEF Go, ChainTypes
<1>3. row \in Row /\ row.previous = r /\ row.alone = call[p].alone
      /\ row.createdAt = call[p].createdAt /\ row.hash = n + 1
  BY Callers, Table DEF Row
<1>3a. r \in Hashes /\ Names(r, n)
  BY Callers DEF NamesInv
<1>4. rows \in Seq(Row) /\ n \in Nat
  BY DEF ChainTypes
<1> HIDE DEF row
<1>5. rows' \in Seq(Row) /\ Len(rows') = n + 1 /\ rows'[n + 1] = row
      /\ \A i \in 1..n : rows'[i] = rows[i]
  BY <1>1, <1>3, <1>4
<1>5a. DOMAIN rows = 1..n /\ DOMAIN rows' = 1..(n + 1)
  BY <1>5, Table
<1>5b. Touched' = Touched /\ Tampered' = Tampered
  <2>1. {i \in 1..(n + 1) : rows'[i].hash # i} = {i \in 1..n : rows[i].hash # i}
    BY <1>3, <1>4, <1>5
  <2> QED
    BY <1>1, <1>5a, <2>1 DEF Touched, Tampered
<1>5c. Touched \subseteq 1..n
  BY Untouched
<1> HIDE DEF n
<1>6. ChainTypes'
  <2>1. \A i \in 1..(n + 1) : rows'[i].hash \in {i, NewHash(i)}
    <3> SUFFICES ASSUME NEW i \in 1..(n + 1) PROVE rows'[i].hash \in {i, NewHash(i)}
      OBVIOUS
    <3>1. CASE i = n + 1
      BY <1>3, <1>5, <3>1
    <3>2. CASE i \in 1..n
      BY <1>5, <3>2 DEF ChainTypes, n
    <3> QED
      BY <1>4, <3>1, <3>2
  <2>3. altered \subseteq 1..(n + 1) /\ removed \subseteq 1..(n + 1) /\ n + 1 <= MaxRows
    BY <1>1, <1>4, Numbers DEF ChainTypes, n
  <2> QED
    BY <1>1, <1>2, <1>5, <2>1, <2>3 DEF ChainTypes
<1>6a. NamesInv'
  <2>1. ASSUME NEW i \in (1..(n + 1)) \ Touched PROVE Names(rows'[i].previous, i - 1)
    <3>1. CASE i = n + 1
      BY <1>3, <1>3a, <1>4, <1>5, <3>1 DEF Names
    <3>2. CASE i \in 1..n
      BY <1>5, <2>1, <3>2 DEF NamesInv, n
    <3> QED
      BY <1>4, <3>1, <3>2
  <2>2. ASSUME NEW q \in Proc PROVE Names(call'[q].previous, n + 1)
    <3>1. CASE q = p
      BY <1>2, <1>4, <3>1, IdleCall, NamedHash DEF Names
    <3>2. CASE q # p
      <4>1. call'[q] = call[q] /\ call[q].previous \in Hashes /\ Names(call[q].previous, n)
        BY <1>2, <3>2, Callers DEF NamesInv, n
      <4> QED
        BY <1>4, <4>1, NamedHash DEF Names
    <3> QED
      BY <3>1, <3>2
  <2> QED
    BY <1>5, <1>5b, <2>1, <2>2 DEF NamesInv, Names
<1>7. ForkInv'
  <2> SUFFICES ASSUME Tampered = {}, NEW s \in 0..(n + 1)
               PROVE  \/ Followers(s)' = {}
                      \/ Cardinality(Followers(s)') + Cardinality(Readers(s)') <= Cardinality(Proc)
    BY <1>5, <1>5b DEF ForkInv
  <2>0. Touched = {}
    BY Untouched
  <2>1. CASE s = n + 1
    <3>1. \A i \in 1..(n + 1) : rows'[i].previous # s
      <4> SUFFICES ASSUME NEW i \in 1..(n + 1) PROVE rows'[i].previous # s
        OBVIOUS
      <4>1. Names(rows'[i].previous, i - 1)
        BY <1>5, <1>5b, <1>6a, <2>0 DEF NamesInv, Names
      <4>2. rows'[i].previous <= i - 1
        BY <2>0, <4>1 DEF Names
      <4> QED
        BY <1>4, <2>1, <4>2
    <3> QED
      BY <1>5, <3>1 DEF Followers
  <2>2. ASSUME s \in 0..n
        PROVE  \A i \in 1..n : i \in Followers(s)' <=> i \in Followers(s)
    <3> SUFFICES ASSUME NEW i \in 1..n PROVE i \in Followers(s)' <=> i \in Followers(s)
      OBVIOUS
    <3>1. i \in 1..(n + 1) /\ rows'[i] = rows[i] /\ (s # NoRow => rows'[s] = rows[s])
      BY <1>4, <1>5, <2>2 DEF NoRow
    <3> QED
      BY <1>5, <3>1 DEF Followers, n
  <2>3. CASE s \in 0..n /\ s # r
    <3>1. Followers(s)' \subseteq Followers(s)
      <4> SUFFICES ASSUME NEW i \in Followers(s)' PROVE i \in Followers(s)
        OBVIOUS
      <4>1. i \in 1..(n + 1) /\ rows'[i].previous = s
        BY <1>5 DEF Followers
      <4>2. i \in 1..n
        BY <1>3, <1>4, <1>5, <2>3, <4>1
      <4> QED
        BY <2>2, <2>3, <4>2
    <3>2. Readers(s)' \subseteq Readers(s) /\ Readers(s) \subseteq Proc
      BY <1>2, IdleCall DEF Readers
    <3>3. /\ Cardinality(Readers(s)') \in Nat /\ Cardinality(Readers(s)) \in Nat
          /\ Cardinality(Readers(s)') <= Cardinality(Readers(s))
      BY <3>2, Fewer
    <3>4. /\ Cardinality(Followers(s)) \in Nat /\ Cardinality(Followers(s)') \in Nat
          /\ Cardinality(Followers(s)') <= Cardinality(Followers(s))
      BY <3>1, FollowersFinite, FS_Subset, FS_CardinalityType
    <3>5. \/ Followers(s) = {}
          \/ Cardinality(Followers(s)) + Cardinality(Readers(s)) <= Cardinality(Proc)
      BY <2>2, <2>3 DEF ForkInv, n
    <3> QED
      BY <3>1, <3>3, <3>4, <3>5, Numbers
  <2>4. CASE s \in 0..n /\ s = r
    <3>1. Followers(s)' \subseteq Followers(s) \cup {n + 1}
      <4> SUFFICES ASSUME NEW i \in Followers(s)', i # n + 1 PROVE i \in Followers(s)
        OBVIOUS
      <4>1. i \in 1..(n + 1)
        BY <1>5 DEF Followers
      <4>2. i \in 1..n
        BY <1>4, <4>1
      <4> QED
        BY <1>3, <2>2, <2>4, <4>2
    <3>2. p \in Readers(s) /\ Readers(s)' \subseteq Readers(s) \ {p} /\ Readers(s) \subseteq Proc
      BY <1>1, <1>2, <2>4, IdleCall DEF Readers
    <3>3. /\ Cardinality(Readers(s)') \in Nat /\ Cardinality(Readers(s)) \in Nat
          /\ Cardinality(Readers(s)') + 1 <= Cardinality(Readers(s))
          /\ Cardinality(Readers(s)) <= Cardinality(Proc)
      BY <3>2, OneFewer, Fewer
    <3>4. /\ Cardinality(Followers(s)) \in Nat /\ Cardinality(Followers(s)') \in Nat
          /\ Cardinality(Followers(s)') <= Cardinality(Followers(s)) + 1
      <4>1. IsFiniteSet(Followers(s)) /\ Cardinality(Followers(s)) \in Nat
        BY FollowersFinite
      <4>2. IsFiniteSet(Followers(s) \cup {n + 1})
            /\ Cardinality(Followers(s) \cup {n + 1}) <= Cardinality(Followers(s)) + 1
        <5>1. Cardinality(Followers(s) \cup {n + 1})
                \in {Cardinality(Followers(s)), Cardinality(Followers(s)) + 1}
          BY <4>1, FS_AddElement
        <5> QED
          BY <4>1, <5>1, FS_AddElement
      <4>3. IsFiniteSet(Followers(s)') /\ Cardinality(Followers(s)') <= Cardinality(Followers(s) \cup {n + 1})
        BY <3>1, <4>2, FS_Subset
      <4> QED
        BY <4>1, <4>2, <4>3, FS_CardinalityType
    <3>5. \/ Cardinality(Followers(s)) = 0
          \/ Cardinality(Followers(s)) + Cardinality(Readers(s)) <= Cardinality(Proc)
      BY <1>3, <2>4, FS_EmptySet DEF ForkInv, n
    <3> QED
      BY <3>3, <3>4, <3>5, Numbers
  <2> QED
    BY <1>4, <2>1, <2>3, <2>4
<1>8. AloneInv'
  <2>1. ASSUME NEW k \in 0..n, NEW s \in Nat, s <= n, IsLastOf(rows, Tampered, s, k)
        PROVE  IsLastOf(rows', Tampered, s, k)
    <3> SUFFICES ASSUME s \notin Tampered, NEW j \in (1..k) \ Tampered
                 PROVE  s # NoRow /\ rows'[j].createdAt <= rows'[s].createdAt
      BY DEF IsLastOf
    <3>1. s # NoRow /\ rows[j].createdAt <= rows[s].createdAt
      BY <2>1 DEF IsLastOf
    <3>2. j \in 1..n /\ s \in 1..n
      BY <1>4, <2>1, <3>1 DEF NoRow
    <3> QED
      BY <1>5, <3>1, <3>2
  <2>2. ASSUME NEW q \in Proc, call'[q].pc # "idle", call'[q].alone
        PROVE  FALSE
    <3>1. q # p /\ call'[q] = call[q]
      BY <1>2, <2>2, IdleCall
    <3>2. call[p].pc = "idle"
      BY <2>2, <3>1 DEF AloneInv
    <3> QED
      BY <1>1, <3>2
  <2>3. ASSUME NEW i \in (1..(n + 1)) \ Touched, rows'[i].alone
        PROVE  IsLastOf(rows', Tampered, Named(rows'[i].previous), i - 1)
    <3>1. CASE i = n + 1
      <4>1. call[p].alone /\ rows'[i].previous = r
        BY <1>3, <1>5, <2>3, <3>1
      <4>2. IsLastOf(rows, Tampered, Named(r), n)
        BY <1>1, <4>1 DEF AloneInv, n
      <4>3. Named(r) \in Nat /\ Named(r) <= n
        BY <1>3a, NamedHash DEF Names
      <4>4. IsLastOf(rows', Tampered, Named(r), n)
        BY <1>4, <2>1, <4>2, <4>3
      <4>5. i - 1 = n
        BY <1>4, <3>1
      <4> QED
        BY <4>1, <4>4, <4>5
    <3>2. CASE i \in 1..n
      <4>1. rows'[i] = rows[i] /\ rows[i].previous \in Hashes /\ i - 1 \in 0..n
            /\ Names(rows[i].previous, i - 1)
        BY <1>4, <1>5, <2>3, <3>2, Table DEF NamesInv, n
      <4>2. IsLastOf(rows, Tampered, Named(rows[i].previous), i - 1)
        BY <2>3, <3>2, <4>1 DEF AloneInv, n
      <4>3. PICK s \in Nat, k \in 0..n : s = Named(rows[i].previous) /\ k = i - 1
        BY <4>1, NamedHash
      <4>4. IsLastOf(rows', Tampered, s, k)
        BY <1>4, <2>1, <4>1, <4>2, <4>3 DEF Names
      <4> QED
        BY <4>1, <4>3, <4>4
    <3> QED
      BY <1>4, <3>1, <3>2
  <2> QED
    BY <1>5, <1>5b, <2>2, <2>3 DEF AloneInv
<1> QED
  BY <1>6, <1>6a, <1>7, <1>8

\* A step of somebody with access to the database: rows once tampered with stay
\* so, and the others are as they were.
LEMMA TamperKeeps ==
  ASSUME ChainInv, ChainTypes', call' = call, Len(rows') = Len(rows),
         Touched \subseteq Touched', Tampered \subseteq Tampered', Tampered' # {},
         \A j \in (1..Len(rows)) \ Touched' : rows'[j] = rows[j]
  PROVE  ChainInv'
<1> USE DEF ChainInv
<1> DEFINE n == Len(rows)
<1>0. n \in Nat /\ Touched' \subseteq Tampered'
  BY Table DEF Tampered
<1>2. NamesInv'
  <2>1. ASSUME NEW i \in (1..n) \ Touched'
        PROVE  LET h == rows'[i].previous
               IN  Named(h) <= i - 1 /\ (Named(h) \in Touched' \/ h = Named(h))
    <3>1. Names(rows[i].previous, i - 1) /\ rows'[i] = rows[i]
      BY DEF NamesInv
    <3> QED
      BY <3>1 DEF Names
  <2>2. ASSUME NEW q \in Proc
        PROVE  LET h == call'[q].previous
               IN  Named(h) <= n /\ (Named(h) \in Touched' \/ h = Named(h))
    <3>1. Names(call[q].previous, n) /\ call'[q] = call[q]
      BY DEF NamesInv
    <3> QED
      BY <3>1 DEF Names
  <2> QED
    BY <2>1, <2>2 DEF NamesInv, Names
<1>3. ForkInv'
  BY DEF ForkInv
<1>4. ASSUME NEW k \in 0..n, NEW s \in Nat, s <= n, IsLastOf(rows, Tampered, s, k)
      PROVE  IsLastOf(rows', Tampered', s, k)
  <2> SUFFICES ASSUME s \notin Tampered', NEW j \in (1..k) \ Tampered'
               PROVE  s # NoRow /\ rows'[j].createdAt <= rows'[s].createdAt
    BY DEF IsLastOf
  <2>1. s # NoRow /\ rows[j].createdAt <= rows[s].createdAt
    BY <1>4 DEF IsLastOf
  <2>2. j \in (1..n) \ Touched' /\ s \in (1..n) \ Touched'
    BY <1>0, <1>4, <2>1 DEF NoRow
  <2> QED
    BY <2>1, <2>2
<1>5. AloneInv'
  <2>1. ASSUME NEW q \in Proc, call'[q].pc # "idle", call'[q].alone
        PROVE  /\ \A u \in Proc \ {q} : call'[u].pc = "idle"
               /\ IsLastOf(rows', Tampered', Named(call'[q].previous), n)
    <3>1. /\ \A u \in Proc \ {q} : call[u].pc = "idle"
          /\ IsLastOf(rows, Tampered, Named(call[q].previous), n)
      BY <2>1 DEF AloneInv
    <3>2. Named(call[q].previous) \in Nat /\ Named(call[q].previous) <= n
      BY Callers, NamedHash DEF NamesInv, Names
    <3>3. PICK s \in Nat : s = Named(call[q].previous)
      BY <3>2
    <3>4. IsLastOf(rows', Tampered', s, n)
      BY <1>0, <1>4, <3>1, <3>2, <3>3
    <3> QED
      BY <3>1, <3>3, <3>4
  <2>2. ASSUME NEW i \in (1..n) \ Touched', rows'[i].alone
        PROVE  IsLastOf(rows', Tampered', Named(rows'[i].previous), i - 1)
    <3>1. rows'[i] = rows[i] /\ rows[i].previous \in Hashes /\ i - 1 \in 0..n
          /\ Names(rows[i].previous, i - 1)
      BY <1>0, Table DEF NamesInv
    <3>2. IsLastOf(rows, Tampered, Named(rows[i].previous), i - 1)
      BY <2>2, <3>1 DEF AloneInv
    <3>3. PICK s \in Nat, k \in 0..n : s = Named(rows[i].previous) /\ k = i - 1
      BY <3>1, NamedHash
    <3>4. IsLastOf(rows', Tampered', s, k)
      BY <1>0, <1>4, <3>1, <3>2, <3>3 DEF Names
    <3> QED
      BY <3>1, <3>3, <3>4
  <2> QED
    BY <2>1, <2>2 DEF AloneInv
<1> QED
  BY <1>2, <1>3, <1>5

LEMMA RemoveKeeps ==
  ASSUME ChainInv, Remove
  PROVE  ChainInv'
<1> USE DEF ChainInv
<1>1. UNCHANGED <<now, rows, altered, call>> /\ removed \subseteq removed' /\ removed' # {}
      /\ removed' \subseteq 1..Len(rows)
  BY Table DEF Remove, Kept, ChainTypes
<1>2. Touched' = Touched /\ Tampered \subseteq Tampered' /\ Tampered' # {}
  BY <1>1 DEF Touched, Tampered
<1>3. ChainTypes'
  BY <1>1 DEF ChainTypes
<1> QED
  BY <1>1, <1>2, <1>3, TamperKeeps

\* Both ways to change a row.
LEMMA AlterKeeps ==
  ASSUME ChainInv, Alter \/ AlterHash
  PROVE  ChainInv'
<1> USE DEF ChainInv
<1>1. PICK i \in Kept \ Touched, row \in Row :
        /\ rows' = [rows EXCEPT ![i] = row]
        /\ row.hash \in {i, NewHash(i)}
        /\ altered' \in {altered, altered \cup {i}}
        /\ i \in altered' \/ row.hash # i
  <2>1. CASE Alter
    <3>1. PICK i \in Kept \ Touched, t \in Times :
            /\ altered' = altered \cup {i}
            /\ \E h \in {i, NewHash(i)} :
                  rows' = [rows EXCEPT ![i].createdAt = t, ![i].hash = h]
      BY <2>1 DEF Alter
    <3>1a. PICK h \in {i, NewHash(i)} : rows' = [rows EXCEPT ![i].createdAt = t, ![i].hash = h]
      BY <3>1
    <3> DEFINE row == [rows[i] EXCEPT !.createdAt = t, !.hash = h]
    <3>2. i \in 1..MaxRows /\ rows[i] \in Row
      BY KeptRow
    <3>3. h \in Nat
      BY <3>2, Numbers DEF NewHash
    <3>4. row \in Row /\ row.hash = h
      BY <3>2, <3>3 DEF Row
    <3>5. rows' = [rows EXCEPT ![i] = row]
      BY <3>1a
    <3> HIDE DEF row
    <3> QED
      BY <3>1, <3>4, <3>5
  <2>2. CASE AlterHash
    <3>1. PICK i \in Kept \ Touched : rows' = [rows EXCEPT ![i].hash = NewHash(i)]
      BY <2>2 DEF AlterHash
    <3> DEFINE row == [rows[i] EXCEPT !.hash = NewHash(i)]
    <3>2. i \in 1..MaxRows /\ rows[i] \in Row
      BY KeptRow
    <3>3. NewHash(i) \in Nat /\ NewHash(i) # i
      BY <3>2, Numbers, NamedHash DEF NewHash
    <3>4. row \in Row /\ row.hash = NewHash(i)
      BY <3>2, <3>3 DEF Row
    <3>5. rows' = [rows EXCEPT ![i] = row] /\ altered' = altered
      BY <2>2, <3>1 DEF AlterHash
    <3> HIDE DEF row
    <3> QED
      BY <3>3, <3>4, <3>5
  <2> QED
    BY <2>1, <2>2
<1>2. UNCHANGED <<now, removed, call>>
  BY DEF Alter, AlterHash
<1>3. DOMAIN rows = 1..Len(rows) /\ i \in 1..Len(rows) /\ rows \in Seq(Row) /\ Len(rows) \in Nat
  BY Table DEF Kept, ChainTypes
<1>4. /\ rows' \in Seq(Row) /\ Len(rows') = Len(rows) /\ DOMAIN rows' = DOMAIN rows
      /\ rows'[i] = row /\ \A j \in (1..Len(rows)) \ {i} : rows'[j] = rows[j]
  BY <1>1, <1>3
<1>5. ChainTypes'
  BY <1>1, <1>2, <1>3, <1>4 DEF ChainTypes
<1>6. Touched' = Touched \cup {i}
  BY <1>1, <1>3, <1>4 DEF Touched
<1>7. Tampered' = Tampered \cup {i}
  BY <1>2, <1>6 DEF Tampered
<1> QED
  BY <1>2, <1>4, <1>5, <1>6, <1>7, TamperKeeps

LEMMA TickKeeps ==
  ASSUME ChainInv, Tick \/ UNCHANGED vars
  PROVE  ChainInv'
<1> USE DEF ChainInv
<1>1. UNCHANGED <<rows, altered, removed, call>> /\ now' \in 0..MaxTime
  BY Numbers DEF Tick, vars, ChainTypes
<1>2. Touched' = Touched /\ Tampered' = Tampered
  BY <1>1 DEF Touched, Tampered
<1>3. ChainTypes'
  BY <1>1 DEF ChainTypes
<1>4. NamesInv'
  BY <1>1, <1>2 DEF NamesInv, Names
<1>5. ForkInv'
  BY <1>1, <1>2 DEF ForkInv, Followers, Readers
<1>6. AloneInv'
  BY <1>1, <1>2 DEF AloneInv
<1> QED
  BY <1>3, <1>4, <1>5, <1>6

LEMMA ChainStep == ChainInv /\ [Next]_vars => ChainInv'
<1> SUFFICES ASSUME ChainInv, [Next]_vars PROVE ChainInv'
  OBVIOUS
<1>1. CASE Alter \/ AlterHash \/ Remove \/ Tick \/ UNCHANGED vars
  BY <1>1, AlterKeeps, RemoveKeeps, TickKeeps
<1>2. ASSUME NEW p \in Proc, ReadLast(p) \/ Stamp(p) \/ Insert(p) \/ Fail(p) PROVE ChainInv'
  BY <1>2, ReadLastKeeps, StampKeeps, InsertKeeps, FailKeeps
<1> QED
  BY <1>1, <1>2 DEF Next

LEMMA ChainAlways == Spec => []ChainInv
  BY ChainInit, ChainStep, PTL DEF Spec

-----------------------------------------------------------------------------
(* The theorems.                                                           *)

\* A row that nobody changed names an earlier one, and calls and rows keep their
\* types.
THEOREM ChainTyped == Spec => []TypeOK
<1>1. ChainInv => TypeOK
  <2> SUFFICES ASSUME ChainInv PROVE TypeOK
    OBVIOUS
  <2>1. \A i \in 1..Len(rows) :
           rows[i] \in [previous : Hashes, createdAt : Times, alone : BOOLEAN, hash : {i, NewHash(i)}]
    BY Table DEF ChainInv, Row
  <2>2. \A i \in 1..Len(rows) : i \notin Touched => Named(rows[i].previous) < i
    <3> SUFFICES ASSUME NEW i \in 1..Len(rows), i \notin Touched
                 PROVE  Named(rows[i].previous) < i
      OBVIOUS
    <3>1. Named(rows[i].previous) \in Nat /\ Named(rows[i].previous) <= i - 1
      BY Table, NamedHash DEF ChainInv, NamesInv, Names
    <3> QED
      BY <3>1
  <2> QED
    BY <2>1, <2>2, Table DEF ChainInv, ChainTypes, TypeOK
<1> QED
  BY <1>1, ChainAlways, PTL

\* log reads the last row and inserts in another statement: of the rows that
\* name the same one, no more than there are writers follow it in time, as long as
\* nobody tampers with the table.
THEOREM FewForks == Spec => []ForkBound
<1>1. ChainInv => ForkBound
  <2> SUFFICES ASSUME ChainInv, Tampered = {}, NEW r \in DOMAIN rows \cup {NoRow}
               PROVE  Cardinality({i \in DOMAIN rows :
                                     /\ rows[i].previous = r
                                     /\ r # NoRow => rows[r].createdAt < rows[i].createdAt})
                      <= Cardinality(Proc)
    BY DEF ForkBound
  <2>1. DOMAIN rows = 1..Len(rows) /\ r \in 0..Len(rows)
    BY Table DEF ChainInv, NoRow
  <2>2. \/ Followers(r) = {}
        \/ Cardinality(Followers(r)) + Cardinality(Readers(r)) <= Cardinality(Proc)
    BY <2>1 DEF ChainInv, ForkInv
  <2>3. Readers(r) \subseteq Proc
    BY DEF Readers
  <2>4. Cardinality(Readers(r)) \in Nat /\ Cardinality(Followers(r)) \in Nat
    BY <2>3, Fewer, FollowersFinite DEF ChainInv
  <2>5. Cardinality(Followers(r)) <= Cardinality(Proc)
    <3>1. CASE Followers(r) = {}
      BY <2>4, <3>1, Numbers, FS_EmptySet
    <3>2. CASE Cardinality(Followers(r)) + Cardinality(Readers(r)) <= Cardinality(Proc)
      BY <2>4, <3>2, Numbers
    <3> QED
      BY <2>2, <3>1, <3>2
  <2> QED
    BY <2>1, <2>5 DEF Followers
<1> QED
  BY <1>1, ChainAlways, PTL

\* What the entries that verifyIntegrity checks are like.
LEMMA EntriesSorted ==
  ASSUME ChainTypes, NEW o \in Entries
  PROVE  /\ DOMAIN o \subseteq Int
         /\ \A a \in DOMAIN o : a > 1 => a - 1 \in DOMAIN o
         /\ \A a \in DOMAIN o : o[a] \in Kept
         /\ \A a, b \in DOMAIN o :
               a < b => o[a] # o[b] /\ rows[o[a]].createdAt <= rows[o[b]].createdAt
         /\ \A i \in Kept : \/ \E a \in DOMAIN o : o[a] = i
                           \/ \A a \in DOMAIN o : rows[o[a]].createdAt <= rows[i].createdAt
<1>1. Cardinality(Kept) \in Nat
  <2>1. IsFiniteSet(1..Len(rows)) /\ Kept \subseteq 1..Len(rows)
    BY Table, FS_Interval DEF Kept
  <2> QED
    BY <2>1, FS_Subset, FS_CardinalityType
<1>2. PICK n \in Nat : n = IF Cardinality(Kept) < Limit THEN Cardinality(Kept) ELSE Limit
  BY <1>1, Numbers
<1>3. /\ o \in [1..n -> Kept]
      /\ \A b \in 1..n : \A a \in 1..(b - 1) :
            o[a] # o[b] /\ rows[o[a]].createdAt <= rows[o[b]].createdAt
      /\ \A i \in Kept : \/ \E a \in 1..n : o[a] = i
                        \/ \A a \in 1..n : rows[o[a]].createdAt <= rows[i].createdAt
  BY <1>2 DEF Entries
<1> QED
  BY <1>3

\* The entry before a row in step is the one it names, if nobody has tampered
\* with either.
LEMMA InStepFollows ==
  ASSUME ChainInv, NEW o \in Entries, NEW a \in DOMAIN o, a > 1,
         o[a] \notin Touched, InStep(o[a]),
         o[a - 1] \notin Tampered, Named(rows[o[a]].previous) \notin Tampered
  PROVE  rows[o[a]].previous = rows[o[a - 1]].hash
<1> USE DEF ChainInv
<1> DEFINE i == o[a]
           j == o[a - 1]
           r == Named(rows[i].previous)
<1>1. DOMAIN rows = 1..Len(rows) /\ Len(rows) \in Nat /\ Kept = (1..Len(rows)) \ removed
  BY Table DEF Kept
<1>2. a \in Int /\ a - 1 \in DOMAIN o /\ a - 1 < a
  BY EntriesSorted
<1>3. i \in Kept /\ j \in Kept /\ j # i /\ rows[j].createdAt <= rows[i].createdAt
  BY <1>2, EntriesSorted
<1>4. /\ rows[i].alone
      /\ \A k \in DOMAIN rows \ (Touched \cup {i}) :
            IF k < i THEN rows[k].createdAt < rows[i].createdAt
            ELSE rows[i].createdAt < rows[k].createdAt
      /\ \A k, l \in 1..(i - 1) \ Touched : k # l => rows[k].createdAt # rows[l].createdAt
  BY DEF InStep
<1>5. \A k \in 1..Len(rows) : rows[k].createdAt \in Int
  BY Table
<1>6. i \in 1..Len(rows) /\ j \in 1..Len(rows) /\ i \notin Touched /\ j \notin Touched
  BY <1>1, <1>3, Untouched
<1>7. r \in Nat /\ r <= i - 1 /\ rows[i].previous = r /\ r \notin Touched /\ r \notin removed
  BY <1>6, Table, NamedHash, Untouched DEF NamesInv, Names
<1> HIDE DEF i, j, r
<1>8. j < i
  BY <1>1, <1>3, <1>4, <1>5, <1>6
<1>9. r = j
  <2>1. IsLastOf(rows, Tampered, r, i - 1)
    BY <1>4, <1>6 DEF AloneInv, r
  <2>2. j \in (1..(i - 1)) \ Tampered /\ r \notin Tampered
    BY <1>6, <1>8 DEF j, i, r
  <2>3. r # 0 /\ rows[j].createdAt <= rows[r].createdAt
    BY <2>1, <2>2 DEF IsLastOf, NoRow
  <2>4. r \in 1..(i - 1) /\ r \in 1..Len(rows) /\ r # i /\ r < i
    BY <1>1, <1>6, <1>7, <2>3
  <2>5. rows[r].createdAt < rows[i].createdAt
    BY <1>1, <1>4, <1>7, <2>4
  <2>6. PICK b \in DOMAIN o : o[b] = r
    <3>1. r \in Kept
      BY <1>1, <1>7, <2>4
    <3>2. ~(rows[i].createdAt <= rows[r].createdAt)
      BY <1>5, <1>6, <2>4, <2>5
    <3> QED
      BY <3>1, <3>2, EntriesSorted DEF i
  <2>7. b # a /\ ~(a < b)
    <3>1. b # a
      BY <2>4, <2>6 DEF i
    <3>2. a < b => rows[i].createdAt <= rows[r].createdAt
      BY <2>6, EntriesSorted DEF i
    <3> QED
      BY <1>5, <1>6, <2>4, <2>5, <3>1, <3>2
  <2>8. b \in Int /\ b <= a - 1
    BY <1>2, <2>7, EntriesSorted
  <2>9. CASE b = a - 1
    BY <2>6, <2>9 DEF j
  <2>10. CASE b < a - 1
    <3>1. rows[r].createdAt <= rows[j].createdAt
      BY <1>2, <2>6, <2>10, EntriesSorted DEF j
    <3>2. rows[r].createdAt = rows[j].createdAt
      BY <1>5, <1>6, <2>3, <2>4, <3>1
    <3> QED
      BY <1>4, <1>6, <1>7, <2>2, <2>4, <3>2
  <2> QED
    BY <1>2, <2>8, <2>9, <2>10
<1>10. rows[j].hash = j
  BY <1>6, Untouched
<1> QED
  BY <1>7, <1>9, <1>10 DEF i, j, r

\* An entry that does not name the one before it is reported.
LEMMA UnnamedReported ==
  ASSUME ChainInv, NEW o \in Entries, NEW a \in DOMAIN o, a > 1, Unnamed(o[a])
  PROVE  rows[o[a]].previous # rows[o[a - 1]].hash
<1> SUFFICES ASSUME rows[o[a]].previous = rows[o[a - 1]].hash PROVE FALSE
  OBVIOUS
<1>1. PICK j : j = o[a - 1]
  OBVIOUS
<1>2. j \in Kept
  BY <1>1, EntriesSorted DEF ChainInv
<1>3. j \in 1..Len(rows) /\ j \notin removed
  BY <1>2, Table DEF ChainInv, Kept
<1>4. j \in 1..MaxRows /\ rows[j].hash \in {j, NewHash(j)}
  BY <1>3, Table, Numbers DEF ChainInv
<1>5. Named(rows[o[a]].previous) = j
  BY <1>1, <1>4, NamedHash
<1> QED
  BY <1>1, <1>3, <1>5 DEF Unnamed

\* Of a row that nobody changed verifyIntegrity reports, if it is in step,
\* nothing but what was done to a neighbour, and reports in any case that the row
\* it names is gone or has another hash.
THEOREM Reports == Spec => []ReportsTampering
<1>1. ChainInv => ReportsTampering
  <2> SUFFICES ASSUME ChainInv, NEW o \in Entries, NEW a \in DOMAIN o, o[a] \notin Touched
               PROVE  /\ o[a] \in Invalid(o) /\ InStep(o[a])
                            => a > 1 /\ {o[a - 1], Named(rows[o[a]].previous)} \cap Tampered # {}
                      /\ a > 1 /\ Unnamed(o[a]) => o[a] \in Invalid(o)
    BY DEF ReportsTampering
  <2>1. \A b \in DOMAIN o : o[b] = o[a] => b = a
    BY EntriesSorted DEF ChainInv
  <2>2. rows[o[a]].hash = CalculateHash(o[a])
    <3>1. o[a] \in 1..Len(rows)
      BY EntriesSorted, Table DEF ChainInv, Kept
    <3> QED
      BY <3>1, Untouched DEF ChainInv, CalculateHash
  <2>3. o[a] \in Invalid(o) <=> a > 1 /\ rows[o[a]].previous # rows[o[a - 1]].hash
    BY <2>1, <2>2 DEF Invalid
  <2> QED
    BY <2>3, InStepFollows, UnnamedReported
<1> QED
  BY <1>1, ChainAlways, PTL
=============================================================================
