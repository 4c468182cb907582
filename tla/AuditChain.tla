----------------------------- MODULE AuditChain -----------------------------
(***************************************************************************)
(* The audit log and its hash chain (src/models/AuditLog.ts: log,          *)
(* verifyIntegrity), as the middleware of every replica writes it after a  *)
(* request has been answered (src/middleware/auditLoggingMiddleware.ts),   *)
(* and as somebody with access to the database may change it: the hooks    *)
(* that forbid that run in the service only.                               *)
(*                                                                         *)
(* A row is known by its place i in the order of insertion, and i is also  *)
(* its hash as it was written; of columns changed later the hash is        *)
(* MaxRows + i.  SHA-256 has no key: whoever changes a row can compute it. *)
(* The table is ordered by created_at, the clock of the replica that wrote *)
(* the row.  An action is one statement, or the code that takes the time   *)
(* stamp.                                                                  *)
(***************************************************************************)
EXTENDS Integers, FiniteSets, Sequences

CONSTANTS
    Proc,     \* calls of AuditLog.log in flight, over all replicas
    Skew,     \* by how much the clock of a replica may be ahead
    Limit,    \* rows that verifyIntegrity checks at most
    MaxTime,  \* bound of the clock
    MaxRows,  \* bound of the table
    MaxTampered  \* bound of the changes behind the service's back

ASSUME ProcAssumption == IsFiniteSet(Proc)
ASSUME NumberAssumption ==
    /\ Limit \in Nat \ {0}
    /\ {Skew, MaxTime, MaxRows, MaxTampered} \subseteq Nat

VARIABLES
    now,      \* the slowest clock of a replica
    rows,     \* audit_logs, every row ever inserted
    altered,  \* rows whose hashed columns were changed in the database
    removed,  \* rows deleted in the database
    call      \* the locals of each call in flight

vars == <<now, rows, altered, removed, call>>

NoRow == 0

Hashes == 0..(2 * MaxRows)

Times == 0..(MaxTime + Skew)

NewHash(i) == MaxRows + i

\* The row that has, or had, hash h.
Named(h) == IF h > MaxRows THEN h - MaxRows ELSE h

\* Rows with a column changed in the database, hashed or the hash itself.
Touched == altered \cup {i \in DOMAIN rows : rows[i].hash # i}

Tampered == Touched \cup removed

Idle == [pc |-> "idle", previous |-> NoRow, createdAt |-> 0, alone |-> FALSE]

\* alone (history variable): whether no other call was in flight meanwhile.
Call == [pc        : {"idle", "stamp", "insert"},
         previous  : Hashes,
         createdAt : Times,
         alone     : BOOLEAN]

\* A row names an earlier one, or none, as long as nobody changes it.
TypeOK ==
    /\ now \in 0..MaxTime
    /\ Len(rows) <= MaxRows
    /\ \A i \in DOMAIN rows :
          /\ rows[i] \in [previous : Hashes, createdAt : Times, alone : BOOLEAN,
                          hash : {i, NewHash(i)}]
          /\ i \notin Touched => Named(rows[i].previous) < i
    /\ altered \subseteq DOMAIN rows
    /\ removed \subseteq DOMAIN rows
    /\ call \in [Proc -> Call]

-----------------------------------------------------------------------------

Go(p, c) == call' = [call EXCEPT ![p] = c]

At(p, pc) == call[p].pc = pc

Init ==
    /\ now = 0
    /\ rows = <<>>
    /\ altered = {}
    /\ removed = {}
    /\ call = [p \in Proc |-> Idle]

Kept == DOMAIN rows \ removed

HashOf(r) == IF r = NoRow THEN NoRow ELSE rows[r].hash

\* calculateHash of the columns of row i.
CalculateHash(i) == IF i \in altered THEN NewHash(i) ELSE i

-----------------------------------------------------------------------------
(* log, called by the 'finish' handler of a request worth an entry.        *)

\* Mutant: the sort order of findOne is the one of verifyIntegrity.
IsLastAscending(r) ==
    IF Kept = {} THEN r = NoRow
    ELSE r \in Kept /\ \A i \in Kept : rows[r].createdAt <= rows[i].createdAt

\* findOne by created_at, descending: any one of the rows of the last moment.
IsLast(r) ==
    IF Kept = {} THEN r = NoRow
    ELSE r \in Kept /\ \A i \in Kept : rows[i].createdAt <= rows[r].createdAt

ReadLast(p) ==
    /\ At(p, "idle") /\ Len(rows) < MaxRows
    /\ \E r \in 0..MaxRows :
          /\ IsLast(r)
          /\ LET others == {q \in Proc \ {p} : ~At(q, "idle")}
             IN  call' = [q \in Proc |->
                            IF q = p THEN [Idle EXCEPT !.pc = "stamp", !.previous = HashOf(r),
                                                       !.alone = (others = {})]
                            ELSE [call[q] EXCEPT !.alone = FALSE]]
    /\ UNCHANGED <<now, rows, altered, removed>>

\* new Date() on the replica, and the hash.
Stamp(p) ==
    /\ At(p, "stamp")
    /\ \E t \in now..(now + Skew) : Go(p, [call[p] EXCEPT !.pc = "insert", !.createdAt = t])
    /\ UNCHANGED <<now, rows, altered, removed>>

\* Mutant: the last row is read once the new one is in.
InsertSelf(p) ==
    /\ At(p, "insert") /\ Len(rows) < MaxRows
    /\ rows' = Append(rows, [previous  |-> Len(rows) + 1,
                             createdAt |-> call[p].createdAt,
                             alone     |-> call[p].alone,
                             hash      |-> Len(rows) + 1])
    /\ Go(p, Idle)
    /\ UNCHANGED <<now, altered, removed>>

\* create
Insert(p) ==
    /\ At(p, "insert") /\ Len(rows) < MaxRows
    /\ rows' = Append(rows, [previous  |-> call[p].previous,
                             createdAt |-> call[p].createdAt,
                             alone     |-> call[p].alone,
                             hash      |-> Len(rows) + 1])
    /\ Go(p, Idle)
    /\ UNCHANGED <<now, altered, removed>>

\* The statement rejects, or the replica dies: the middleware logs the error,
\* and there is no entry.
Fail(p) ==
    /\ ~At(p, "idle")
    /\ Go(p, Idle)
    /\ UNCHANGED <<now, rows, altered, removed>>

-----------------------------------------------------------------------------
(* The database behind the service's back, and time.                       *)

Tamperable == Cardinality(Touched) + Cardinality(removed) < MaxTampered

\* A row is changed once, in its time stamp or another hashed column, and its own
\* hash is left as it is or computed anew.
Alter ==
    /\ Tamperable
    /\ \E i \in Kept \ Touched, t \in Times :
          /\ altered' = altered \cup {i}
          /\ \E h \in {i, NewHash(i)} :
                rows' = [rows EXCEPT ![i].createdAt = t, ![i].hash = h]
    /\ UNCHANGED <<now, removed, call>>

\* The hash alone is replaced, by one that is not that of the columns.
AlterHash ==
    /\ Tamperable
    /\ \E i \in Kept \ Touched : rows' = [rows EXCEPT ![i].hash = NewHash(i)]
    /\ UNCHANGED <<now, altered, removed, call>>

Remove ==
    /\ Tamperable
    /\ \E i \in Kept : removed' = removed \cup {i}
    /\ UNCHANGED <<now, rows, altered, call>>

Tick ==
    /\ now < MaxTime
    /\ now' = now + 1
    /\ UNCHANGED <<rows, altered, removed, call>>

Next ==
    \/ Alter \/ AlterHash \/ Remove \/ Tick
    \/ \E p \in Proc : ReadLast(p) \/ Stamp(p) \/ Insert(p) \/ Fail(p)

Spec == Init /\ [][Next]_vars

-----------------------------------------------------------------------------
(* verifyIntegrity                                                         *)

\* What findAll can return: by created_at, in any order where that is the same,
\* the first Limit rows.
Entries ==
    LET n == IF Cardinality(Kept) < Limit THEN Cardinality(Kept) ELSE Limit
    IN  {o \in [1..n -> Kept] :
            /\ \A b \in 1..n : \A a \in 1..(b - 1) :
                  o[a] # o[b] /\ rows[o[a]].createdAt <= rows[o[b]].createdAt
            /\ \A i \in Kept : \/ \E a \in 1..n : o[a] = i
                              \/ \A a \in 1..n : rows[o[a]].createdAt <= rows[i].createdAt}

\* Mutant: the first entry checked must be the first of the chain.
InvalidFirst(o) ==
    {o[a] : a \in {b \in DOMAIN o :
        \/ rows[o[b]].hash # CalculateHash(o[b])
        \/ rows[o[b]].previous # IF b = 1 THEN NoRow ELSE rows[o[b - 1]].hash}}

\* invalidEntries: the hash is not that of the columns, or the row does not name
\* the hash of the entry before it.
Invalid(o) ==
    {o[a] : a \in {b \in DOMAIN o :
        \/ rows[o[b]].hash # CalculateHash(o[b])
        \/ b > 1 /\ rows[o[b]].previous # rows[o[b - 1]].hash}}

-----------------------------------------------------------------------------
(* Properties.                                                             *)

\* A row written while no other was, after all older ones and before all newer
\* ones by the time stamps, where no two older ones have the same.
InStep(i) ==
    /\ rows[i].alone
    /\ \A j \in DOMAIN rows \ (Touched \cup {i}) :
          IF j < i THEN rows[j].createdAt < rows[i].createdAt
          ELSE rows[i].createdAt < rows[j].createdAt
    /\ \A j, k \in 1..(i - 1) \ Touched : j # k => rows[j].createdAt # rows[k].createdAt

\* The row that row i names is not in the table any more, or not with that hash.
Unnamed(i) ==
    LET n == Named(rows[i].previous)
    IN  n # NoRow /\ (n \in removed \/ rows[n].hash # rows[i].previous)

\* What verifyIntegrity reports of a row that nobody changed.  If the row is in
\* step, nothing but what was done to a neighbour: the row it names was changed
\* or removed, or one whose time stamp was changed is now before it.  So a chain
\* without overlapping writers or skewed clocks is valid until it is tampered
\* with.  And a row that was removed or, to hide a change, given a new hash is
\* reported by way of each row that names it - but not one at the end of the
\* chain, which none names, nor one that only the first entry checked names.
ReportsTampering ==
    \A o \in Entries : LET invalid == Invalid(o) IN
        \A a \in {b \in DOMAIN o : o[b] \notin Touched} :
            /\ o[a] \in invalid /\ InStep(o[a])
                  => a > 1 /\ {o[a - 1], Named(rows[o[a]].previous)} \cap Tampered # {}
            /\ a > 1 /\ Unnamed(o[a]) => o[a] \in invalid

\* How far the chain forks while nobody tampers with it: of the rows that name
\* the same one, no more than there are writers follow it in time.
ForkBound ==
    Tampered = {} =>
        \A r \in DOMAIN rows \cup {NoRow} :
            Cardinality({i \in DOMAIN rows :
                            /\ rows[i].previous = r
                            /\ r # NoRow => rows[r].createdAt < rows[i].createdAt})
            <= Cardinality(Proc)
=============================================================================
