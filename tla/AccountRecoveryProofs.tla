------------------------- MODULE AccountRecoveryProofs -------------------------
(***************************************************************************)
(* For every number of requests, links and passwords, the properties of    *)
(* AccountRecovery.  None of them is inductive: a link counts together     *)
(* with the requests about to insert one, a use of a link together with    *)
(* the requests that have found it valid, the rows after that of the       *)
(* password in force with those on the way, and the entries of the index   *)
(* that an old password opened with the requests that may yet list one.    *)
(***************************************************************************)
EXTENDS AccountRecovery, FiniteSetTheorems, TLAPS

LinkTypes ==
    /\ password \in Password
    /\ live \subseteq Link
    /\ call \in [Proc -> Call]
    /\ uses \in [Link -> Nat]

\* What a request is for, where it is and the link it has go together.
Placed(c) ==
    /\ c.pc \in {"check", "mark"} => c.kind = "reset"
    /\ c.pc \in {"keep", "copyRem", "copyAdd"} => c.kind = "change"
    /\ c.link # None => c.kind = "reset"
    /\ c.kind = "reset" /\ c.pc # "clear" => c.link # None
    /\ c.pc = "save" => c.new \in Password

PlaceInv == \A p \in Proc : Placed(call[p])

\* Requests about to insert a link.
Linking == {p \in Proc : call[p].pc = "insertLink"}

LinkInv == IsFiniteSet(live) /\ Cardinality(live) + Cardinality(Linking) <= Cardinality(Proc)

\* A request that has found link l valid, and has yet to save its password;
IsChecked(c, l) == c.link = l /\ c.pc \in {"history", "save"}

\* or has saved it, and has yet to mark the link used.
IsSaved(c, l) == c.link = l /\ c.pc \in {"record", "mark"}

Checked(l) == {p \in Proc : IsChecked(call[p], l)}

Saved(l) == {p \in Proc : IsSaved(call[p], l)}

\* While a link is live nobody has marked it: all who used it are still about to.
UseInv == \A l \in Link :
    /\ Cardinality(Saved(l)) <= uses[l]
    /\ l \in live => uses[l] <= Cardinality(Saved(l))
    /\ uses[l] + Cardinality(Checked(l)) <= Cardinality(Proc)

RecoveryInv == LinkTypes /\ PlaceInv /\ LinkInv /\ UseInv

-----------------------------------------------------------------------------
(* Counting requests.                                                      *)

LEMMA ProcCount == Cardinality(Proc) \in Nat
  BY SetAssumption, FS_CardinalityType

LEMMA Fewer ==
  ASSUME NEW A, NEW B, A \subseteq B, B \subseteq Proc
  PROVE  /\ Cardinality(A) \in Nat /\ Cardinality(B) \in Nat
         /\ Cardinality(A) <= Cardinality(B) /\ Cardinality(B) <= Cardinality(Proc)
<1>1. IsFiniteSet(B) /\ Cardinality(B) <= Cardinality(Proc)
  BY SetAssumption, FS_Subset
<1>2. IsFiniteSet(A) /\ Cardinality(A) <= Cardinality(B)
  BY <1>1, FS_Subset
<1> QED
  BY <1>1, <1>2, FS_CardinalityType

LEMMA OneFewer ==
  ASSUME NEW A, NEW B, NEW p \in B, A \subseteq B \ {p}, B \subseteq Proc
  PROVE  /\ Cardinality(A) \in Nat /\ Cardinality(B) \in Nat
         /\ Cardinality(A) + 1 <= Cardinality(B)
<1>1. IsFiniteSet(B)
  BY SetAssumption, FS_Subset
<1>2. Cardinality(B \ {p}) = Cardinality(B) - 1
  BY <1>1, FS_RemoveElement
<1>3. Cardinality(A) \in Nat /\ Cardinality(A) <= Cardinality(B \ {p})
  BY Fewer
<1> QED
  BY <1>2, <1>3, Fewer

LEMMA OneMore ==
  ASSUME NEW A, NEW B, NEW p \in Proc, A \subseteq B \cup {p}, B \subseteq Proc
  PROVE  /\ Cardinality(A) \in Nat /\ Cardinality(B) \in Nat
         /\ Cardinality(A) <= Cardinality(B) + 1
<1>1. IsFiniteSet(B)
  BY SetAssumption, FS_Subset
<1>2. IsFiniteSet(B \cup {p}) /\ Cardinality(B) \in Nat
      /\ Cardinality(B \cup {p}) \in {Cardinality(B), Cardinality(B) + 1}
  BY <1>1, FS_AddElement, FS_CardinalityType
<1>3. Cardinality(A) \in Nat /\ Cardinality(A) <= Cardinality(B \cup {p})
  BY Fewer
<1> QED
  BY <1>2, <1>3, Fewer

LEMMA Apart ==
  ASSUME NEW A, NEW B, A \subseteq Proc, B \subseteq Proc, A \cap B = {}
  PROVE  /\ Cardinality(A) \in Nat /\ Cardinality(B) \in Nat
         /\ Cardinality(A) + Cardinality(B) <= Cardinality(Proc)
<1>1. IsFiniteSet(A) /\ IsFiniteSet(B)
  BY SetAssumption, FS_Subset
<1>2. Cardinality(A \cup B) = Cardinality(A) + Cardinality(B) - Cardinality(A \cap B)
  BY <1>1, FS_Union
<1>3. Cardinality(A \cup B) <= Cardinality(Proc)
  BY Fewer
<1> QED
  BY <1>2, <1>3, Fewer, FS_EmptySet

-----------------------------------------------------------------------------
(* Steps that move one request.                                            *)

LEMMA IdleCall ==
  /\ Idle \in Call /\ Idle.pc = "idle" /\ Idle.kind = None
  /\ Idle.link = None /\ Idle.id = None /\ Idle.cur = None /\ Idle.new = None
  /\ Idle.kind \notin {"reset", "change"} /\ Placed(Idle)
  BY DEF Idle, Call, None, Placed

LEMMA Moved ==
  ASSUME LinkTypes, NEW p \in Proc, NEW c \in Call, Go(p, c)
  PROVE  /\ call' \in [Proc -> Call]
         /\ call'[p] = c
         /\ \A q \in Proc \ {p} : call'[q] = call[q]
  BY DEF LinkTypes, Go

LEMMA Here ==
  ASSUME RecoveryInv, NEW p \in Proc
  PROVE  /\ call[p] \in Call
         /\ call[p].link \in Link \cup {None} /\ call[p].new \in Password \cup {None}
         /\ call[p].kind \in {"forgot", "reset", "change", "login", None}
         /\ Placed(call[p])
  BY DEF RecoveryInv, LinkTypes, PlaceInv, Call

\* Nothing is inserted, and no request more is about to insert.
LEMMA LinkKept ==
  ASSUME RecoveryInv, NEW p \in Proc, \A q \in Proc \ {p} : call'[q] = call[q],
         call'[p].pc = "insertLink" => call[p].pc = "insertLink", live' \subseteq live
  PROVE  LinkInv'
<1>1. Linking' \subseteq Linking /\ Linking \subseteq Proc
  BY DEF Linking
<1>2. /\ Cardinality(Linking') \in Nat /\ Cardinality(Linking) \in Nat
      /\ Cardinality(Linking') <= Cardinality(Linking)
  BY <1>1, Fewer
<1>3. /\ IsFiniteSet(live') /\ Cardinality(live') <= Cardinality(live)
      /\ Cardinality(live') \in Nat /\ Cardinality(live) \in Nat
  BY FS_Subset, FS_CardinalityType DEF RecoveryInv, LinkInv
<1> QED
  BY <1>2, <1>3, ProcCount DEF RecoveryInv, LinkInv

\* No link is used, and no request more has found one valid.
LEMMA UseKept ==
  ASSUME RecoveryInv, NEW p \in Proc, \A q \in Proc \ {p} : call'[q] = call[q],
         \A l \in Link : IsChecked(call'[p], l) => IsChecked(call[p], l),
         \A l \in Link : IsSaved(call'[p], l) <=> IsSaved(call[p], l),
         live' \subseteq live, uses' = uses
  PROVE  UseInv'
<1> SUFFICES ASSUME NEW l \in Link
             PROVE  /\ Cardinality(Saved(l)') <= uses[l]
                    /\ l \in live => uses[l] <= Cardinality(Saved(l)')
                    /\ uses[l] + Cardinality(Checked(l)') <= Cardinality(Proc)
  BY DEF UseInv
<1>1. Saved(l)' = Saved(l)
  BY DEF Saved
<1>2. Checked(l)' \subseteq Checked(l) /\ Checked(l) \subseteq Proc
  BY DEF Checked
<1>3. /\ Cardinality(Checked(l)') \in Nat /\ Cardinality(Checked(l)) \in Nat
      /\ Cardinality(Checked(l)') <= Cardinality(Checked(l))
  BY <1>2, Fewer
<1> QED
  BY <1>1, <1>3, ProcCount DEF RecoveryInv, LinkTypes, UseInv

\* A step that neither inserts a link nor uses one.
LEMMA MoveKeeps ==
  ASSUME RecoveryInv, NEW p \in Proc, NEW c \in Call, Go(p, c),
         password' \in Password, live' \subseteq live, uses' = uses,
         Placed(c), c.pc = "insertLink" => call[p].pc = "insertLink",
         \A l \in Link : IsChecked(c, l) => IsChecked(call[p], l),
         \A l \in Link : IsSaved(c, l) <=> IsSaved(call[p], l)
  PROVE  RecoveryInv'
<1>1. call'[p] = c /\ (\A q \in Proc \ {p} : call'[q] = call[q]) /\ call' \in [Proc -> Call]
  BY Moved DEF RecoveryInv
<1>2. LinkTypes'
  BY <1>1 DEF RecoveryInv, LinkTypes
<1>3. PlaceInv'
  BY <1>1 DEF RecoveryInv, PlaceInv, Placed
<1>4. LinkInv'
  BY <1>1, LinkKept
<1>5. UseInv'
  BY <1>1, UseKept
<1> QED
  BY <1>2, <1>3, <1>4, <1>5 DEF RecoveryInv

LEMMA IdleKeeps ==
  ASSUME RecoveryInv, NEW p \in Proc, Go(p, Idle),
         call[p].pc \notin {"record", "mark"} \/ call[p].link = None,
         password' \in Password, live' \subseteq live, uses' = uses
  PROVE  RecoveryInv'
<1>1. \A l \in Link : ~IsChecked(Idle, l) /\ ~IsSaved(Idle, l) /\ ~IsSaved(call[p], l)
  BY IdleCall, NoneAssumption DEF IsChecked, IsSaved
<1> QED
  BY <1>1, IdleCall, MoveKeeps

-----------------------------------------------------------------------------
(* One lemma per action.                                                   *)

LEMMA RecoveryInit == Init => RecoveryInv
<1> SUFFICES ASSUME Init PROVE RecoveryInv
  OBVIOUS
<1>1. LinkTypes /\ PlaceInv
  <2>1. password \in Password
    BY NumberAssumption DEF Init
  <2> QED
    BY <2>1, IdleCall DEF Init, LinkTypes, PlaceInv
<1>2. LinkInv
  <2>1. Linking = {}
    BY IdleCall DEF Init, Linking
  <2> QED
    BY <2>1, ProcCount, FS_EmptySet DEF Init, LinkInv
<1>3. UseInv
  <2>0. \A p \in Proc : call[p].pc = "idle"
    BY IdleCall DEF Init
  <2>1. \A l \in Link : Saved(l) = {} /\ Checked(l) = {}
    BY <2>0 DEF Saved, Checked, IsSaved, IsChecked
  <2>2. \A l \in Link : uses[l] = 0
    BY DEF Init
  <2>3. Cardinality({}) = 0
    BY FS_EmptySet
  <2> QED
    BY <2>1, <2>2, <2>3, ProcCount DEF UseInv
<1> QED
  BY <1>1, <1>2, <1>3 DEF RecoveryInv

\* The first statement of each request: it holds no link that it found valid.
LEMMA StartKeeps ==
  ASSUME RecoveryInv, NEW p \in Proc,
         StartForgot(p) \/ StartReset(p) \/ StartChange(p) \/ StartLogin(p)
  PROVE  RecoveryInv'
<1> USE DEF RecoveryInv
<1>1. call[p].pc = "idle" /\ UNCHANGED <<password, live, uses>>
  BY DEF StartForgot, StartReset, StartChange, StartLogin, At
<1>2. PICK c \in Call :
        /\ Go(p, c)
        /\ c.pc \in {"invalidate", "check", "history", "create"}
        /\ Placed(c)
        /\ c.pc = "history" => c.link = None
  <2>1. CASE StartForgot(p)
    <3> DEFINE d == [Idle EXCEPT !.pc = "invalidate", !.kind = "forgot"]
    <3>1. d \in Call /\ d.pc = "invalidate" /\ Placed(d)
      BY DEF Idle, Call, Placed
    <3>2. Go(p, d)
      BY <2>1 DEF StartForgot
    <3> HIDE DEF d
    <3> QED
      BY <3>1, <3>2
  <2>2. CASE StartReset(p)
    <3>1. PICK l \in Link : Go(p, [Idle EXCEPT !.pc = "check", !.kind = "reset", !.link = l])
      BY <2>2 DEF StartReset
    <3> DEFINE d == [Idle EXCEPT !.pc = "check", !.kind = "reset", !.link = l]
    <3>2. d \in Call /\ d.pc = "check" /\ Placed(d)
      BY NoneAssumption DEF Idle, Call, Placed
    <3>3. Go(p, d)
      BY <3>1
    <3> HIDE DEF d
    <3> QED
      BY <3>2, <3>3
  <2>3. CASE StartChange(p)
    <3>1. PICK s \in Session, w \in Password :
             Go(p, [Idle EXCEPT !.pc = "history", !.kind = "change", !.id = s, !.cur = w])
      BY <2>3 DEF StartChange
    <3> DEFINE d == [Idle EXCEPT !.pc = "history", !.kind = "change", !.id = s, !.cur = w]
    <3>2. d \in Call /\ d.pc = "history" /\ d.link = None /\ Placed(d)
      BY DEF Idle, Call, Placed
    <3>3. Go(p, d)
      BY <3>1
    <3> HIDE DEF d
    <3> QED
      BY <3>2, <3>3
  <2>4. CASE StartLogin(p)
    <3> DEFINE d == [Idle EXCEPT !.pc = "create", !.kind = "login", !.new = password]
    <3>1. d \in Call /\ d.pc = "create" /\ Placed(d)
      BY DEF Idle, Call, LinkTypes, Placed
    <3>2. Go(p, d)
      BY <2>4 DEF StartLogin
    <3> HIDE DEF d
    <3> QED
      BY <3>1, <3>2
  <2> QED
    BY <2>1, <2>2, <2>3, <2>4
<1>3. \A l \in Link : ~IsChecked(c, l) /\ ~IsSaved(c, l) /\ ~IsSaved(call[p], l)
  BY <1>1, <1>2, NoneAssumption DEF IsChecked, IsSaved
<1>4. password \in Password
  BY DEF LinkTypes
<1> QED
  BY <1>1, <1>2, <1>3, <1>4, MoveKeeps

\* The links there are go, so that those to come are at most one per request.
LEMMA InvalidateLinksKeeps ==
  ASSUME RecoveryInv, NEW p \in Proc, InvalidateLinks(p)
  PROVE  RecoveryInv'
<1> USE DEF RecoveryInv
<1>1. call[p].pc = "invalidate" /\ live' = {} /\ UNCHANGED <<password, uses>>
  BY DEF InvalidateLinks, At
<1>2. PICK c \in Call : Go(p, c) /\ c.pc = "insertLink" /\ c.kind = call[p].kind
                       /\ c.link = call[p].link
  <2> DEFINE d == [call[p] EXCEPT !.pc = "insertLink"]
  <2>1. d \in Call /\ d.pc = "insertLink" /\ d.kind = call[p].kind /\ d.link = call[p].link
    BY Here DEF Call
  <2>2. Go(p, d)
    BY DEF InvalidateLinks
  <2> HIDE DEF d
  <2> QED
    BY <2>1, <2>2
<1>3. call'[p] = c /\ (\A q \in Proc \ {p} : call'[q] = call[q]) /\ call' \in [Proc -> Call]
  BY <1>2, Moved
<1>4. LinkTypes' /\ PlaceInv'
  BY <1>1, <1>2, <1>3 DEF LinkTypes, PlaceInv, Placed
<1>5. LinkInv'
  <2>1. Linking' \subseteq Proc
    BY DEF Linking
  <2> QED
    BY <1>1, <2>1, Fewer, FS_EmptySet DEF LinkInv
<1>6. UseInv'
  BY <1>1, <1>2, <1>3, UseKept DEF IsChecked, IsSaved
<1> QED
  BY <1>4, <1>5, <1>6

\* The link inserted is one that nobody has used.
LEMMA InsertLinkKeeps ==
  ASSUME RecoveryInv, NEW p \in Proc, InsertLink(p)
  PROVE  RecoveryInv'
<1> USE DEF RecoveryInv
<1>1. PICK l \in FreshLinks :
        /\ live' = live \cup {l}
        /\ uses' = [uses EXCEPT ![l] = 0]
  BY DEF InsertLink
<1>2. call[p].pc = "insertLink" /\ Go(p, Idle) /\ password' = password
  BY DEF InsertLink, At
<1>3. l \in Link \ live /\ \A q \in Proc : call[q].link # l
  BY DEF FreshLinks
<1>4. call'[p] = Idle /\ (\A q \in Proc \ {p} : call'[q] = call[q]) /\ call' \in [Proc -> Call]
  BY <1>2, IdleCall, Moved
<1>5. LinkTypes' /\ PlaceInv'
  BY <1>1, <1>2, <1>3, <1>4, IdleCall DEF LinkTypes, PlaceInv, Placed
<1>6. LinkInv'
  <2>1. p \in Linking /\ Linking' \subseteq Linking \ {p} /\ Linking \subseteq Proc
    BY <1>2, <1>4, IdleCall DEF Linking
  <2>2. /\ Cardinality(Linking') \in Nat /\ Cardinality(Linking) \in Nat
        /\ Cardinality(Linking') + 1 <= Cardinality(Linking)
    BY <2>1, OneFewer
  <2>3. /\ IsFiniteSet(live') /\ Cardinality(live) \in Nat
        /\ Cardinality(live') \in {Cardinality(live), Cardinality(live) + 1}
    BY <1>1, FS_AddElement, FS_CardinalityType DEF LinkInv
  <2> QED
    BY <2>2, <2>3, ProcCount DEF LinkInv
<1>7. UseInv'
  <2> SUFFICES ASSUME NEW k \in Link
               PROVE  /\ Cardinality(Saved(k)') <= uses'[k]
                      /\ k \in live' => uses'[k] <= Cardinality(Saved(k)')
                      /\ uses'[k] + Cardinality(Checked(k)') <= Cardinality(Proc)
    BY DEF UseInv
  <2>1. Saved(k)' = Saved(k) /\ Checked(k)' = Checked(k)
    BY <1>2, <1>4, IdleCall, NoneAssumption DEF Saved, Checked, IsSaved, IsChecked
  <2>2. CASE k = l
    <3>1. Saved(k) = {} /\ Checked(k) = {}
      BY <1>3, <2>2 DEF Saved, Checked, IsSaved, IsChecked
    <3>2. uses'[k] = 0
      BY <1>1, <2>2 DEF LinkTypes
    <3> QED
      BY <2>1, <3>1, <3>2, FS_EmptySet, ProcCount
  <2>3. CASE k # l
    <3>1. uses'[k] = uses[k] /\ (k \in live' <=> k \in live)
      BY <1>1, <2>3 DEF LinkTypes
    <3> QED
      BY <2>1, <3>1 DEF UseInv
  <2> QED
    BY <2>2, <2>3
<1> QED
  BY <1>5, <1>6, <1>7

\* isValid: a link that is live has been used by those about to mark it only,
\* and they are others than those who find it valid.
LEMMA CheckLinkKeeps ==
  ASSUME RecoveryInv, NEW p \in Proc, CheckLink(p)
  PROVE  RecoveryInv'
<1> USE DEF RecoveryInv
<1> DEFINE l == call[p].link
<1>1. call[p].pc = "check" /\ UNCHANGED <<password, live, uses>>
      /\ password \in Password
  BY DEF CheckLink, At, LinkTypes
<1>2. CASE l \notin live
  BY <1>1, <1>2, IdleKeeps DEF CheckLink
<1>3. CASE l \in live
  <2>1. PICK c \in Call : Go(p, c) /\ c.pc = "history" /\ c.kind = call[p].kind /\ c.link = l
    <3> DEFINE d == [call[p] EXCEPT !.pc = "history"]
    <3>1. d \in Call /\ d.pc = "history" /\ d.kind = call[p].kind /\ d.link = l
      BY Here DEF Call
    <3>2. Go(p, d)
      BY <1>3 DEF CheckLink
    <3> HIDE DEF d
    <3> QED
      BY <3>1, <3>2
  <2>2. call'[p] = c /\ (\A q \in Proc \ {p} : call'[q] = call[q]) /\ call' \in [Proc -> Call]
    BY <2>1, Moved
  <2>3. LinkTypes' /\ PlaceInv'
    BY <1>1, <2>1, <2>2 DEF LinkTypes, PlaceInv, Placed
  <2>4. LinkInv'
    BY <1>1, <2>1, <2>2, LinkKept
  <2>5. UseInv'
    <3> SUFFICES ASSUME NEW k \in Link
                 PROVE  /\ Cardinality(Saved(k)') <= uses[k]
                        /\ k \in live => uses[k] <= Cardinality(Saved(k)')
                        /\ uses[k] + Cardinality(Checked(k)') <= Cardinality(Proc)
      BY <1>1 DEF UseInv
    <3>1. Saved(k)' = Saved(k)
      BY <1>1, <2>1, <2>2 DEF Saved, IsSaved
    <3>2. CASE k \in live
      <4>1. Saved(k) \subseteq Proc /\ Checked(k)' \subseteq Proc /\ Saved(k) \cap Checked(k)' = {}
        BY <1>1, <2>1, <2>2 DEF Saved, Checked, IsSaved, IsChecked
      <4>2. /\ Cardinality(Saved(k)) \in Nat /\ Cardinality(Checked(k)') \in Nat
            /\ Cardinality(Saved(k)) + Cardinality(Checked(k)') <= Cardinality(Proc)
        BY <4>1, Apart
      <4> QED
        BY <3>1, <3>2, <4>2, ProcCount DEF UseInv, LinkTypes
    <3>3. CASE k \notin live
      <4>1. Checked(k)' = Checked(k)
        BY <1>1, <1>3, <2>1, <2>2, <3>3 DEF Checked, IsChecked
      <4> QED
        BY <3>1, <3>3, <4>1 DEF UseInv
    <3> QED
      BY <3>2, <3>3
  <2> QED
    BY <2>3, <2>4, <2>5
<1> QED
  BY <1>2, <1>3

\* The history is read: refused, or on to the save with the same link.
LEMMA ReadHistoryKeeps ==
  ASSUME RecoveryInv, NEW p \in Proc, ReadHistory(p)
  PROVE  RecoveryInv'
<1> USE DEF RecoveryInv
<1>1. call[p].pc = "history" /\ UNCHANGED <<password, live, uses>>
      /\ password \in Password
  BY DEF ReadHistory, At, LinkTypes
<1>2. CASE Go(p, Idle)
  BY <1>1, <1>2, IdleKeeps
<1>3. ASSUME NEW w \in Password, Go(p, [call[p] EXCEPT !.pc = "save", !.new = w])
      PROVE  RecoveryInv'
  <2> DEFINE d == [call[p] EXCEPT !.pc = "save", !.new = w]
  <2>1. d \in Call /\ d.pc = "save" /\ d.kind = call[p].kind /\ d.link = call[p].link /\ d.new = w
    BY Here DEF Call
  <2>2. Go(p, d)
    BY <1>3
  <2> HIDE DEF d
  <2>3. \A l \in Link : (IsChecked(d, l) <=> IsChecked(call[p], l)) /\ ~IsSaved(d, l)
                        /\ ~IsSaved(call[p], l)
    BY <1>1, <2>1 DEF IsChecked, IsSaved
  <2>4. Placed(d)
    BY <1>1, <2>1, Here DEF Placed
  <2> QED
    BY <1>1, <2>1, <2>2, <2>3, <2>4, MoveKeeps
<1> QED
  BY <1>2, <1>3 DEF ReadHistory

\* The save: a use of the link, by a request that has yet to mark it.
LEMMA SavePasswordKeeps ==
  ASSUME RecoveryInv, NEW p \in Proc, SavePassword(p)
  PROVE  RecoveryInv'
<1> USE DEF RecoveryInv
<1> DEFINE l == call[p].link
<1>1. call[p].pc = "save" /\ UNCHANGED <<live>> /\ password' \in Password
  BY DEF SavePassword, At, PlaceInv, Placed
<1>2. PICK c \in Call : Go(p, c) /\ c.pc = "record" /\ c.kind = call[p].kind /\ c.link = l
  <2> DEFINE d == [call[p] EXCEPT !.pc = "record"]
  <2>1. d \in Call /\ d.pc = "record" /\ d.kind = call[p].kind /\ d.link = l
    BY Here DEF Call
  <2>2. Go(p, d)
    BY DEF SavePassword
  <2> HIDE DEF d
  <2> QED
    BY <2>1, <2>2
<1>3. call'[p] = c /\ (\A q \in Proc \ {p} : call'[q] = call[q]) /\ call' \in [Proc -> Call]
  BY <1>2, Moved
<1>4. \/ call[p].kind # "reset" /\ l = None /\ uses' = uses
      \/ call[p].kind = "reset" /\ l \in Link /\ uses' = [uses EXCEPT ![l] = uses[l] + 1]
  BY <1>1, Here DEF SavePassword, Placed
<1>5. LinkTypes' /\ PlaceInv'
  <2>1. uses' \in [Link -> Nat]
    BY <1>4 DEF LinkTypes
  <2> QED
    BY <1>1, <1>2, <1>3, <2>1 DEF LinkTypes, PlaceInv, Placed
<1>6. LinkInv'
  BY <1>1, <1>2, <1>3, LinkKept
<1>7. UseInv'
  <2> SUFFICES ASSUME NEW k \in Link
               PROVE  /\ Cardinality(Saved(k)') <= uses'[k]
                      /\ k \in live => uses'[k] <= Cardinality(Saved(k)')
                      /\ uses'[k] + Cardinality(Checked(k)') <= Cardinality(Proc)
    BY <1>1 DEF UseInv
  <2>1. CASE k = l
    <3>1. /\ p \in Saved(k)' /\ Saved(k) \subseteq Saved(k)' \ {p} /\ Saved(k)' \subseteq Proc
          /\ Saved(k)' \subseteq Saved(k) \cup {p} /\ Saved(k) \subseteq Proc
          /\ p \in Checked(k) /\ Checked(k)' \subseteq Checked(k) \ {p} /\ Checked(k) \subseteq Proc
      BY <1>1, <1>2, <1>3, <2>1 DEF Saved, Checked, IsSaved, IsChecked
    <3>2. /\ Cardinality(Saved(k)) \in Nat /\ Cardinality(Saved(k)') \in Nat
          /\ Cardinality(Saved(k)) + 1 <= Cardinality(Saved(k)')
      BY <3>1, OneFewer
    <3>3. Cardinality(Saved(k)') <= Cardinality(Saved(k)) + 1
      BY <3>1, OneMore
    <3>4. /\ Cardinality(Checked(k)) \in Nat /\ Cardinality(Checked(k)') \in Nat
          /\ Cardinality(Checked(k)') + 1 <= Cardinality(Checked(k))
      <4>1. p \in Checked(k) /\ Checked(k)' \subseteq Checked(k) \ {p} /\ Checked(k) \subseteq Proc
        BY <3>1
      <4> QED
        BY <4>1, OneFewer
    <3>5. uses'[k] = uses[k] + 1 /\ uses[k] \in Nat
      BY <1>4, <2>1, NoneAssumption DEF LinkTypes
    <3> QED
      BY <3>2, <3>3, <3>4, <3>5, ProcCount DEF UseInv
  <2>2. CASE k # l
    <3>1. Saved(k)' = Saved(k) /\ Checked(k)' = Checked(k)
      BY <1>2, <1>3, <2>2 DEF Saved, Checked, IsSaved, IsChecked
    <3>2. uses'[k] = uses[k]
      BY <1>4, <2>2 DEF LinkTypes
    <3> QED
      BY <3>1, <3>2 DEF UseInv
  <2> QED
    BY <2>1, <2>2
<1> QED
  BY <1>5, <1>6, <1>7

LEMMA RecordPasswordKeeps ==
  ASSUME RecoveryInv, NEW p \in Proc, RecordPassword(p)
  PROVE  RecoveryInv'
<1> USE DEF RecoveryInv
<1>1. call[p].pc = "record" /\ UNCHANGED <<password, live, uses>>
      /\ password \in Password
  BY DEF RecordPassword, Recorded, At, LinkTypes
<1>2. call[p].kind = "reset" <=> call[p].link # None
  BY <1>1, Here DEF Placed
<1> DEFINE d == IF call[p].kind = "reset" THEN [call[p] EXCEPT !.pc = "mark", !.new = None]
                                         ELSE [call[p] EXCEPT !.pc = "clear"]
<1>3. d \in Call /\ d.kind = call[p].kind /\ d.link = call[p].link
      /\ d.pc = IF call[p].kind = "reset" THEN "mark" ELSE "clear"
  BY Here DEF Call
<1>4. Go(p, d)
  BY DEF RecordPassword, Recorded
<1> HIDE DEF d
<1>5. \A l \in Link : ~IsChecked(d, l) /\ (IsSaved(d, l) <=> IsSaved(call[p], l))
  BY <1>1, <1>2, <1>3, NoneAssumption DEF IsChecked, IsSaved
<1>6. Placed(d)
  BY <1>2, <1>3 DEF Placed
<1> QED
  BY <1>1, <1>3, <1>4, <1>5, <1>6, MoveKeeps

\* markAsUsed: from now on nobody finds the link valid.
LEMMA MarkAsUsedKeeps ==
  ASSUME RecoveryInv, NEW p \in Proc, MarkAsUsed(p)
  PROVE  RecoveryInv'
<1> USE DEF RecoveryInv
<1> DEFINE l == call[p].link
<1>1. call[p].pc = "mark" /\ live' = live \ {l} /\ UNCHANGED <<password, uses>>
  BY DEF MarkAsUsed, At
<1>2. PICK c \in Call : Go(p, c) /\ c.pc = "clear" /\ c.kind = call[p].kind /\ c.link = None
  <2> DEFINE d == [call[p] EXCEPT !.pc = "clear", !.link = None]
  <2>1. d \in Call /\ d.pc = "clear" /\ d.kind = call[p].kind /\ d.link = None
    BY Here DEF Call
  <2>2. Go(p, d)
    BY DEF MarkAsUsed
  <2> HIDE DEF d
  <2> QED
    BY <2>1, <2>2
<1>3. call'[p] = c /\ (\A q \in Proc \ {p} : call'[q] = call[q]) /\ call' \in [Proc -> Call]
  BY <1>2, Moved
<1>4. LinkTypes' /\ PlaceInv'
  BY <1>1, <1>2, <1>3 DEF LinkTypes, PlaceInv, Placed
<1>5. LinkInv'
  BY <1>1, <1>2, <1>3, LinkKept
<1>6. UseInv'
  <2> SUFFICES ASSUME NEW k \in Link
               PROVE  /\ Cardinality(Saved(k)') <= uses[k]
                      /\ k \in live' => uses[k] <= Cardinality(Saved(k)')
                      /\ uses[k] + Cardinality(Checked(k)') <= Cardinality(Proc)
    BY <1>1 DEF UseInv
  <2>1. Checked(k)' = Checked(k)
    BY <1>1, <1>2, <1>3 DEF Checked, IsChecked
  <2>2. CASE k = l
    <3>1. Saved(k)' \subseteq Saved(k) /\ Saved(k) \subseteq Proc
      BY <1>2, <1>3 DEF Saved, IsSaved
    <3>2. /\ Cardinality(Saved(k)') \in Nat /\ Cardinality(Saved(k)) \in Nat
          /\ Cardinality(Saved(k)') <= Cardinality(Saved(k))
      BY <3>1, Fewer
    <3> QED
      BY <1>1, <2>1, <2>2, <3>2 DEF UseInv, LinkTypes
  <2>3. CASE k # l
    <3>1. Saved(k)' = Saved(k)
      BY <1>2, <1>3, <2>3 DEF Saved, IsSaved
    <3> QED
      BY <1>1, <2>1, <3>1 DEF UseInv
  <2> QED
    BY <2>2, <2>3
<1> QED
  BY <1>4, <1>5, <1>6

\* A request that dies before it marks its link takes its use back.
LEMMA FailKeeps ==
  ASSUME RecoveryInv, NEW p \in Proc, Fail(p)
  PROVE  RecoveryInv'
<1> USE DEF RecoveryInv
<1> DEFINE l == call[p].link
<1>1. Go(p, Idle) /\ UNCHANGED <<password, live>>
      /\ password \in Password
  BY DEF Fail, LinkTypes
<1>2. CASE ~(call[p].kind = "reset" /\ call[p].pc \in {"record", "mark"})
  <2>1. uses' = uses
    BY <1>2 DEF Fail
  <2>2. call[p].pc \notin {"record", "mark"} \/ call[p].link = None
    BY <1>2 DEF PlaceInv, Placed
  <2> QED
    BY <1>1, <2>1, <2>2, IdleKeeps
<1>3. CASE call[p].kind = "reset" /\ call[p].pc \in {"record", "mark"}
  <2>1. l \in Link /\ uses' = [uses EXCEPT ![l] = uses[l] - 1]
    BY <1>3, Here DEF Fail, PlaceInv, Placed
  <2>2. call'[p] = Idle /\ (\A q \in Proc \ {p} : call'[q] = call[q]) /\ call' \in [Proc -> Call]
    BY <1>1, IdleCall, Moved
  <2>3. ASSUME NEW k \in Link, k = l
        PROVE  /\ p \in Saved(k) /\ Saved(k) \subseteq Proc /\ Saved(k)' \subseteq Proc
               /\ Saved(k)' \subseteq Saved(k) \ {p} /\ Saved(k) \subseteq Saved(k)' \cup {p}
    <3>1. \A q \in Proc : IsSaved(call'[q], k) <=> q # p /\ IsSaved(call[q], k)
      BY <2>2, <2>3, IdleCall, NoneAssumption DEF IsSaved
    <3>2. IsSaved(call[p], k)
      BY <1>3, <2>3 DEF IsSaved
    <3> QED
      BY <3>1, <3>2 DEF Saved
  <2>4. ASSUME NEW k \in Link, k = l
        PROVE  /\ Cardinality(Saved(k)') \in Nat /\ Cardinality(Saved(k)) \in Nat
               /\ Cardinality(Saved(k)') + 1 = Cardinality(Saved(k))
    <3>1. /\ Cardinality(Saved(k)') \in Nat /\ Cardinality(Saved(k)) \in Nat
          /\ Cardinality(Saved(k)') + 1 <= Cardinality(Saved(k))
      BY <2>3, <2>4, OneFewer
    <3>2. Cardinality(Saved(k)) <= Cardinality(Saved(k)') + 1
      BY <2>3, <2>4, OneMore
    <3> QED
      BY <3>1, <3>2
  <2>5. uses[l] \in Nat /\ uses[l] - 1 \in Nat
    BY <2>1, <2>4 DEF UseInv, LinkTypes
  <2>6. LinkTypes' /\ PlaceInv'
    <3>1. uses' \in [Link -> Nat]
      BY <2>1, <2>5 DEF LinkTypes
    <3> QED
      BY <1>1, <2>2, <3>1, IdleCall DEF LinkTypes, PlaceInv, Placed
  <2>7. LinkInv'
    BY <1>1, <2>2, IdleCall, LinkKept
  <2>8. UseInv'
    <3> SUFFICES ASSUME NEW k \in Link
                 PROVE  /\ Cardinality(Saved(k)') <= uses'[k]
                        /\ k \in live => uses'[k] <= Cardinality(Saved(k)')
                        /\ uses'[k] + Cardinality(Checked(k)') <= Cardinality(Proc)
      BY <1>1 DEF UseInv
    <3>1. Checked(k)' \subseteq Checked(k) /\ Checked(k) \subseteq Proc
      BY <2>2, IdleCall, NoneAssumption DEF Checked, IsChecked
    <3>2. /\ Cardinality(Checked(k)') \in Nat /\ Cardinality(Checked(k)) \in Nat
          /\ Cardinality(Checked(k)') <= Cardinality(Checked(k))
      BY <3>1, Fewer
    <3>3. CASE k = l
      <4>1. uses'[k] = uses[k] - 1
        BY <2>1, <3>3 DEF LinkTypes
      <4> QED
        <5>1. uses[k] \in Nat
          BY DEF LinkTypes
        <5> QED
          BY <2>4, <3>2, <3>3, <4>1, <5>1, ProcCount DEF UseInv
    <3>4. CASE k # l
      <4>1. uses'[k] = uses[k] /\ uses[k] \in Nat
        BY <2>1, <3>4 DEF LinkTypes
      <4>2. Saved(k)' = Saved(k)
        BY <2>2, <3>4, IdleCall, NoneAssumption DEF Saved, IsSaved
      <4> QED
        BY <3>2, <4>1, <4>2, ProcCount DEF UseInv
    <3> QED
      BY <3>3, <3>4
  <2> QED
    BY <2>6, <2>7, <2>8
<1> QED
  BY <1>2, <1>3

\* What is left to do has no link.
LEMMA LaterKeeps ==
  ASSUME RecoveryInv, NEW p \in Proc,
         ClearIndex(p) \/ KeepAdd(p) \/ CopyRem(p) \/ CopyAdd(p) \/ CreateSession(p)
  PROVE  RecoveryInv'
<1>1. call[p].pc \in {"clear", "keep", "copyRem", "copyAdd", "create"}
      /\ UNCHANGED <<password, live, uses>>
  BY DEF ClearIndex, Cleared, KeepAdd, CopyRem, CopyAdd, CreateSession, At
<1>2. password \in Password
  BY DEF RecoveryInv, LinkTypes
<1>3. CASE Go(p, Idle)
  BY <1>1, <1>2, <1>3, IdleKeeps
<1>4. ASSUME NEW d \in Call, Go(p, d), d.pc \in {"keep", "copyRem", "copyAdd"},
             d.kind = call[p].kind, d.link = call[p].link, call[p].kind = "change"
      PROVE  RecoveryInv'
  <2>1. Placed(d)
    BY <1>4, Here DEF Placed
  <2>2. \A l \in Link : ~IsChecked(d, l) /\ ~IsSaved(d, l) /\ ~IsSaved(call[p], l)
    BY <1>1, <1>4 DEF IsChecked, IsSaved
  <2> QED
    BY <1>1, <1>2, <1>4, <2>1, <2>2, MoveKeeps
<1>5. ASSUME NEW pc \in {"keep", "copyRem"}, Go(p, [call[p] EXCEPT !.pc = pc]),
             call[p].kind = "change"
      PROVE  RecoveryInv'
  <2> DEFINE d == [call[p] EXCEPT !.pc = pc]
  <2>1. d \in Call /\ d.pc = pc /\ d.kind = call[p].kind /\ d.link = call[p].link
    BY Here DEF Call
  <2>2. Go(p, d)
    BY <1>5
  <2> HIDE DEF d
  <2> QED
    BY <1>4, <1>5, <2>1, <2>2
<1>6. CASE CopyRem(p)
  <2> DEFINE d == [call[p] EXCEPT !.pc = "copyAdd", !.id = None, !.cur = None]
  <2>1. d \in Call /\ d.pc = "copyAdd" /\ d.kind = call[p].kind /\ d.link = call[p].link
    BY Here DEF Call
  <2>2. Go(p, d)
    BY <1>6 DEF CopyRem
  <2> HIDE DEF d
  <2> QED
    BY <1>4, <1>6, <2>1, <2>2, Here DEF CopyRem, At, Placed
<1>7. call[p].pc = "keep" => call[p].kind = "change"
  BY Here DEF Placed
<1> QED
  BY <1>3, <1>5, <1>6, <1>7 DEF ClearIndex, Cleared, KeepAdd, CopyAdd, CreateSession, At

\* Links and sessions that end by themselves.
LEMMA ExpiryKeeps ==
  ASSUME RecoveryInv, live' \subseteq live, UNCHANGED <<password, call, uses>>
  PROVE  RecoveryInv'
<1> USE DEF RecoveryInv
<1>1. LinkTypes' /\ PlaceInv' /\ UseInv'
  BY DEF LinkTypes, PlaceInv, UseInv, Saved, Checked
<1>2. LinkInv'
  <2>1. Linking' = Linking /\ Linking \subseteq Proc
    BY DEF Linking
  <2>2. Cardinality(Linking) \in Nat
    BY <2>1, Fewer
  <2>3. /\ IsFiniteSet(live') /\ Cardinality(live') <= Cardinality(live)
        /\ Cardinality(live') \in Nat /\ Cardinality(live) \in Nat
    BY FS_Subset, FS_CardinalityType DEF LinkInv
  <2> QED
    BY <2>1, <2>2, <2>3, ProcCount DEF LinkInv
<1> QED
  BY <1>1, <1>2

LEMMA RecoveryStep == RecoveryInv /\ [Next]_vars => RecoveryInv'
<1> SUFFICES ASSUME RecoveryInv, [Next]_vars PROVE RecoveryInv'
  OBVIOUS
<1>1. CASE LinkExpires \/ EntryLeaves \/ UNCHANGED vars
  BY <1>1, ExpiryKeeps DEF LinkExpires, EntryLeaves, vars
<1>2. ASSUME NEW p \in Proc, Forgot(p) PROVE RecoveryInv'
  BY <1>2, StartKeeps, InvalidateLinksKeeps, InsertLinkKeeps DEF Forgot
<1>3. ASSUME NEW p \in Proc, Replace(p) PROVE RecoveryInv'
  BY <1>3, StartKeeps, CheckLinkKeeps, ReadHistoryKeeps, SavePasswordKeeps, RecordPasswordKeeps,
     MarkAsUsedKeeps, LaterKeeps DEF Replace
<1>4. ASSUME NEW p \in Proc, StartLogin(p) \/ CreateSession(p) \/ Fail(p) PROVE RecoveryInv'
  BY <1>4, StartKeeps, LaterKeeps, FailKeeps
<1> QED
  BY <1>1, <1>2, <1>3, <1>4 DEF Next

LEMMA RecoveryAlways == Spec => []RecoveryInv
  BY RecoveryInit, RecoveryStep, PTL DEF Spec

-----------------------------------------------------------------------------
(* The password in force, its row of the history, and the entries that the *)
(* passwords before it opened.                                             *)

\* Requests with a row of the history still to insert.
Recording == {p \in Proc : call[p].pc = "record"}

\* The locals that a request has needs of.
Furnished(c) ==
    /\ c.pc \in {"record", "create"} => c.new \in Password
    /\ c.kind = "change" /\ c.pc \in {"clear", "keep", "copyRem", "copyAdd"} => c.new \in Password
    /\ c.kind = "change" /\ c.pc # "copyAdd" => c.id \in Session /\ c.cur \in Password

PasswordTypes ==
    /\ history \in Seq(Password) /\ Len(history) <= HistoryCount
    /\ listed \in [Session -> Password \cup {None}]
    /\ saver \in Proc \cup {"recorded", "lost"}
    /\ settled \in BOOLEAN
    /\ \A p \in Proc : Furnished(call[p])

\* Who has an id, in the index or in a request, agrees on what opened its session.
IdInv == \A p \in Proc : call[p].id # None =>
    /\ listed[call[p].id] \in {None, call[p].cur}
    /\ \A q \in Proc : call[q].id = call[p].id => call[q].cur = call[p].cur

\* The row of the password in force has fewer rows after it, those on the way
\* included, than the next check reads.
HistoryInv ==
    /\ saver \in Proc => call[saver].pc = "record" /\ call[saver].new = password
    /\ saver = "recorded" =>
          \/ HistoryCount < Cardinality(Proc)
          \/ \E i \in 1 .. Len(history) :
                /\ history[i] = password
                /\ Len(history) - i + Cardinality(Recording) < HistoryCount

\* A request that may list a session for another password than w, or has listed
\* one that it will take out again.
IsStale(c, w) ==
    \/ c.pc \in {"create", "keep", "copyRem", "copyAdd"} /\ c.new # w
    \/ c.pc \in {"keep", "copyRem"} /\ c.cur # w

Stale == {p \in Proc : IsStale(call[p], password)}

\* Session s is one that a change has put back to copy it.
Kept(s) == \E p \in Proc : call[p].pc = "copyRem" /\ call[p].id = s

\* Entries of an old password that no change is about to copy.
Loose == {s \in OldEntries(password) : ~Kept(s)}

\* The request that clears the index leaves the others only: from then on each
\* loose entry is of a request that was stale, and is so no longer.
SurvivorInv == settled =>
    /\ IsFiniteSet(Loose)
    /\ Cardinality(Loose) + Cardinality(Stale) <= Cardinality(Proc)

PasswordInv == PasswordTypes /\ IdInv /\ HistoryInv /\ SurvivorInv

-----------------------------------------------------------------------------
(* Steps and the password's part of the invariant.                         *)

LEMMA IdleStands == Furnished(Idle) /\ \A w : ~IsStale(Idle, w)
  BY IdleCall DEF Furnished, IsStale

LEMMA PasswordInit == Init => PasswordInv
<1> SUFFICES ASSUME Init PROVE PasswordInv
  OBVIOUS
<1>1. \A p \in Proc : call[p] = Idle
  BY DEF Init
<1>2. history \in [1 .. HistoryCount -> Password] /\ password = history[HistoryCount]
      /\ saver = "recorded"
  BY DEF Init
<1>3. history \in Seq(Password) /\ Len(history) = HistoryCount
  BY <1>2, NumberAssumption
<1>4. PasswordTypes
  <2>1. listed \in [Session -> Password \cup {None}] /\ settled \in BOOLEAN
    BY DEF Init
  <2> QED
    BY <1>1, <1>2, <1>3, <2>1, IdleStands, NumberAssumption DEF PasswordTypes
<1>5. IdInv
  BY <1>1, IdleCall DEF IdInv
<1>6. HistoryInv
  <2>1. Recording = {}
    BY <1>1, IdleCall DEF Recording
  <2>2. Cardinality(Recording) = 0
    BY <2>1, FS_EmptySet
  <2>3. HistoryCount \in 1 .. Len(history)
        /\ Len(history) - HistoryCount + Cardinality(Recording) < HistoryCount
    BY <1>3, <2>2, NumberAssumption
  <2> QED
    BY <1>2, <2>3, NoneAssumption DEF HistoryInv
<1>7. SurvivorInv
  <2>1. Loose = {} /\ Stale = {}
    BY <1>1, IdleStands DEF Init, Loose, OldEntries, Stale
  <2> QED
    BY <2>1, ProcCount, FS_EmptySet DEF SurvivorInv
<1> QED
  BY <1>4, <1>5, <1>6, <1>7 DEF PasswordInv

\* A row of the history that is on the way is inserted or lost, if it moves at all.
LEMMA HistoryKept ==
  ASSUME RecoveryInv, PasswordInv, UNCHANGED <<password, history>>,
         Recording' \subseteq Recording,
         saver' \in {saver, "lost"},
         saver' \in Proc => call'[saver] = call[saver]
  PROVE  HistoryInv'
<1>1. CASE saver' = "lost"
  BY <1>1, NoneAssumption DEF HistoryInv
<1>2. CASE saver' = saver /\ saver \in Proc
  BY <1>2, NoneAssumption DEF HistoryInv, PasswordInv
<1>3. CASE saver' = saver /\ saver \notin Proc
  <2>1. Recording \subseteq Proc
    BY DEF Recording
  <2>2. /\ Cardinality(Recording') \in Nat /\ Cardinality(Recording) \in Nat
        /\ Cardinality(Recording') <= Cardinality(Recording)
    BY <2>1, Fewer
  <2>3. Len(history) \in Nat
    BY DEF PasswordInv, PasswordTypes
  <2> QED
    BY <1>3, <2>2, <2>3, NumberAssumption, ProcCount DEF HistoryInv, PasswordInv
<1> QED
  BY <1>1, <1>2, <1>3

\* The saver has its row still to insert.
LEMMA NotSaver ==
  ASSUME PasswordInv, NEW p \in Proc, call[p].pc # "record"
  PROVE  saver # p
  BY DEF PasswordInv, HistoryInv

\* No loose entry more and no stale request more.
LEMMA SurvivorKept ==
  ASSUME PasswordInv, settled' = settled, Loose' \subseteq Loose, Stale' \subseteq Stale
  PROVE  SurvivorInv'
<1>1. Stale \subseteq Proc
  BY DEF Stale
<1>2. /\ Cardinality(Stale') \in Nat /\ Cardinality(Stale) \in Nat
      /\ Cardinality(Stale') <= Cardinality(Stale)
  BY <1>1, Fewer
<1>3. ASSUME settled
      PROVE  /\ IsFiniteSet(Loose') /\ Cardinality(Loose') <= Cardinality(Loose)
             /\ Cardinality(Loose') \in Nat /\ Cardinality(Loose) \in Nat
  BY <1>3, FS_Subset, FS_CardinalityType DEF PasswordInv, SurvivorInv
<1> QED
  BY <1>2, <1>3, ProcCount DEF PasswordInv, SurvivorInv

\* One loose entry more, of a request that was stale and is no longer.
LEMMA SurvivorMoves ==
  ASSUME PasswordInv, settled' = settled, NEW p \in Stale, NEW s,
         Loose' \subseteq Loose \cup {s}, Stale' \subseteq Stale \ {p}
  PROVE  SurvivorInv'
<1>1. Stale \subseteq Proc
  BY DEF Stale
<1>2. /\ Cardinality(Stale') \in Nat /\ Cardinality(Stale) \in Nat
      /\ Cardinality(Stale') + 1 <= Cardinality(Stale)
  BY <1>1, OneFewer
<1>3. ASSUME settled
      PROVE  /\ IsFiniteSet(Loose') /\ Cardinality(Loose') <= Cardinality(Loose) + 1
             /\ Cardinality(Loose') \in Nat /\ Cardinality(Loose) \in Nat
  <2>1. IsFiniteSet(Loose)
    BY <1>3 DEF PasswordInv, SurvivorInv
  <2>2. IsFiniteSet(Loose \cup {s}) /\ Cardinality(Loose) \in Nat
        /\ Cardinality(Loose \cup {s}) \in {Cardinality(Loose), Cardinality(Loose) + 1}
    BY <2>1, FS_AddElement, FS_CardinalityType
  <2>3. IsFiniteSet(Loose') /\ Cardinality(Loose') <= Cardinality(Loose \cup {s})
    BY <2>2, FS_Subset
  <2> QED
    BY <2>2, <2>3, FS_CardinalityType
<1> QED
  BY <1>2, <1>3, ProcCount DEF PasswordInv, SurvivorInv

\* A request moves; the password, its history and the index stay.
LEMMA PlainKeeps ==
  ASSUME RecoveryInv, PasswordInv, NEW p \in Proc, NEW c \in Call, Go(p, c),
         UNCHANGED <<password, history, listed, settled>>,
         saver' \in {saver, "lost"}, saver = p => saver' = "lost",
         Furnished(c), c.pc = "record" => call[p].pc = "record",
         c.id \in {None, call[p].id}, c.id # None => c.cur = call[p].cur,
         IsStale(c, password) => IsStale(call[p], password),
         call[p].pc # "copyRem"
  PROVE  PasswordInv'
<1>1. call'[p] = c /\ (\A q \in Proc \ {p} : call'[q] = call[q])
  BY Moved DEF RecoveryInv
<1>2. PasswordTypes'
  BY <1>1 DEF PasswordInv, PasswordTypes
<1>3. IdInv'
  BY <1>1 DEF PasswordInv, IdInv
<1>4. HistoryInv'
  <2>1. Recording' \subseteq Recording
    BY <1>1 DEF Recording
  <2>2. saver' \in Proc => saver # p /\ saver \in Proc
    BY NoneAssumption
  <2> QED
    BY <1>1, <2>1, <2>2, HistoryKept
<1>5. SurvivorInv'
  <2>1. Stale' \subseteq Stale
    BY <1>1 DEF Stale
  <2>2. \A s : Kept(s) => Kept(s)'
    BY <1>1 DEF Kept
  <2>3. Loose' \subseteq Loose
    BY <2>2 DEF Loose, OldEntries
  <2> QED
    BY <2>1, <2>3, SurvivorKept
<1> QED
  BY <1>2, <1>3, <1>4, <1>5 DEF PasswordInv

LEMMA PlainIdle ==
  ASSUME RecoveryInv, PasswordInv, NEW p \in Proc, Go(p, Idle),
         UNCHANGED <<password, history, listed, settled>>,
         saver' \in {saver, "lost"}, saver = p => saver' = "lost",
         call[p].pc # "copyRem"
  PROVE  PasswordInv'
  BY IdleCall, IdleStands, PlainKeeps

\* The first statement of a request: a login takes the password in force.
LEMMA StartKeepsPassword ==
  ASSUME RecoveryInv, PasswordInv, NEW p \in Proc,
         StartForgot(p) \/ StartReset(p) \/ StartLogin(p)
  PROVE  PasswordInv'
<1>1. call[p].pc = "idle" /\ UNCHANGED <<password, history, listed, saver, settled>>
      /\ password \in Password
  BY DEF StartForgot, StartReset, StartLogin, At, RecoveryInv, LinkTypes
<1>2. PICK c \in Call :
        /\ Go(p, c)
        /\ c.pc \in {"invalidate", "check", "create"}
        /\ c.kind # "change" /\ c.id = None
        /\ c.pc = "create" => c.new = password
  <2>1. CASE StartForgot(p)
    <3> DEFINE d == [Idle EXCEPT !.pc = "invalidate", !.kind = "forgot"]
    <3>1. d \in Call /\ d.pc = "invalidate" /\ d.kind = "forgot" /\ d.id = None
      BY DEF Idle, Call
    <3>2. Go(p, d)
      BY <2>1 DEF StartForgot
    <3> HIDE DEF d
    <3> QED
      BY <3>1, <3>2
  <2>2. CASE StartReset(p)
    <3>1. PICK l \in Link : Go(p, [Idle EXCEPT !.pc = "check", !.kind = "reset", !.link = l])
      BY <2>2 DEF StartReset
    <3> DEFINE d == [Idle EXCEPT !.pc = "check", !.kind = "reset", !.link = l]
    <3>2. d \in Call /\ d.pc = "check" /\ d.kind = "reset" /\ d.id = None
      BY DEF Idle, Call
    <3>3. Go(p, d)
      BY <3>1
    <3> HIDE DEF d
    <3> QED
      BY <3>2, <3>3
  <2>3. CASE StartLogin(p)
    <3> DEFINE d == [Idle EXCEPT !.pc = "create", !.kind = "login", !.new = password]
    <3>1. d \in Call /\ d.pc = "create" /\ d.kind = "login" /\ d.id = None /\ d.new = password
      BY <1>1 DEF Idle, Call
    <3>2. Go(p, d)
      BY <2>3 DEF StartLogin
    <3> HIDE DEF d
    <3> QED
      BY <3>1, <3>2
  <2> QED
    BY <2>1, <2>2, <2>3
<1>3. Furnished(c) /\ ~IsStale(c, password) /\ saver # p
  BY <1>1, <1>2, NotSaver DEF IsStale, Furnished
<1> QED
  BY <1>1, <1>2, <1>3, PlainKeeps

\* A change takes an id with the password that the index, or whoever has it,
\* gives; a fresh one is nobody's.
LEMMA StartChangeKeepsPassword ==
  ASSUME RecoveryInv, PasswordInv, NEW p \in Proc, StartChange(p)
  PROVE  PasswordInv'
<1>1. call[p].pc = "idle" /\ UNCHANGED <<password, history, listed, saver, settled>>
  BY DEF StartChange, At
<1>2. PICK s \in Session, w \in Password :
        /\ \/ listed[s] = w
           \/ \E q \in Proc : call[q].id = s /\ call[q].cur = w
           \/ s \in FreshIds
        /\ Go(p, [Idle EXCEPT !.pc = "history", !.kind = "change", !.id = s, !.cur = w])
  BY DEF StartChange
<1> DEFINE d == [Idle EXCEPT !.pc = "history", !.kind = "change", !.id = s, !.cur = w]
<1>3. d \in Call /\ d.pc = "history" /\ d.kind = "change" /\ d.id = s /\ d.cur = w
  BY DEF Idle, Call
<1>4. Go(p, d)
  BY <1>2
<1> HIDE DEF d
<1>5. call'[p] = d /\ \A q \in Proc \ {p} : call'[q] = call[q]
  BY <1>3, <1>4, Moved DEF RecoveryInv
<1>6. s # None /\ w # None
  BY NoneAssumption
<1>7. listed[s] \in {None, w} /\ \A q \in Proc : call[q].id = s => call[q].cur = w
  BY <1>2, <1>6 DEF PasswordInv, IdInv, FreshIds
<1>8. PasswordTypes'
  BY <1>1, <1>3, <1>5 DEF PasswordInv, PasswordTypes, Furnished
<1>9. IdInv'
  <2> SUFFICES ASSUME NEW a \in Proc, call'[a].id # None
               PROVE  /\ listed[call'[a].id] \in {None, call'[a].cur}
                      /\ \A q \in Proc : call'[q].id = call'[a].id => call'[q].cur = call'[a].cur
    BY <1>1 DEF IdInv
  <2>1. CASE call'[a].id = s
    <3>1. \A q \in Proc : call'[q].id = s => call'[q].cur = w
      BY <1>3, <1>5, <1>7
    <3> QED
      BY <1>7, <2>1, <3>1
  <2>2. CASE call'[a].id # s
    BY <1>3, <1>5, <2>2 DEF PasswordInv, IdInv
  <2> QED
    BY <2>1, <2>2
<1>10. HistoryInv'
  <2>1. Recording' \subseteq Recording /\ saver # p
    BY <1>1, <1>3, <1>5, NotSaver DEF Recording
  <2> QED
    BY <1>1, <1>5, <2>1, HistoryKept
<1>11. SurvivorInv'
  <2>1. Stale' \subseteq Stale
    BY <1>1, <1>3, <1>5 DEF Stale, IsStale
  <2>2. \A t : Kept(t) => Kept(t)'
    BY <1>1, <1>5 DEF Kept
  <2>3. Loose' \subseteq Loose
    BY <1>1, <2>2 DEF Loose, OldEntries
  <2> QED
    BY <1>1, <2>1, <2>3, SurvivorKept
<1> QED
  BY <1>8, <1>9, <1>10, <1>11 DEF PasswordInv

\* Statements on the links and the read of the history.
LEMMA MoveKeepsPassword ==
  ASSUME RecoveryInv, PasswordInv, NEW p \in Proc,
         InvalidateLinks(p) \/ InsertLink(p) \/ CheckLink(p) \/ ReadHistory(p) \/ MarkAsUsed(p)
  PROVE  PasswordInv'
<1>1. call[p].pc \in {"invalidate", "insertLink", "check", "history", "mark"}
      /\ UNCHANGED <<password, history, listed, saver, settled>>
  BY DEF InvalidateLinks, InsertLink, CheckLink, ReadHistory, MarkAsUsed, At
<1>2. saver # p /\ Furnished(call[p])
  BY <1>1, NotSaver DEF PasswordInv, PasswordTypes
<1>3. CASE Go(p, Idle)
  BY <1>1, <1>2, <1>3, PlainIdle
<1>4. ASSUME NEW d \in Call, Go(p, d), d.kind = call[p].kind, d.id = call[p].id,
             d.cur = call[p].cur, d.pc \in {"insertLink", "history", "save", "clear"},
             d.kind = "change" => d.pc # "clear"
      PROVE  PasswordInv'
  <2>1. Furnished(d) /\ ~IsStale(d, password)
    BY <1>1, <1>2, <1>4 DEF Furnished, IsStale
  <2> QED
    BY <1>1, <1>2, <1>4, <2>1, PlainKeeps
<1>5. ASSUME NEW pc \in {"insertLink", "history"}, Go(p, [call[p] EXCEPT !.pc = pc])
      PROVE  PasswordInv'
  <2> DEFINE d == [call[p] EXCEPT !.pc = pc]
  <2>1. d \in Call /\ d.pc = pc /\ d.kind = call[p].kind /\ d.id = call[p].id
        /\ d.cur = call[p].cur
    BY Here DEF Call
  <2>2. Go(p, d)
    BY <1>5
  <2> HIDE DEF d
  <2> QED
    BY <1>4, <2>1, <2>2
<1>6. ASSUME NEW w \in Password, Go(p, [call[p] EXCEPT !.pc = "save", !.new = w])
      PROVE  PasswordInv'
  <2> DEFINE d == [call[p] EXCEPT !.pc = "save", !.new = w]
  <2>1. d \in Call /\ d.pc = "save" /\ d.kind = call[p].kind /\ d.id = call[p].id
        /\ d.cur = call[p].cur
    BY Here DEF Call
  <2>2. Go(p, d)
    BY <1>6
  <2> HIDE DEF d
  <2> QED
    BY <1>4, <2>1, <2>2
<1>7. CASE MarkAsUsed(p)
  <2> DEFINE d == [call[p] EXCEPT !.pc = "clear", !.link = None]
  <2>1. d \in Call /\ d.pc = "clear" /\ d.kind = call[p].kind /\ d.id = call[p].id
        /\ d.cur = call[p].cur
    BY Here DEF Call
  <2>2. Go(p, d)
    BY <1>7 DEF MarkAsUsed
  <2> HIDE DEF d
  <2>3. call[p].kind = "reset"
    BY <1>7, Here DEF MarkAsUsed, At, Placed
  <2> QED
    BY <1>4, <2>1, <2>2, <2>3
<1> QED
  BY <1>3, <1>5, <1>6, <1>7 DEF InvalidateLinks, InsertLink, CheckLink, ReadHistory

\* The save: the index has yet to be cleared of what is old now.
LEMMA SaveKeepsPassword ==
  ASSUME RecoveryInv, PasswordInv, NEW p \in Proc, SavePassword(p)
  PROVE  PasswordInv'
<1> DEFINE d == [call[p] EXCEPT !.pc = "record"]
<1>1. call[p].pc = "save" /\ call[p].new \in Password /\ password' = call[p].new
      /\ saver' = p /\ settled' = FALSE /\ UNCHANGED <<history, listed>>
  BY Here DEF SavePassword, At, Placed
<1>2. d \in Call /\ d.pc = "record" /\ d.new = call[p].new /\ d.kind = call[p].kind
      /\ d.id = call[p].id /\ d.cur = call[p].cur
  BY Here DEF Call
<1>3. Go(p, d)
  BY DEF SavePassword
<1> HIDE DEF d
<1>4. call'[p] = d /\ (\A q \in Proc \ {p} : call'[q] = call[q])
  BY <1>2, <1>3, Moved DEF RecoveryInv
<1>5. PasswordTypes'
  BY <1>1, <1>2, <1>4 DEF PasswordInv, PasswordTypes, Furnished
<1>6. IdInv'
  BY <1>1, <1>2, <1>4 DEF PasswordInv, IdInv
<1>7. HistoryInv'
  BY <1>1, <1>2, <1>4, NoneAssumption DEF HistoryInv
<1>8. SurvivorInv'
  BY <1>1 DEF SurvivorInv
<1> QED
  BY <1>5, <1>6, <1>7, <1>8 DEF PasswordInv

\* A row appended moves the rows before it towards the end of what is read.
LEMMA LatestRows ==
  ASSUME PasswordTypes, NEW w \in Password
  PROVE  LET h == Latest(Append(history, w))
         IN  /\ h \in Seq(Password) /\ Len(h) <= HistoryCount
             /\ Len(h) \in 1 .. Len(h) /\ h[Len(h)] = w
             /\ \/ Len(h) = Len(history) + 1
                   /\ \A i \in 1 .. Len(history) : h[i] = history[i]
                \/ Len(h) = Len(history) /\ Len(history) = HistoryCount
                   /\ \A i \in 2 .. Len(history) : h[i - 1] = history[i]
<1> DEFINE a == Append(history, w)
           n == Len(history)
<1>1. a \in Seq(Password) /\ n \in Nat /\ n <= HistoryCount /\ Len(a) = n + 1 /\ a # <<>>
      /\ a[n + 1] = w /\ \A i \in 1 .. n : a[i] = history[i]
  BY DEF PasswordTypes
<1>2. CASE n + 1 > HistoryCount
  <2>1. Latest(a) = Tail(a)
    BY <1>1, <1>2 DEF Latest
  <2>2. Tail(a) \in Seq(Password) /\ Len(Tail(a)) = n /\ \A i \in 1 .. n : Tail(a)[i] = a[i + 1]
    BY <1>1
  <2>3. n = HistoryCount /\ n \in 1 .. n
    BY <1>1, <1>2, NumberAssumption
  <2>4. \A i \in 2 .. n : Tail(a)[i - 1] = history[i]
    <3> SUFFICES ASSUME NEW i \in 2 .. n PROVE Tail(a)[i - 1] = history[i]
      OBVIOUS
    <3>1. i - 1 \in 1 .. n /\ i - 1 + 1 = i /\ i \in 1 .. n
      BY <1>1
    <3> QED
      BY <1>1, <2>2, <3>1
  <2> QED
    BY <1>1, <2>1, <2>2, <2>3, <2>4
<1>3. CASE ~(n + 1 > HistoryCount)
  BY <1>1, <1>3, NumberAssumption DEF Latest
<1> QED
  BY <1>2, <1>3

\* The row is inserted: the rows that can still come after it are one fewer.
LEMMA RecordKeepsPassword ==
  ASSUME RecoveryInv, PasswordInv, NEW p \in Proc, RecordPassword(p)
  PROVE  PasswordInv'
<1> DEFINE d == IF call[p].kind = "reset" THEN [call[p] EXCEPT !.pc = "mark", !.new = None]
                                         ELSE [call[p] EXCEPT !.pc = "clear"]
<1>1. call[p].pc = "record" /\ call[p].new \in Password /\ Furnished(call[p])
      /\ history' = Latest(Append(history, call[p].new))
      /\ saver' = (IF saver = p THEN "recorded" ELSE saver)
      /\ UNCHANGED <<password, listed, settled>>
  BY DEF RecordPassword, Recorded, At, PasswordInv, PasswordTypes, Furnished
<1>2. d \in Call /\ d.pc \in {"mark", "clear"} /\ d.kind = call[p].kind
      /\ d.id = call[p].id /\ d.cur = call[p].cur
      /\ (d.kind # "reset" => d.new = call[p].new)
  BY Here DEF Call
<1>3. Go(p, d)
  BY DEF RecordPassword, Recorded
<1> HIDE DEF d
<1>4. call'[p] = d /\ (\A q \in Proc \ {p} : call'[q] = call[q])
  BY <1>2, <1>3, Moved DEF RecoveryInv
<1>5. PasswordTypes /\ PasswordTypes'
  <2>1. PasswordTypes
    BY DEF PasswordInv
  <2>2. history' \in Seq(Password) /\ Len(history') <= HistoryCount
    BY <1>1, <2>1, LatestRows
  <2>3. Furnished(d)
    BY <1>1, <1>2 DEF Furnished
  <2> QED
    BY <1>1, <1>4, <2>1, <2>2, <2>3 DEF PasswordTypes
<1>6. HistoryInv'
  <2>1. p \in Recording /\ Recording' \subseteq Recording \ {p} /\ Recording \subseteq Proc
    BY <1>1, <1>2, <1>4 DEF Recording
  <2>2. /\ Cardinality(Recording') \in Nat /\ Cardinality(Recording) \in Nat
        /\ Cardinality(Recording') + 1 <= Cardinality(Recording)
    BY <2>1, OneFewer
  <2>3. Cardinality(Recording) <= Cardinality(Proc)
    BY <2>1, Fewer
  <2>4. Len(history) \in Nat /\ Len(history') \in Nat
    BY <1>5 DEF PasswordTypes
  <2>5. CASE saver = p
    <3>1. Len(history') \in 1 .. Len(history') /\ history'[Len(history')] = call[p].new
      BY <1>1, <1>5, LatestRows
    <3>2. call[p].new = password /\ saver' = "recorded" /\ saver' \notin Proc
      BY <1>1, <2>5, NoneAssumption DEF PasswordInv, HistoryInv
    <3>3. \/ HistoryCount < Cardinality(Proc)
          \/ Len(history') - Len(history') + Cardinality(Recording') < HistoryCount
      BY <2>2, <2>3, <2>4, ProcCount, NumberAssumption
    <3> QED
      BY <1>1, <3>1, <3>2, <3>3 DEF HistoryInv
  <2>6. CASE saver # p /\ saver \in Proc
    BY <1>1, <1>4, <2>6, NoneAssumption DEF PasswordInv, HistoryInv
  <2>7. CASE saver # p /\ saver = "recorded" /\ HistoryCount >= Cardinality(Proc)
    <3>1. PICK i \in 1 .. Len(history) :
            /\ history[i] = password
            /\ Len(history) - i + Cardinality(Recording) < HistoryCount
      BY <2>7, NumberAssumption, ProcCount DEF PasswordInv, HistoryInv
    <3>2. \E j \in 1 .. Len(history') :
            /\ history'[j] = password
            /\ Len(history') - j + Cardinality(Recording') < HistoryCount
      <4>1. CASE /\ Len(history') = Len(history) + 1
                 /\ \A k \in 1 .. Len(history) : history'[k] = history[k]
        <5>1. i \in 1 .. Len(history') /\ history'[i] = password
          BY <2>4, <3>1, <4>1
        <5>2. Len(history') - i + Cardinality(Recording') < HistoryCount
          BY <2>2, <2>4, <3>1, <4>1, NumberAssumption
        <5> QED
          BY <5>1, <5>2
      <4>2. CASE /\ Len(history') = Len(history) /\ Len(history) = HistoryCount
                 /\ \A k \in 2 .. Len(history) : history'[k - 1] = history[k]
        <5>1. i \in 2 .. Len(history)
          BY <2>2, <2>4, <3>1, <4>2, NumberAssumption
        <5>2. i - 1 \in 1 .. Len(history') /\ history'[i - 1] = password
          BY <2>4, <3>1, <4>2, <5>1
        <5>3. Len(history') - (i - 1) + Cardinality(Recording') < HistoryCount
          BY <2>2, <2>4, <3>1, <4>2, NumberAssumption
        <5> QED
          BY <5>2, <5>3
      <4> QED
        BY <1>1, <1>5, <4>1, <4>2, LatestRows
    <3> QED
      BY <1>1, <2>7, <3>2, NoneAssumption DEF HistoryInv
  <2>8. CASE saver # p /\ saver = "recorded" /\ ~(HistoryCount >= Cardinality(Proc))
    <3>1. HistoryCount < Cardinality(Proc)
      BY <2>8, NumberAssumption, ProcCount
    <3> QED
      BY <1>1, <2>8, <3>1, NoneAssumption DEF HistoryInv
  <2>9. CASE saver = "lost"
    BY <1>1, <2>9, NoneAssumption DEF HistoryInv
  <2> QED
    BY <1>5, <2>5, <2>6, <2>7, <2>8, <2>9 DEF PasswordTypes
<1>7. IdInv'
  BY <1>1, <1>2, <1>4 DEF PasswordInv, IdInv
<1>8. SurvivorInv'
  <2>1. Stale' \subseteq Stale
    BY <1>1, <1>2, <1>4 DEF Stale, IsStale
  <2>2. \A s : Kept(s) => Kept(s)'
    BY <1>1, <1>4 DEF Kept
  <2>3. Loose' \subseteq Loose
    BY <1>1, <2>2 DEF Loose, OldEntries
  <2> QED
    BY <1>1, <2>1, <2>3, SurvivorKept
<1> QED
  BY <1>5, <1>6, <1>7, <1>8 DEF PasswordInv

\* A step of the index by a request that has its row inserted: ids agree as long
\* as what is listed agrees with who has the id.
LEMMA IndexTypes ==
  ASSUME RecoveryInv, PasswordInv, NEW p \in Proc, NEW c \in Call, Go(p, c),
         UNCHANGED <<password, history, saver>>, settled' \in BOOLEAN,
         call[p].pc # "record", c.pc # "record", Furnished(c),
         c.id \in {None, call[p].id}, c.id # None => c.cur = call[p].cur,
         listed' \in [Session -> Password \cup {None}],
         \A q \in Proc : call[q].id # None => listed'[call[q].id] \in {None, call[q].cur}
  PROVE  PasswordTypes' /\ IdInv' /\ HistoryInv'
<1>1. call'[p] = c /\ (\A q \in Proc \ {p} : call'[q] = call[q])
  BY Moved DEF RecoveryInv
<1>2. PasswordTypes'
  BY <1>1 DEF PasswordInv, PasswordTypes
<1>3. IdInv'
  BY <1>1 DEF PasswordInv, IdInv
<1>4. HistoryInv'
  <2>1. Recording' \subseteq Recording /\ saver # p
    BY <1>1, NotSaver DEF Recording
  <2> QED
    BY <1>1, <2>1, HistoryKept
<1> QED
  BY <1>2, <1>3, <1>4

\* The whole index goes: at most all requests are stale.
LEMMA ClearKeepsPassword ==
  ASSUME RecoveryInv, PasswordInv, NEW p \in Proc, ClearIndex(p)
  PROVE  PasswordInv'
<1>1. call[p].pc = "clear" /\ settled' = TRUE /\ listed' = [s \in Session |-> None]
      /\ UNCHANGED <<password, history, saver>>
  BY DEF ClearIndex, Cleared, At, Without
<1>2. PICK c \in Call :
        /\ Go(p, c) /\ c.pc # "record" /\ Furnished(c)
        /\ c.id \in {None, call[p].id} /\ (c.id # None => c.cur = call[p].cur)
  <2>1. CASE Go(p, Idle)
    BY <2>1, IdleCall, IdleStands
  <2>2. ASSUME NEW pc \in {"keep", "copyRem"}, Go(p, [call[p] EXCEPT !.pc = pc])
        PROVE  \E c \in Call :
                  /\ Go(p, c) /\ c.pc # "record" /\ Furnished(c)
                  /\ c.id \in {None, call[p].id} /\ (c.id # None => c.cur = call[p].cur)
    <3> DEFINE d == [call[p] EXCEPT !.pc = pc]
    <3>1. d \in Call /\ d.pc = pc /\ d.kind = call[p].kind /\ d.new = call[p].new
          /\ d.id = call[p].id /\ d.cur = call[p].cur
      BY Here DEF Call
    <3>2. Go(p, d)
      BY <2>2
    <3> HIDE DEF d
    <3>3. Furnished(call[p])
      BY DEF PasswordInv, PasswordTypes
    <3>4. Furnished(d)
      BY <1>1, <3>1, <3>3 DEF Furnished
    <3> QED
      BY <3>1, <3>2, <3>4
  <2> QED
    BY <2>1, <2>2 DEF ClearIndex, Cleared
<1>3. \A q \in Proc : call[q].id # None => listed'[call[q].id] \in {None, call[q].cur}
  <2>1. \A q \in Proc : call[q].id \in Session \cup {None}
    BY Here DEF Call
  <2> QED
    BY <1>1, <2>1
<1>4. PasswordTypes' /\ IdInv' /\ HistoryInv'
  BY <1>1, <1>2, <1>3, IndexTypes
<1>5. SurvivorInv'
  <2>1. Loose' = {}
    BY <1>1 DEF Loose, OldEntries
  <2>2. Stale' \subseteq Proc
    BY DEF Stale
  <2>3. Cardinality(Stale') \in Nat /\ Cardinality(Stale') <= Cardinality(Proc)
    BY <2>2, Fewer
  <2> QED
    BY <2>1, <2>3, FS_EmptySet, ProcCount DEF SurvivorInv
<1> QED
  BY <1>4, <1>5 DEF PasswordInv

\* A session put back stays: of an old password only if its request was stale.
LEMMA KeepKeepsPassword ==
  ASSUME RecoveryInv, PasswordInv, NEW p \in Proc, KeepAdd(p)
  PROVE  PasswordInv'
<1> DEFINE t == call[p].id
           w == call[p].cur
<1>1. call[p].pc = "keep" /\ listed' = [listed EXCEPT ![t] = w]
      /\ UNCHANGED <<password, history, saver, settled>>
  BY DEF KeepAdd, At
<1>2. listed \in [Session -> Password \cup {None}] /\ settled \in BOOLEAN
      /\ Furnished(call[p]) /\ call[p].kind = "change"
  BY <1>1, Here DEF PasswordInv, PasswordTypes, Placed
<1>3. t \in Session /\ w \in Password /\ t # None
  BY <1>1, <1>2, NoneAssumption DEF Furnished
<1>4. listed' \in [Session -> Password \cup {None}]
  BY <1>1, <1>2, <1>3
<1>5. \A q \in Proc : call[q].id # None => listed'[call[q].id] \in {None, call[q].cur}
  <2> SUFFICES ASSUME NEW q \in Proc, call[q].id # None
               PROVE  listed'[call[q].id] \in {None, call[q].cur}
    OBVIOUS
  <2>1. call[q].id \in Session
    BY Here DEF Call
  <2>2. CASE call[q].id = t
    <3>1. call[q].cur = w
      BY <1>3, <2>2 DEF PasswordInv, IdInv
    <3> QED
      BY <1>1, <1>2, <1>3, <2>2, <3>1
  <2>3. CASE call[q].id # t
    BY <1>1, <1>2, <2>1, <2>3 DEF PasswordInv, IdInv
  <2> QED
    BY <2>2, <2>3
<1>6. CASE Go(p, Idle)
  <2>1. call'[p] = Idle /\ \A q \in Proc \ {p} : call'[q] = call[q]
    BY <1>6, IdleCall, Moved DEF RecoveryInv
  <2>2. PasswordTypes' /\ IdInv' /\ HistoryInv'
    BY <1>1, <1>2, <1>4, <1>5, <1>6, IdleCall, IdleStands, IndexTypes
  <2>3. \A s : Kept(s) => Kept(s)'
    BY <1>1, <2>1 DEF Kept
  <2>4. Stale' \subseteq Stale \ {p}
    BY <1>1, <2>1, IdleStands DEF Stale
  <2>5. Loose' \subseteq Loose \cup {t} /\ (w = password => Loose' \subseteq Loose)
    BY <1>1, <1>2, <1>3, <2>3 DEF Loose, OldEntries
  <2>6. w # password => p \in Stale
    BY <1>1 DEF Stale, IsStale
  <2>7. SurvivorInv'
    BY <1>1, <2>4, <2>5, <2>6, SurvivorKept, SurvivorMoves
  <2> QED
    BY <2>2, <2>7 DEF PasswordInv
<1>7. CASE Go(p, [call[p] EXCEPT !.pc = "copyRem"])
  <2>1. PICK d \in Call : /\ Go(p, d) /\ d.pc = "copyRem" /\ d.kind = call[p].kind
                          /\ d.new = call[p].new /\ d.id = t /\ d.cur = w
    <3> DEFINE d == [call[p] EXCEPT !.pc = "copyRem"]
    <3>1. d \in Call /\ d.pc = "copyRem" /\ d.kind = call[p].kind
          /\ d.new = call[p].new /\ d.id = t /\ d.cur = w
      BY Here DEF Call
    <3>2. Go(p, d)
      BY <1>7
    <3> HIDE DEF d
    <3> QED
      BY <3>1, <3>2
  <2>2. call'[p] = d /\ \A q \in Proc \ {p} : call'[q] = call[q]
    BY <2>1, Moved DEF RecoveryInv
  <2>3. PasswordTypes' /\ IdInv' /\ HistoryInv'
    <3>1. Furnished(d)
      BY <1>1, <1>2, <2>1 DEF Furnished
    <3>2. d.pc # "record" /\ d.id \in {None, call[p].id} /\ d.cur = call[p].cur
          /\ Go(p, d) /\ call[p].pc # "record"
      BY <1>1, <2>1
    <3>3. settled' \in BOOLEAN /\ UNCHANGED <<password, history, saver>>
      BY <1>1, <1>2
    <3> QED
      BY <1>4, <1>5, <2>1, <3>1, <3>2, <3>3, IndexTypes
  <2>4. \A s : Kept(s) \/ s = t => Kept(s)'
    BY <1>1, <2>1, <2>2 DEF Kept
  <2>5. Loose' \subseteq Loose
    <3>1. \A s \in Session : s # t => listed'[s] = listed[s]
      BY <1>1, <1>2
    <3> QED
      BY <1>1, <2>4, <3>1 DEF Loose, OldEntries
  <2>6. Stale' \subseteq Stale
    BY <1>1, <2>1, <2>2 DEF Stale, IsStale
  <2> QED
    BY <1>1, <2>3, <2>5, <2>6, SurvivorKept DEF PasswordInv
<1> QED
  BY <1>6, <1>7 DEF KeepAdd

\* The session that was copied leaves; another change may still keep it.
LEMMA CopyRemKeepsPassword ==
  ASSUME RecoveryInv, PasswordInv, NEW p \in Proc, CopyRem(p)
  PROVE  PasswordInv'
<1> DEFINE t == call[p].id
<1>1. call[p].pc = "copyRem" /\ listed' = Without({t})
      /\ UNCHANGED <<password, history, saver, settled>>
  BY DEF CopyRem, At
<1>2. listed \in [Session -> Password \cup {None}] /\ settled \in BOOLEAN
      /\ Furnished(call[p]) /\ call[p].kind = "change"
  BY <1>1, Here DEF PasswordInv, PasswordTypes, Placed
<1>3. listed' \in [Session -> Password \cup {None}]
      /\ \A s \in Session : listed'[s] = IF s = t THEN None ELSE listed[s]
  BY <1>1, <1>2 DEF Without
<1>4. \A q \in Proc : call[q].id # None => listed'[call[q].id] \in {None, call[q].cur}
  <2>1. \A q \in Proc : call[q].id \in Session \cup {None}
    BY Here DEF Call
  <2> QED
    BY <1>3, <2>1 DEF PasswordInv, IdInv
<1>5. PICK d \in Call : /\ Go(p, d) /\ d.pc = "copyAdd" /\ d.kind = call[p].kind
                        /\ d.new = call[p].new /\ d.id = None
  <2> DEFINE d == [call[p] EXCEPT !.pc = "copyAdd", !.id = None, !.cur = None]
  <2>1. d \in Call /\ d.pc = "copyAdd" /\ d.kind = call[p].kind
        /\ d.new = call[p].new /\ d.id = None
    BY Here DEF Call
  <2>2. Go(p, d)
    BY DEF CopyRem
  <2> HIDE DEF d
  <2> QED
    BY <2>1, <2>2
<1>6. call'[p] = d /\ \A q \in Proc \ {p} : call'[q] = call[q]
  BY <1>5, Moved DEF RecoveryInv
<1>7. PasswordTypes' /\ IdInv' /\ HistoryInv'
  <2>1. Furnished(d)
    BY <1>1, <1>2, <1>5 DEF Furnished
  <2> QED
    BY <1>1, <1>2, <1>3, <1>4, <1>5, <2>1, IndexTypes
<1>8. \A s : Kept(s) /\ s # t => Kept(s)'
  BY <1>1, <1>6 DEF Kept
<1>9. Loose' \subseteq Loose
  BY <1>1, <1>3, <1>8 DEF Loose, OldEntries
<1>10. Stale' \subseteq Stale
  BY <1>1, <1>5, <1>6 DEF Stale, IsStale
<1> QED
  BY <1>1, <1>7, <1>9, <1>10, SurvivorKept DEF PasswordInv

\* A new id: of an old password only if its request was stale, which then ends.
LEMMA AddKeepsPassword ==
  ASSUME RecoveryInv, PasswordInv, NEW p \in Proc, CopyAdd(p) \/ CreateSession(p)
  PROVE  PasswordInv'
<1> DEFINE w == call[p].new
<1>1. call[p].pc \in {"copyAdd", "create"} /\ Go(p, Idle)
      /\ UNCHANGED <<password, history, saver, settled>>
  BY DEF CopyAdd, CreateSession, At
<1>2. PICK t \in FreshIds : listed' = [listed EXCEPT ![t] = w]
  BY DEF CopyAdd, CreateSession
<1>3. listed \in [Session -> Password \cup {None}] /\ settled \in BOOLEAN
      /\ Furnished(call[p]) /\ (call[p].pc = "copyAdd" => call[p].kind = "change")
  BY <1>1, Here DEF PasswordInv, PasswordTypes, Placed
<1>4. t \in Session /\ w \in Password /\ \A q \in Proc : call[q].id # t
  BY <1>1, <1>3 DEF Furnished, FreshIds
<1>5. listed' \in [Session -> Password \cup {None}]
      /\ \A s \in Session : listed'[s] = IF s = t THEN w ELSE listed[s]
  BY <1>2, <1>3, <1>4
<1>6. \A q \in Proc : call[q].id # None => listed'[call[q].id] \in {None, call[q].cur}
  <2>1. \A q \in Proc : call[q].id \in Session \cup {None}
    BY Here DEF Call
  <2> QED
    BY <1>4, <1>5, <2>1 DEF PasswordInv, IdInv
<1>7. call'[p] = Idle /\ \A q \in Proc \ {p} : call'[q] = call[q]
  BY <1>1, IdleCall, Moved DEF RecoveryInv
<1>8. PasswordTypes' /\ IdInv' /\ HistoryInv'
  BY <1>1, <1>3, <1>5, <1>6, IdleCall, IdleStands, IndexTypes
<1>9. \A s : Kept(s) => Kept(s)'
  BY <1>1, <1>7 DEF Kept
<1>10. Stale' \subseteq Stale \ {p}
  BY <1>1, <1>7, IdleStands DEF Stale
<1>11. Loose' \subseteq Loose \cup {t} /\ (w = password => Loose' \subseteq Loose)
  BY <1>1, <1>5, <1>9 DEF Loose, OldEntries
<1>12. w # password => p \in Stale
  BY <1>1 DEF Stale, IsStale
<1>13. SurvivorInv'
  BY <1>1, <1>10, <1>11, <1>12, SurvivorKept, SurvivorMoves
<1> QED
  BY <1>8, <1>13 DEF PasswordInv

\* A save with its row still to insert is lost if the request dies.  One that
\* dies before it takes its session out leaves it, stale as it was.
LEMMA FailKeepsPassword ==
  ASSUME RecoveryInv, PasswordInv, NEW p \in Proc, Fail(p)
  PROVE  PasswordInv'
<1>1. Go(p, Idle) /\ UNCHANGED <<password, history, listed, settled>>
      /\ saver' \in {saver, "lost"} /\ (saver = p => saver' = "lost")
  BY DEF Fail
<1>2. CASE call[p].pc # "copyRem"
  BY <1>1, <1>2, PlainIdle
<1>3. CASE call[p].pc = "copyRem"
  <2> DEFINE t == call[p].id
  <2>1. saver' = saver
    BY <1>3, NotSaver DEF Fail
  <2>2. call'[p] = Idle /\ \A q \in Proc \ {p} : call'[q] = call[q]
    BY <1>1, IdleCall, Moved DEF RecoveryInv
  <2>3. t \in Session /\ t # None
    BY <1>3, Here, NoneAssumption DEF PasswordInv, PasswordTypes, Furnished, Placed
  <2>4. PasswordTypes' /\ IdInv' /\ HistoryInv'
    <3>1. listed' \in [Session -> Password \cup {None}] /\ settled' \in BOOLEAN
          /\ \A q \in Proc : call[q].id # None => listed'[call[q].id] \in {None, call[q].cur}
      BY <1>1 DEF PasswordInv, PasswordTypes, IdInv
    <3> QED
      BY <1>1, <1>3, <2>1, <3>1, IdleCall, IdleStands, IndexTypes
  <2>5. \A s : Kept(s) /\ s # t => Kept(s)'
    BY <2>2 DEF Kept
  <2>6. Stale' \subseteq Stale \ {p}
    BY <1>1, <2>2, IdleStands DEF Stale
  <2>7. Loose' \subseteq Loose \cup {t}
    BY <1>1, <2>5 DEF Loose, OldEntries
  <2>8. call[p].cur = password => Loose' \subseteq Loose
    <3>1. call[p].cur = password => listed[t] \in {None, password}
      BY <2>3 DEF PasswordInv, IdInv
    <3> QED
      BY <1>1, <2>5, <3>1 DEF Loose, OldEntries
  <2>9. call[p].cur # password => p \in Stale
    BY <1>3 DEF Stale, IsStale
  <2>10. SurvivorInv'
    BY <1>1, <2>6, <2>7, <2>8, <2>9, SurvivorKept, SurvivorMoves
  <2> QED
    BY <2>4, <2>10 DEF PasswordInv
<1> QED
  BY <1>2, <1>3

LEMMA ExpiryKeepsPassword ==
  ASSUME RecoveryInv, PasswordInv, LinkExpires \/ EntryLeaves \/ UNCHANGED vars
  PROVE  PasswordInv'
<1>1. UNCHANGED <<password, history, call, saver, settled>>
  BY DEF LinkExpires, EntryLeaves, vars
<1>2. listed \in [Session -> Password \cup {None}]
  BY DEF PasswordInv, PasswordTypes
<1>3. /\ listed' \in [Session -> Password \cup {None}]
      /\ \A s \in Session : listed'[s] \in {None, listed[s]}
  BY <1>2 DEF LinkExpires, EntryLeaves, Without, vars
<1>4. PasswordTypes'
  BY <1>1, <1>3 DEF PasswordInv, PasswordTypes
<1>5. IdInv'
  <2>1. \A q \in Proc : call[q].id \in Session \cup {None}
    BY Here DEF Call
  <2> QED
    BY <1>1, <1>3, <2>1 DEF PasswordInv, IdInv
<1>6. HistoryInv'
  BY <1>1, HistoryKept DEF Recording
<1>7. SurvivorInv'
  <2>1. \A s : Kept(s) => Kept(s)'
    BY <1>1 DEF Kept
  <2>2. Loose' \subseteq Loose
    BY <1>1, <1>3, <2>1 DEF Loose, OldEntries
  <2>3. Stale' \subseteq Stale
    BY <1>1 DEF Stale
  <2> QED
    BY <1>1, <2>2, <2>3, SurvivorKept
<1> QED
  BY <1>4, <1>5, <1>6, <1>7 DEF PasswordInv

LEMMA PasswordStep == RecoveryInv /\ PasswordInv /\ [Next]_vars => PasswordInv'
<1> SUFFICES ASSUME RecoveryInv, PasswordInv, [Next]_vars PROVE PasswordInv'
  OBVIOUS
<1>1. CASE LinkExpires \/ EntryLeaves \/ UNCHANGED vars
  BY <1>1, ExpiryKeepsPassword
<1>2. ASSUME NEW p \in Proc, Forgot(p) PROVE PasswordInv'
  BY <1>2, StartKeepsPassword, MoveKeepsPassword DEF Forgot
<1>3. ASSUME NEW p \in Proc, Replace(p) PROVE PasswordInv'
  BY <1>3, StartKeepsPassword, StartChangeKeepsPassword, MoveKeepsPassword, SaveKeepsPassword,
     RecordKeepsPassword, ClearKeepsPassword, KeepKeepsPassword, CopyRemKeepsPassword,
     AddKeepsPassword DEF Replace
<1>4. ASSUME NEW p \in Proc, StartLogin(p) \/ CreateSession(p) \/ Fail(p) PROVE PasswordInv'
  BY <1>4, StartKeepsPassword, AddKeepsPassword, FailKeepsPassword
<1> QED
  BY <1>1, <1>2, <1>3, <1>4 DEF Next

LEMMA PasswordAlways == Spec => []PasswordInv
  BY RecoveryAlways, PasswordInit, PasswordStep, PTL DEF Spec

-----------------------------------------------------------------------------
(* The theorems.                                                           *)

\* forgotPassword's UPDATE and INSERT are two statements: the links that work
\* are nevertheless no more than the requests that can be in flight.
THEOREM FewLinks == Spec => []LinkBound
<1>1. RecoveryInv => LinkBound
  <2> SUFFICES ASSUME RecoveryInv PROVE LinkBound
    OBVIOUS
  <2>1. Linking \subseteq Proc
    BY DEF Linking
  <2>2. Cardinality(Linking) \in Nat /\ Cardinality(live) \in Nat
    BY <2>1, Fewer, FS_CardinalityType DEF RecoveryInv, LinkInv
  <2> QED
    BY <2>2, ProcCount DEF RecoveryInv, LinkInv, LinkBound
<1> QED
  BY <1>1, RecoveryAlways, PTL

\* resetPassword marks the link after the save: what it is used for in between
\* is bounded by the requests that can be in flight.
THEOREM LinkUses == Spec => []LinkUseBound
<1>1. RecoveryInv => LinkUseBound
  <2> SUFFICES ASSUME RecoveryInv, NEW l \in Link PROVE uses[l] <= Cardinality(Proc)
    BY DEF LinkUseBound
  <2>1. Checked(l) \subseteq Proc
    BY DEF Checked
  <2>2. Cardinality(Checked(l)) \in Nat
    BY <2>1, Fewer
  <2> QED
    BY <2>2, ProcCount DEF RecoveryInv, LinkTypes, UseInv
<1> QED
  BY <1>1, RecoveryAlways, PTL

\* The rows, links, entries and locals keep their types: at most HistoryCount
\* rows are read, and a request that lists a session has a password for it.
THEOREM RecoveryTypes == Spec => []TypeOK
<1>1. RecoveryInv /\ PasswordInv => TypeOK
  BY DEF RecoveryInv, LinkTypes, PasswordInv, PasswordTypes, TypeOK
<1> QED
  BY <1>1, RecoveryAlways, PasswordAlways, PTL

\* However the rows of concurrent saves are ordered, the next check reads the
\* row of the password in force, if the history is as long as requests overlap.
THEOREM CurrentInHistory == Spec => []CurrentRecorded
<1>1. PasswordInv => CurrentRecorded
  BY DEF PasswordInv, PasswordTypes, HistoryInv, CurrentRecorded
<1> QED
  BY <1>1, PasswordAlways, PTL

\* The entries of old passwords that changes are about to copy are as many as
\* their requests, and those are stale: they keep the session of that password.
LEMMA KeptEntries ==
  ASSUME RecoveryInv, PasswordInv, NEW K, NEW E,
         K = {p \in Proc : call[p].pc = "copyRem" /\ call[p].id \in OldEntries(password)},
         E = {s \in OldEntries(password) : Kept(s)}
  PROVE  /\ IsFiniteSet(E) /\ Cardinality(E) <= Cardinality(K)
         /\ K \subseteq {p \in Stale : call[p].pc = "copyRem"}
<1>1. K \subseteq Proc /\ IsFiniteSet(K)
  BY SetAssumption, FS_Subset
<1> DEFINE f == [p \in K |-> call[p].id]
<1>2. f \in Surjection(K, E)
  <2>1. \A p \in K : call[p].id \in E
    BY DEF Kept
  <2>2. f \in [K -> E]
    BY <2>1
  <2>3. \A s \in E : \E p \in K : call[p].id = s
    BY DEF Kept
  <2> QED
    BY <2>2, <2>3 DEF Surjection
<1> HIDE DEF f
<1>3. IsFiniteSet(E) /\ Cardinality(E) <= Cardinality(K)
  BY <1>1, <1>2, FS_Surjection
<1>4. \A p \in K : p \in Stale
  <2> SUFFICES ASSUME NEW p \in K PROVE call[p].cur # password
    BY DEF Stale, IsStale
  <2>1. call[p].id \in Session /\ call[p].id # None
        /\ listed[call[p].id] \notin {None, password}
    BY NoneAssumption DEF OldEntries
  <2> QED
    BY <1>1, <2>1 DEF PasswordInv, IdInv
<1> QED
  BY <1>3, <1>4

\* After revokeAllUserSessions has cleared the index, the entries of old
\* passwords are of logins and changes that were in flight: with those still to
\* come no more than all requests.
THEOREM Survivors == Spec => []SurvivorBound
<1>1. RecoveryInv /\ PasswordInv => SurvivorBound
  <2> SUFFICES ASSUME RecoveryInv, PasswordInv, settled
               PROVE  Cardinality(OldEntries(password)) + Cardinality(LateLogins)
                        <= Cardinality(Proc)
    BY DEF SurvivorBound
  <2>1. PICK K : K = {p \in Proc : call[p].pc = "copyRem" /\ call[p].id \in OldEntries(password)}
    OBVIOUS
  <2>2. PICK E : E = {s \in OldEntries(password) : Kept(s)}
    OBVIOUS
  <2>3. /\ IsFiniteSet(E) /\ Cardinality(E) <= Cardinality(K)
        /\ K \subseteq {p \in Stale : call[p].pc = "copyRem"}
    BY <2>1, <2>2, KeptEntries
  <2>4. LateLogins \subseteq {p \in Stale : call[p].pc = "create"} /\ Stale \subseteq Proc
    BY DEF LateLogins, Stale, IsStale
  <2>5. /\ Cardinality(K) \in Nat /\ Cardinality(LateLogins) \in Nat
        /\ Cardinality(K) + Cardinality(LateLogins) <= Cardinality(Stale)
        /\ Cardinality(Stale) \in Nat
    <3>1. K \cup LateLogins \subseteq Stale /\ K \cap LateLogins = {}
          /\ K \subseteq Proc /\ LateLogins \subseteq Proc
      BY <2>3, <2>4
    <3>2. IsFiniteSet(K) /\ IsFiniteSet(LateLogins)
      BY <3>1, SetAssumption, FS_Subset
    <3>3. Cardinality(K \cup LateLogins)
            = Cardinality(K) + Cardinality(LateLogins) - Cardinality(K \cap LateLogins)
      BY <3>2, FS_Union
    <3>4. Cardinality(K \cup LateLogins) <= Cardinality(Stale) /\ Cardinality(Stale) \in Nat
      BY <2>4, <3>1, Fewer
    <3>5. Cardinality(K) \in Nat /\ Cardinality(LateLogins) \in Nat
      BY <3>2, FS_CardinalityType
    <3>6. Cardinality(K \cap LateLogins) = 0
      BY <3>1, FS_EmptySet
    <3> QED
      BY <3>3, <3>4, <3>5, <3>6
  <2>6. /\ IsFiniteSet(Loose) /\ Cardinality(Loose) \in Nat /\ Cardinality(E) \in Nat
        /\ Cardinality(Loose) + Cardinality(Stale) <= Cardinality(Proc)
    BY <2>3, FS_CardinalityType DEF PasswordInv, SurvivorInv
  <2>7. Cardinality(OldEntries(password)) = Cardinality(Loose) + Cardinality(E)
    <3>1. OldEntries(password) = Loose \cup E /\ Loose \cap E = {}
      BY <2>2 DEF Loose
    <3>2. Cardinality(Loose \cup E) = Cardinality(Loose) + Cardinality(E) - Cardinality(Loose \cap E)
      BY <2>3, <2>6, FS_Union
    <3> QED
      BY <2>6, <3>1, <3>2, FS_EmptySet
  <2> QED
    BY <2>3, <2>5, <2>6, <2>7, ProcCount
<1> QED
  BY <1>1, RecoveryAlways, PasswordAlways, PTL
=============================================================================
