------------------------------ MODULE Requests ------------------------------
(***************************************************************************)
(* Requests in flight at once, over all replicas.  Each is a record of the *)
(* locals it works with: its field pc is the next statement or Redis       *)
(* command it sends, after an await, so that any other request may come in *)
(* between two of them.                                                    *)
(***************************************************************************)
CONSTANTS
    Proc,    \* requests in flight
    CanFail  \* whether a request may die between two steps

ASSUME FailAssumption == CanFail \in BOOLEAN

VARIABLE call  \* the locals of each request in flight

Go(p, c) == call' = [call EXCEPT ![p] = c]

At(p, pc) == call[p].pc = pc
=============================================================================
