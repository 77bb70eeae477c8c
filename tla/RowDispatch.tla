---------------------------- MODULE RowDispatch ----------------------------
(***************************************************************************)
(* What RowPool::dispatch_rows promises its callers, with no trace of the  *)
(* pool: a call runs every one of its rows exactly once and then returns,  *)
(* or one of its row closures panics and the call ends by raising a panic. *)
(* No row of a call runs before the call starts or after it has ended, and *)
(* calls of different threads do not disturb each other.                   *)
(***************************************************************************)
EXTENDS Naturals

CONSTANTS Callers,   \* threads that dispatch
          RowCounts, \* how many rows a call may have
          NoCall     \* "this caller is not inside a dispatch"

VARIABLES rows,      \* rows[c]: the row count of the call c is in, or NoCall
          ran,       \* ran[c]: the rows of that call whose closure completed
          failed,    \* failed[c]: has a row closure of that call panicked?
          outcome    \* outcome[c]: how the last call of c ended

vars == <<rows, ran, failed, outcome>>

Rows(n) == 0 .. n - 1

Init ==
    /\ rows = [c \in Callers |-> NoCall]
    /\ ran = [c \in Callers |-> {}]
    /\ failed = [c \in Callers |-> FALSE]
    /\ outcome = [c \in Callers |-> "none"]

Call(c) ==
    /\ rows[c] = NoCall
    /\ \E n \in RowCounts : rows' = [rows EXCEPT ![c] = n]
    /\ UNCHANGED <<ran, failed, outcome>>

(* Some rows that have not run yet run; the closure may panic after them.  *)
RunRows(c) ==
    /\ rows[c] # NoCall
    /\ \E done \in SUBSET (Rows(rows[c]) \ ran[c]) :
          ran' = [ran EXCEPT ![c] = @ \cup done]
    /\ \E f \in BOOLEAN : failed' = [failed EXCEPT ![c] = @ \/ f]
    /\ UNCHANGED <<rows, outcome>>

End(c, how) ==
    /\ rows' = [rows EXCEPT ![c] = NoCall]
    /\ ran' = [ran EXCEPT ![c] = {}]
    /\ failed' = [failed EXCEPT ![c] = FALSE]
    /\ outcome' = [outcome EXCEPT ![c] = how]

Return(c) ==
    /\ rows[c] # NoCall
    /\ ran[c] = Rows(rows[c])
    /\ ~failed[c]
    /\ End(c, "ok")

Raise(c) ==
    /\ rows[c] # NoCall
    /\ failed[c]
    /\ End(c, "panic")

Next == \E c \in Callers : Call(c) \/ RunRows(c) \/ Return(c) \/ Raise(c)

Spec == Init /\ [][Next]_vars
=============================================================================
