------------------------------ MODULE PageStore ------------------------------
(***************************************************************************)
(* What the storage layer of RMDB promises its clients: every page of every *)
(* file has one current content, which only a write to that page of an open *)
(* file, or the replacement of the whole closed file by a new one, changes. *)
(* Caching, eviction, write-back, closing and reopening are invisible.      *)
(* Every write has a value of its own, so that none passes for another.     *)
(***************************************************************************)
CONSTANTS File, PageNo, Data, Zero

VARIABLES
    store,   \* the content of every page
    open,    \* the open files
    written, \* the values written so far
    fault    \* a client broke the rules of the store: nothing is promised

vars == <<store, open, written, fault>>

EmptyFile == [p \in PageNo |-> Zero]

Init ==
    /\ store = [f \in File |-> EmptyFile]
    /\ open = {} /\ written = {} /\ fault = FALSE

Open(f) ==
    /\ f \notin open
    /\ open' = open \cup {f}
    /\ UNCHANGED <<store, written, fault>>

Close(f) ==
    /\ f \in open
    /\ open' = open \ {f}
    /\ UNCHANGED <<store, written, fault>>

WritePage(f, p, v) ==
    /\ f \in open /\ v \notin written
    /\ store' = [store EXCEPT ![f][p] = v]
    /\ written' = written \cup {v}
    /\ UNCHANGED <<open, fault>>

NewFile(f) ==
    /\ f \notin open
    /\ store' = [store EXCEPT ![f] = EmptyFile]
    /\ UNCHANGED <<open, written, fault>>

Fault == fault' = TRUE

Next ==
    \/ \E f \in File : Open(f) \/ Close(f) \/ NewFile(f)
    \/ \E f \in File, p \in PageNo, v \in Data : WritePage(f, p, v)
    \/ Fault

Spec == Init /\ [][Next]_vars

=============================================================================
