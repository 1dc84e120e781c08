------------------------------ MODULE Dictionary ------------------------------
(***************************************************************************)
(* What insert_entry and delete_entry of an index promise together: a set  *)
(* of keys.  A worker asks for one change at a time; it takes effect in    *)
(* one step, or ends with an error the worker is told of, and nothing else *)
(* changes the set.                                                        *)
(***************************************************************************)
CONSTANTS Threads, Keys, None, Failed
VARIABLES
    keys,    \* the keys the index holds
    job      \* what each worker is waiting for, or the error it has got

vars == <<keys, job>>
Jobs == [what : {"insert", "delete"}, key : Keys]

Init == keys = {} /\ job = [t \in Threads |-> None]

Ask(t) ==
    /\ job[t] = None
    /\ job'[t] \in Jobs /\ job' = [job EXCEPT ![t] = job'[t]]
    /\ keys' = keys

Asks(t, what) == job[t] \in Jobs /\ job[t].what = what

Put(t) ==
    /\ Asks(t, "insert") /\ keys' = keys \cup {job[t].key}
    /\ job' = [job EXCEPT ![t] = None]
Drop(t) ==
    /\ Asks(t, "delete") /\ keys' = keys \ {job[t].key}
    /\ job' = [job EXCEPT ![t] = None]

\* An exception, and the next statement of the worker after it.
Fail(t) == job[t] \in Jobs /\ job' = [job EXCEPT ![t] = Failed] /\ keys' = keys
Resume(t) == job[t] = Failed /\ job' = [job EXCEPT ![t] = None] /\ keys' = keys

\* The process ends, and every worker with it.
Halt == job' = [t \in Threads |-> Failed] /\ keys' = keys

Next == (\E t \in Threads : Ask(t) \/ Put(t) \/ Drop(t) \/ Fail(t) \/ Resume(t)) \/ Halt
===============================================================================
