----------------------------- MODULE PrivCalls -----------------------------
(***************************************************************************)
(* What privilege separation promises the daemon: a priv_* call is a       *)
(* procedure call.  One call is pending at a time; it is carried out once, *)
(* as asked, and returns the answer of that one execution.  Either half    *)
(* may die and leave a call without return, but no half-understood request *)
(* is ever carried out.                                                    *)
(***************************************************************************)
EXTENDS PrivOps

CONSTANT None    \* no call pending, no result

VARIABLES
    pending,  \* the request of the call in progress, or None
    answer,   \* the answer of its execution, empty before
    result,   \* what the last call returned
    kernel    \* the privileged state of the host

vars == <<pending, answer, result, kernel>>

Init == /\ pending = None /\ answer = <<>> /\ result = None
        /\ kernel \in KernelInits

Call(r) == /\ pending = None /\ pending' = r /\ result' = None
           /\ UNCHANGED <<answer, kernel>>

Perform ==
    /\ pending # None /\ answer = <<>>
    /\ \E o \in Outcomes(kernel, pending) : kernel' = o.kernel /\ answer' = o.answer
    /\ UNCHANGED <<pending, result>>

Return ==
    /\ answer # <<>>
    /\ result' = answer /\ pending' = None /\ answer' = <<>>
    /\ UNCHANGED kernel

Next == (\E r \in Requests : Call(r)) \/ Perform \/ Return

Spec == Init /\ [][Next]_vars
=============================================================================
