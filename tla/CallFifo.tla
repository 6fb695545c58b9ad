------------------------------ MODULE CallFifo ------------------------------
(***************************************************************************)
(* What uv_callback promises the threads that fire a callback: every call  *)
(* that was accepted is run by the loop thread, once, in the order in      *)
(* which the calls were accepted.                                          *)
(***************************************************************************)
EXTENDS Sequences

CONSTANT Call

VARIABLES
    waiting,  \* the calls accepted and not yet run, oldest first
    done      \* the calls run, in order

vars == <<waiting, done>>

Init == waiting = <<>> /\ done = <<>>

Accept(c) ==
    /\ waiting' = Append(waiting, c)
    /\ UNCHANGED done

\* The function of a call may fire another one: its result, for example.
Run(more) ==
    /\ waiting # <<>>
    /\ done' = Append(done, Head(waiting))
    /\ waiting' = Tail(waiting) \o more

RunOne == \E more \in {<<>>} \cup {<<c>> : c \in Call} : Run(more)

Next == (\E c \in Call : Accept(c)) \/ RunOne

Spec == Init /\ [][Next]_vars
FairSpec == Spec /\ WF_vars(RunOne)
=============================================================================
