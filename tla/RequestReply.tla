---------------------------- MODULE RequestReply ----------------------------
(***************************************************************************)
(* What DbgSession promises the threads that use it (dbgsession.h): a      *)
(* command or an engine access from any thread is executed once, and the   *)
(* thread blocks until it has been; what the GUI pushes is executed in the *)
(* order it was pushed.  Which thread executes, and through which queue,   *)
(* is not said here.                                                       *)
(***************************************************************************)
EXTENDS Naturals

CONSTANT Callers \* threads that block for a result

VARIABLES call,  \* call[c]: where caller c's request stands
          sent,  \* commands pushed, which are numbered from 1
          posts  \* the numbers of those not executed yet

vars  == <<call, sent, posts>>
queue == <<sent, posts>>

Init == call = [c \in Callers |-> "idle"] /\ sent = 0 /\ posts = {}

\* Caller c sends a request and blocks.
Ask(c) ==
    /\ call[c] = "idle"
    /\ call' = [call EXCEPT ![c] = "waiting"]
    /\ UNCHANGED queue

\* The request of caller c is executed.
Execute(c) ==
    /\ call[c] = "waiting"
    /\ call' = [call EXCEPT ![c] = "ready"]
    /\ UNCHANGED queue

\* Caller c has the result and goes on.
Return(c) ==
    /\ call[c] = "ready"
    /\ call' = [call EXCEPT ![c] = "idle"]
    /\ UNCHANGED queue

\* Another command is pushed.
Post ==
    /\ sent' = sent + 1 /\ posts' = posts \cup {sent'}
    /\ UNCHANGED call

\* The oldest is executed.
ExecutePost ==
    /\ \E n \in posts : (\A m \in posts : n <= m) /\ posts' = posts \ {n}
    /\ UNCHANGED <<call, sent>>

Next == Post \/ ExecutePost \/ \E c \in Callers : Ask(c) \/ Execute(c) \/ Return(c)

Spec == Init /\ [][Next]_vars

\* Every request is executed and every caller gets its result.
Fairness == WF_vars(ExecutePost)
            /\ \A c \in Callers : WF_vars(Execute(c)) /\ WF_vars(Return(c))

FairSpec == Spec /\ Fairness
=============================================================================
