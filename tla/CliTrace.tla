------------------------------ MODULE CliTrace ------------------------------
(***************************************************************************)
(* odbg_cli (main.cpp): the tracer without a session or a GUI.  Its loop   *)
(* waits for an event, records it and resumes the target; at a breakpoint  *)
(* of -break it may also set a one-shot breakpoint (DbgHost::StepOut) at   *)
(* the return address, to record the return.                               *)
(*                                                                         *)
(* The debuggee is the call stacks of its threads and a number of          *)
(* processes.  -break names a function; a frame is the site it returns to  *)
(* and whether the function called is that one.  A site that calls through *)
(* a pointer may call either.  One -break stands for several: what is said *)
(* of a function holds of any of them, and one that cannot be set is       *)
(* another function.                                                       *)
(***************************************************************************)
EXTENDS Naturals, Sequences

CONSTANTS Threads,
          NoThread,  \* none of them
          Sites,     \* call sites
          Traced,    \* those that may call the function of -break
          Untraced,  \* those that may call another
          NoSite,    \* DEBUG_ANY_ID, no step-out breakpoint
          MaxDepth,  \* bound on each stack
          MaxProcs,  \* bound on the processes
          Budgets    \* values of -maxevents

ASSUME CliAssumption ==
    /\ NoThread \notin Threads
    /\ Traced \cup Untraced \subseteq Sites /\ NoSite \notin Sites
    /\ MaxDepth \in Nat /\ MaxProcs \in Nat \ {0} /\ Budgets \subseteq Nat

Frames == {f \in [site : Sites, traced : BOOLEAN] :
              f.site \in IF f.traced THEN Traced ELSE Untraced}

VARIABLES
    options,   \* -stepout, -children, -maxevents
    stacks,    \* the frames of each thread, innermost last
    procs,     \* processes the engine has
    status,    \* execution status of the target: "go" or "break"
    stop,      \* the event PumpOneEvent returned, until it is handled
    ended,     \* why the loop was left, or "no"
    breaks,    \* "no" until breaksAdded; then "set", or "failed" and nothing is set
    stepOutBp, \* m_stepOutBpId, by the site its breakpoint is at
    outBps,    \* the one-shot breakpoints the engine has
    outThread, \* ghost: the thread and the depth of the frame the last of them was
    outDepth,  \* set for, 0 once an exception or a longjmp has unwound it
    hits,      \* breakHits
    calls,     \* ghost: calls of the function of -break since it is set
    open       \* ghost: the frames whose call was recorded

debuggee == <<stacks, procs>>
host     == <<stepOutBp, outBps, outThread, outDepth>>
ghosts   == <<calls, open>>
vars     == <<options, debuggee, status, stop, ended, breaks, host, hits, ghosts>>

NoStop   == [kind |-> "none"]
Plain    == {"module", "thread", "exception", "step"}

CallStop(t) == [kind |-> "call", thread |-> t]

\* A one-shot breakpoint at a site, reached by the return of a frame.
OutStop(s, t, d) == [kind |-> "out", site |-> s, thread |-> t, depth |-> d]

\* The target is launched, or attached to in the middle of what it does.
Init ==
    /\ options \in [stepOut : BOOLEAN, children : BOOLEAN, maxEvents : Budgets]
    /\ stacks \in [Threads -> UNION {[1..d -> Frames] : d \in 0..MaxDepth}]
    /\ procs = 1 /\ status = "go" /\ stop = NoStop /\ ended = "no"
    /\ breaks = "no" /\ stepOutBp = NoSite /\ outBps = {}
    /\ outThread = NoThread /\ outDepth = 0
    /\ hits = 0 /\ calls = 0 /\ open = {}

-----------------------------------------------------------------------------
(* The debuggee, while it runs *)

Runs == ended = "no" /\ status = "go" /\ stop = NoStop

StopAt(e) == stop' = e /\ status' = "break"

\* Breakpoints are of the process: every thread of it reports them.
Call(t, f) ==
    /\ Runs /\ Len(stacks[t]) < MaxDepth
    /\ stacks' = [stacks EXCEPT ![t] = Append(@, f)]
    /\ IF breaks = "set" /\ f.traced
       THEN StopAt(CallStop(t)) /\ calls' = calls + 1
       ELSE UNCHANGED <<stop, status, calls>>
    /\ UNCHANGED <<options, procs, ended, breaks, host, hits, open>>

Return(t) ==
    /\ Runs /\ stacks[t] # <<>>
    /\ LET d    == Len(stacks[t])
           site == stacks[t][d].site
       IN  /\ stacks' = [stacks EXCEPT ![t] = SubSeq(@, 1, d - 1)]
           /\ IF site \in outBps
              THEN StopAt(OutStop(site, t, d)) /\ UNCHANGED open
              ELSE open' = open \ {<<t, d>>} /\ UNCHANGED <<stop, status>>
    /\ UNCHANGED <<options, procs, ended, breaks, host, hits, calls>>

\* An exception or a longjmp takes frames away that do not return.
Unwind(t) ==
    /\ Runs /\ stacks[t] # <<>>
    /\ \E d \in 0..(Len(stacks[t]) - 1) :
          /\ stacks' = [stacks EXCEPT ![t] = SubSeq(@, 1, d)]
          /\ open' = {f \in open : f[1] = t => f[2] <= d}
          /\ outDepth' = IF outThread = t /\ outDepth > d THEN 0 ELSE outDepth
    /\ UNCHANGED <<options, procs, status, stop, ended, breaks, stepOutBp, outBps, outThread,
                   hits, calls>>

\* A module, a thread, an exception; or an event DbgHost calls a step.
OtherEvent ==
    /\ Runs
    /\ \E k \in Plain : StopAt([kind |-> k])
    /\ UNCHANGED <<options, debuggee, ended, breaks, host, hits, ghosts>>

ChildStarts ==
    /\ Runs /\ options.children /\ procs < MaxProcs
    /\ procs' = procs + 1
    /\ UNCHANGED <<options, stacks, status, stop, ended, breaks, host, hits,
                   ghosts>>

\* The engine still counts the process that exits.
ExitEvent ==
    /\ Runs
    /\ StopAt([kind |-> "exit"])
    /\ UNCHANGED <<options, debuggee, ended, breaks, host, hits, ghosts>>

-----------------------------------------------------------------------------
(* The loop *)

\* An event was returned; after the first one the breakpoints are added, and an
\* answer that says one could not be is ignored.
Handles(kinds) ==
    /\ ended = "no" /\ stop.kind \in kinds
    /\ stop' = NoStop
    /\ breaks' \in IF breaks = "no" THEN {"set", "failed"} ELSE {breaks}

Go == status' = "go"

HandlePlain ==
    /\ Handles(Plain)
    /\ Go
    /\ UNCHANGED <<options, debuggee, ended, host, hits, ghosts>>

\* DbgHost::ClearStepOut, which also follows the loop.
ClearStepOut ==
    /\ outBps' = outBps \ {stepOutBp} /\ stepOutBp' = NoSite
    /\ outThread' = NoThread /\ outDepth' = 0

\* Variant: the first exit ends the trace, children or not.
HandleExitEnds ==
    /\ Handles({"exit"})
    /\ procs' = procs - 1
    /\ ended' = "exit" /\ ClearStepOut /\ UNCHANGED status
    /\ UNCHANGED <<options, stacks, hits, ghosts>>

HandleExit ==
    /\ Handles({"exit"})
    /\ procs' = procs - 1
    /\ IF options.children /\ procs > 1
       THEN Go /\ UNCHANGED <<ended, host>>
       ELSE ended' = "exit" /\ ClearStepOut /\ UNCHANGED status
    /\ UNCHANGED <<options, stacks, hits, ghosts>>

\* Variant: the breakpoint is left in place.
HandleReturnKeepsBp ==
    /\ Handles({"out"}) /\ stop.site = stepOutBp
    /\ Go
    /\ open' = open \ {<<stop.thread, stop.depth>>}
    /\ UNCHANGED <<options, debuggee, ended, host, hits, calls>>

\* A return is recorded, whoever returns there: only the number is compared.
HandleReturn ==
    /\ Handles({"out"}) /\ stop.site = stepOutBp
    /\ ClearStepOut /\ Go
    /\ open' = open \ {<<stop.thread, stop.depth>>}
    /\ UNCHANGED <<options, debuggee, ended, hits, calls>>

\* The breakpoint is set at the return address of the innermost frame of t.
OutOf(t) ==
    LET d == Len(stacks[t])
    IN  /\ stepOutBp' = stacks[t][d].site
        /\ outThread' = t /\ outDepth' = d

\* Variant: the previous step-out breakpoint is not cleared first.
StepOutKeepsOld(t) ==
    /\ OutOf(t) /\ outBps' = outBps \cup {stepOutBp'}
    /\ UNCHANGED status

\* DbgHost::StepOut sets its breakpoint, in place of the last one, or fails
\* before or after it has cleared that; only when it fails is Go called.
StepOut(t) ==
    \/ /\ OutOf(t) /\ outBps' = (outBps \ {stepOutBp}) \cup {stepOutBp'}
       /\ UNCHANGED status
    \/ UNCHANGED host /\ Go
    \/ ClearStepOut /\ Go

\* Variant: one more than the budget.
BudgetSpentLate(n) == n > options.maxEvents

BudgetSpent(n) == n >= options.maxEvents

\* Any other breakpoint is a hit: the call of the traced function, or a one-shot
\* breakpoint that DbgHost does not know as its own.
HandleBreakpoint ==
    /\ Handles({"call", "out"})
    /\ stop.kind = "out" => stop.site # stepOutBp
    /\ hits' = hits + 1
    /\ LET t == stop.thread
       IN  /\ open' = open \cup {<<t, Len(stacks[t])>>}
           /\ IF BudgetSpent(hits') THEN ClearStepOut /\ ended' = "budget" /\ UNCHANGED status
              ELSE /\ UNCHANGED ended
                   /\ IF options.stepOut /\ stacks[t] # <<>> THEN StepOut(t)
                      ELSE Go /\ UNCHANGED host
    /\ UNCHANGED <<options, debuggee, calls>>

\* PumpOneEvent with the target still stopped: the engine runs it after all, or
\* WaitForEvent fails, which leaves the loop.
WaitStopped ==
    /\ ended = "no" /\ stop = NoStop /\ status = "break"
    /\ \/ Go /\ UNCHANGED <<ended, host>>
       \/ ended' = "wait" /\ ClearStepOut /\ UNCHANGED status
    /\ UNCHANGED <<options, debuggee, stop, breaks, hits, ghosts>>

-----------------------------------------------------------------------------
Next ==
    \/ \E t \in Threads : \/ \E f \in Frames : Call(t, f)
                         \/ Return(t) \/ Unwind(t)
    \/ OtherEvent \/ ChildStarts \/ ExitEvent
    \/ HandlePlain \/ HandleExit \/ HandleReturn \/ HandleBreakpoint
    \/ WaitStopped

Spec == Init /\ [][Next]_vars

-----------------------------------------------------------------------------
\* The budget bounds the hits, except that 0 still records one.
TypeOK ==
    /\ stacks \in [Threads -> Seq(Frames)] /\ \A t \in Threads : Len(stacks[t]) <= MaxDepth
    /\ procs \in 0..MaxProcs /\ status \in {"go", "break"}
    /\ ended \in {"no", "exit", "budget", "wait"} /\ breaks \in {"no", "set", "failed"}
    /\ stepOutBp \in Sites \cup {NoSite} /\ outBps \subseteq Sites
    /\ outThread \in Threads \cup {NoThread} /\ outDepth \in 0..MaxDepth
    /\ hits <= options.maxEvents \/ hits = 1

\* The trace has every call of the traced function and nothing else: each
\* breakpoint event recorded is one of them, none is lost.  When -break could
\* not be set it has none.
EveryCallRecorded ==
    IF breaks = "failed" THEN hits = 0
    ELSE calls = hits + (IF stop.kind = "call" THEN 1 ELSE 0)

\* A return event is the return of a call that was recorded, even when the same
\* function is on the stack from before the breakpoints were added, but for
\* three causes: another thread returns there first, the site calls other
\* functions too, or the frame it was set for was unwound.
ReturnMatchesCall ==
    (stop.kind = "out" /\ stop.site = stepOutBp) =>
        \/ <<stop.thread, stop.depth>> \in open
        \/ stop.thread # outThread
        \/ stop.site \in Untraced
        \/ outDepth = 0

\* "one process exiting (e.g. a launcher handing off to the real process) must
\* not tear the whole session down while other debuggees are still live".
NoChildAbandoned == ended = "exit" => procs = 0

-----------------------------------------------------------------------------
(* Statements of the code's comments that it does not keep *)

\* main.cpp at the step-out breakpoint: "we returned from the function."
ReturnOfTheFunction ==
    (stop.kind = "out" /\ stop.site = stepOutBp) => <<stop.thread, stop.depth>> \in open

\* dbghost.h on StepOut: "Caller should Go() and watch for StepOutBpId()."
WaitsOnlyRunning ==
    (stop = NoStop /\ ended = "no") => status = "go"
=============================================================================
