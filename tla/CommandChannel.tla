--------------------------- MODULE CommandChannel ---------------------------
(***************************************************************************)
(* How commands and engine accesses reach the one thread that may use the  *)
(* debug engine: m_queue and m_jobs of DbgSession, its worker loop, the    *)
(* promises the calling threads block on, and the calls plugins make while *)
(* the worker itself is calling them.                                      *)
(*                                                                         *)
(* The GUI pushes commands and goes on; callers (the pipe thread, threads  *)
(* of plugins, the GUI thread in a plugin's menu action) block.  A plugin  *)
(* that is called back on the worker thread calls inline: every HandleXxx  *)
(* the worker is inside is a frame of "stack".                             *)
(***************************************************************************)
EXTENDS Naturals, Sequences, SequencesExt

CONSTANTS Callers,     \* threads that block for a result
          MaxCalls,    \* bound on the requests of each caller
          MaxPosts,    \* bound on the commands the GUI pushes
          MaxDepth,    \* bound on nested inline commands
          InitMayFail, \* dbgeng.dll may be missing
          MayQuit      \* the session may be destroyed

ASSUME ChannelAssumption ==
    /\ MaxCalls \in Nat /\ MaxPosts \in Nat /\ MaxDepth \in Nat \ {0}
    /\ InitMayFail \in BOOLEAN /\ MayQuit \in BOOLEAN
    /\ "gui" \notin Callers /\ "worker" \notin Callers

VARIABLES
    queue,  \* m_queue
    jobs,   \* m_jobs
    quit,   \* m_quit
    phase,  \* of WorkerMain: "init" "top" (of its loop) "commands" "jobs" "pump" "gone"
    stack,  \* what the worker is inside, innermost last
    locked, \* m_stateMutex is held across a step
    state,  \* state[c]: what a caller does: "idle" "waiting" "ready"
    count,  \* count[c]: requests made by c
    posted  \* commands pushed by the GUI

vars    == <<queue, jobs, quit, phase, stack, locked, state, count, posted>>
callers == <<state, count, posted>>

\* A request: who made it, the how manieth of theirs it is, and how.
Request(from, n, via) == [from |-> from, n |-> n, via |-> via]

\* A frame: the request being handled ("event": none) and how far it is.
\* "locked"   HandleEvent under m_stateMutex
\* "dispatch" HandleCommand, before DispatchCommand
\* "plugin"   in a plugin's callback
\* "finish"   HandleCommand, after DispatchCommand
Frame(req, at) == [req |-> req, at |-> at]
NoRequest == Request("worker", 0, "event")
Inline    == Request("worker", 0, "inline")
top       == stack[Len(stack)]
At(where) == stack # <<>> /\ top.at = where
GoTo(where) == stack' = [stack EXCEPT ![Len(stack)].at = where]

-----------------------------------------------------------------------------
Init ==
    /\ queue = <<>> /\ jobs = <<>> /\ quit = FALSE
    /\ phase = "init" /\ stack = <<>> /\ locked = FALSE
    /\ state = [c \in Callers |-> "idle"]
    /\ count = [c \in Callers |-> 0] /\ posted = 0

-----------------------------------------------------------------------------
(* Other threads *)

\* PushCommand
PushCommand ==
    /\ posted < MaxPosts /\ posted' = posted + 1
    /\ queue' = Append(queue, Request("gui", posted', "post"))
    /\ UNCHANGED <<jobs, quit, phase, stack, locked, state, count>>

Block(c) ==
    /\ state[c] = "idle" /\ count[c] < MaxCalls
    /\ state' = [state EXCEPT ![c] = "waiting"]
    /\ count' = [count EXCEPT ![c] = @ + 1]
    /\ UNCHANGED <<quit, phase, stack, locked, posted>>

\* RunCommand off the worker thread.
PushCommandBlocking(c) ==
    /\ Block(c)
    /\ queue' = Append(queue, Request(c, count'[c], "call")) /\ UNCHANGED jobs

\* RunOnWorker off the worker thread.
RunOnWorker(c) ==
    /\ Block(c)
    /\ jobs' = Append(jobs, Request(c, count'[c], "job")) /\ UNCHANGED queue

\* fut.get() returns and the promise, a local variable of c's, is gone.
GetResult(c) ==
    /\ state[c] = "ready"
    /\ state' = [state EXCEPT ![c] = "idle"]
    /\ UNCHANGED <<queue, jobs, quit, phase, stack, locked, count, posted>>

\* ~DbgSession: the threads are detached.
Quit ==
    /\ MayQuit /\ ~quit /\ quit' = TRUE
    /\ UNCHANGED <<queue, jobs, phase, stack, locked, callers>>

-----------------------------------------------------------------------------
(* The worker *)

\* promise->set_value
Answer(req) ==
    state' = IF req.from \in Callers THEN [state EXCEPT ![req.from] = "ready"]
                                     ELSE state

\* DbgHost::Init; then the plugins are loaded, and called.
StartUp ==
    /\ phase = "init"
    /\ \/ phase' = "top" /\ stack' = <<Frame(NoRequest, "plugin")>>
       \/ InitMayFail /\ phase' = "gone" /\ UNCHANGED stack
    /\ UNCHANGED <<queue, jobs, quit, locked, callers>>

\* Variants of TakeCommand: the newest first; the command stays in the queue.
TakeCommandNewest ==
    /\ phase = "commands" /\ stack = <<>> /\ queue # <<>>
    /\ stack' = <<Frame(queue[Len(queue)], "dispatch")>> /\ queue' = Front(queue)
    /\ UNCHANGED <<jobs, quit, phase, locked, callers>>
TakeCommandPeeks ==
    /\ phase = "commands" /\ stack = <<>> /\ queue # <<>>
    /\ stack' = <<Frame(Head(queue), "dispatch")>>
    /\ UNCHANGED <<queue, jobs, quit, phase, locked, callers>>

TakeCommand ==
    /\ phase = "commands" /\ stack = <<>> /\ queue # <<>>
    /\ stack' = <<Frame(Head(queue), "dispatch")>> /\ queue' = Tail(queue)
    /\ UNCHANGED <<jobs, quit, phase, locked, callers>>

\* Variant: one job per round, the others of the batch dropped.
RunJobDropsRest ==
    /\ phase = "jobs" /\ jobs # <<>>
    /\ Answer(Head(jobs)) /\ jobs' = <<>>
    /\ UNCHANGED <<queue, quit, phase, stack, locked, count, posted>>

RunJob ==
    /\ phase = "jobs" /\ jobs # <<>>
    /\ Answer(Head(jobs)) /\ jobs' = Tail(jobs)
    /\ UNCHANGED <<queue, quit, phase, stack, locked, count, posted>>

\* m_quit is looked at between the phases of the loop; the wait for an event
\* may time out.
NextPhase ==
    /\ stack = <<>>
    /\ \/ phase = "top" /\ phase' = IF quit THEN "gone" ELSE "commands"
       \/ phase = "commands" /\ queue = <<>> /\ phase' = IF quit THEN "gone" ELSE "jobs"
       \/ phase = "jobs" /\ jobs = <<>> /\ phase' = IF quit THEN "gone" ELSE "pump"
       \/ phase = "pump" /\ phase' = "top"
    /\ UNCHANGED <<queue, jobs, quit, stack, locked, callers>>

\* PumpOneEvent, then HandleEvent takes m_stateMutex.
Event ==
    /\ phase = "pump" /\ phase' = "top" /\ ~locked
    /\ stack' = <<Frame(NoRequest, "locked")>> /\ locked' = TRUE
    /\ UNCHANGED <<queue, jobs, quit, callers>>

\* Variant: the plugins are fired with m_stateMutex held.
EventHandledFiresLocked ==
    /\ At("locked")
    /\ \/ stack' = <<>> /\ locked' = FALSE
       \/ GoTo("plugin") /\ UNCHANGED locked
    /\ UNCHANGED <<queue, jobs, quit, phase, callers>>

\* The event is handled; a stop is told to the plugins after the unlock.
EventHandled ==
    /\ At("locked") /\ locked' = FALSE
    /\ stack' = <<>> \/ GoTo("plugin")
    /\ UNCHANGED <<queue, jobs, quit, phase, callers>>

\* HandleCommand: the host dispatches the verb, or it is offered to plugins.
Dispatch ==
    /\ At("dispatch") /\ ~locked
    /\ GoTo("finish") \/ GoTo("plugin")
    /\ UNCHANGED <<queue, jobs, quit, phase, locked, callers>>

\* HandleCommand records the outcome and sets the promise.
Finish ==
    /\ At("finish") /\ ~locked
    /\ Answer(top.req) /\ stack' = Front(stack)
    /\ UNCHANGED <<queue, jobs, quit, phase, locked, count, posted>>

\* Variant of RunCommand: the worker thread queues its own request and waits.
RunCommandInlineQueues ==
    /\ At("plugin") /\ Len(stack) < MaxDepth
    /\ queue' = Append(queue, Inline) /\ GoTo("blocked")
    /\ UNCHANGED <<jobs, quit, phase, locked, callers>>

\* RunCommand on the worker thread.  (RunOnWorker there calls the function, which
\* changes nothing here.)
RunCommandInline ==
    /\ At("plugin") /\ Len(stack) < MaxDepth
    /\ stack' = Append(stack, Frame(Inline, "dispatch"))
    /\ UNCHANGED <<queue, jobs, quit, phase, locked, callers>>

\* The callback returns, having logged.
PluginReturns ==
    /\ At("plugin") /\ ~locked
    /\ IF top.req.via = "event" THEN stack' = <<>> ELSE GoTo("finish")
    /\ UNCHANGED <<queue, jobs, quit, phase, locked, callers>>

-----------------------------------------------------------------------------
Client == PushCommand \/ Quit
          \/ \E c \in Callers : PushCommandBlocking(c) \/ RunOnWorker(c) \/ GetResult(c)

Worker == StartUp \/ TakeCommand \/ RunJob \/ NextPhase \/ Event \/ EventHandled
          \/ Dispatch \/ Finish \/ RunCommandInline \/ PluginReturns

Next == Client \/ Worker

Spec == Init /\ [][Next]_vars

\* The worker thread runs; every callback returns, at every depth; a caller
\* whose result is there runs.
Fairness ==
    /\ WF_vars(Worker)
    /\ \A d \in 1..MaxDepth : SF_vars(PluginReturns /\ Len(stack) = d)
    /\ \A c \in Callers : WF_vars(GetResult(c))

FairSpec == Spec /\ Fairness

-----------------------------------------------------------------------------
(* Refinement *)

\* What is not executed yet: the request the worker is inside, and the queue.
Unexecuted == {queue[i] : i \in DOMAIN queue} \cup {stack[i].req : i \in DOMAIN stack}

\* The GUI's commands among them.
PendingPosts == {req.n : req \in {r \in Unexecuted : r.via = "post"}}

Abstract == INSTANCE RequestReply
            WITH call <- state, sent <- posted, posts <- PendingPosts

\* Whatever the plugins do inline, however the worker ends: a request is
\* executed once, after it was made, and its caller goes on after that; the
\* GUI's commands are executed in order.
ExecutesInOrder == Abstract!Spec

\* As long as the engine is there and the session lasts, every command pushed is
\* executed and every caller gets its result (WorkerMain drains m_queue and
\* m_jobs before each wait): the fairness RequestReply promises.
ExecutesEverything == [](~quit /\ phase # "gone") => Abstract!Fairness

-----------------------------------------------------------------------------
(* Invariants *)

ViaSet == {"post", "call", "job", "inline", "event"}

TypeOK ==
    /\ \A i \in DOMAIN queue : queue[i].via \in {"post", "call"}
    /\ \A i \in DOMAIN jobs : jobs[i].via = "job" /\ jobs[i].from \in Callers
    /\ quit \in BOOLEAN /\ locked \in BOOLEAN
    /\ phase \in {"init", "top", "commands", "jobs", "pump", "gone"}
    /\ Len(stack) <= MaxDepth
    /\ \A i \in DOMAIN stack :
         /\ stack[i].req.via \in ViaSet
         /\ stack[i].at \in {"locked", "dispatch", "plugin", "finish"}
         /\ i > 1 => stack[i].req = Inline
         /\ i < Len(stack) => stack[i].at = "plugin"
    /\ state \in [Callers -> {"idle", "waiting", "ready"}]
    /\ count \in [Callers -> 0..MaxCalls] /\ posted \in 0..MaxPosts

\* The requests whose promise somebody is still to set.
Outstanding == Unexecuted \cup {jobs[i] : i \in DOMAIN jobs}

\* A promise is a local variable of the caller that blocks on it, and queue, jobs
\* and worker hold only its address: whatever they hold is alive, that is, its
\* caller is still in that very call.
PromiseAlive ==
    \A req \in Outstanding :
        req.from \in Callers => /\ state[req.from] = "waiting"
                                /\ req.n = count[req.from]

\* HandleEvent fires the plugins after dropping m_stateMutex, which is not
\* recursive and which all a plugin can call needs.
CallbacksUnlocked == \A i \in DOMAIN stack : stack[i].at = "plugin" => ~locked

-----------------------------------------------------------------------------
\* host_exports.cpp: every function is safe to call from any thread; it marshals
\* onto the worker thread and blocks for the result.  Every call returns.
EveryCallReturns == \A c \in Callers : state[c] = "waiting" ~> state[c] = "idle"
=============================================================================
