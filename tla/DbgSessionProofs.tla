-------------------------- MODULE DbgSessionProofs --------------------------
(***************************************************************************)
(* Proofs about DbgSession, for every set of verbs and every bound on      *)
(* processes and break-ins.                                                *)
(***************************************************************************)
EXTENDS DbgSession, TLAPS

\* What every step preserves: the mirror is faithful, which is what makes the
\* guards of the verbs guards on the engine, and a trace needs a target.
Inv == TypeOK /\ MirrorFaithful /\ TraceEndsWithSession

\* The bounds, without what the assumption says of verbs.
LEMMA Bounds == MaxProcs \in Nat /\ 0 < MaxProcs /\ MaxBreakins \in Nat
  BY SessionAssumption DEF SessionAssumption

\* What an assignment of a truth value gives: the SMT backend needs to be told.
LEMMA TruthValues == \A x : x = TRUE \/ x = FALSE => x \in BOOLEAN
  BY Zenon

\* The engine and its mirror before anything was launched agree.
LEMMA InitInv == Init => Inv
  BY Bounds, TruthValues DEF Init, Inv, TypeOK, MirrorFaithful, TraceEndsWithSession

\* Starting and ending a target and its session.
LEMMA SessionInv ==
  ASSUME Inv, Launch \/ Attach \/ Restart \/ Kill
  PROVE  Inv'
<1> USE Bounds, TruthValues DEF Inv, TypeOK, MirrorFaithful,
        TraceEndsWithSession, NewTarget, NoTarget, options, once, control, ghosts
<1>1. CASE Launch
  BY <1>1 DEF Launch, SessionStarted
<1>2. CASE Attach
  BY <1>2 DEF Attach, SessionStarted
<1>3. CASE Restart
  BY <1>3 DEF Restart, SessionStarted, SessionEnded
<1>4. CASE Kill
  BY <1>4 DEF Kill, EndSession, SessionEnded
<1> QED
  BY <1>1, <1>2, <1>3, <1>4

\* The verbs and jobs that act on a target.
LEMMA VerbInv ==
  ASSUME Inv, Run \/ Step \/ Pause \/ TraceOn \/ TraceOff \/ SetOption
              \/ JobGo \/ JobStep \/ JobPause
  PROVE  Inv'
<1> USE Bounds, TruthValues DEF Inv, TypeOK, MirrorFaithful,
        TraceEndsWithSession, target, options, once, control, ghosts, mirror,
        EngineGo
<1>1. CASE Run
  BY <1>1 DEF Run
<1>2. CASE Step
  BY <1>2 DEF Step
<1>3. CASE Pause
  BY <1>3 DEF Pause, BreakIn
<1>4. CASE TraceOn
  BY <1>4 DEF TraceOn
<1>5. CASE TraceOff
  BY <1>5 DEF TraceOff
<1>6. CASE SetOption
  BY <1>6 DEF SetOption
<1>7. CASE JobGo
  BY <1>7 DEF JobGo
<1>8. CASE JobStep
  BY <1>8 DEF JobStep
<1>9. CASE JobPause
  BY <1>9 DEF JobPause, BreakIn
<1> QED
  BY <1>1, <1>2, <1>3, <1>4, <1>5, <1>6, <1>7, <1>8, <1>9

\* The three steps of an edit of a running target.
LEMMA EditInv ==
  ASSUME Inv, Edit
  PROVE  Inv'
<1> USE Bounds, TruthValues DEF Inv, TypeOK, MirrorFaithful,
        TraceEndsWithSession, target, options, once, ghosts, mirror
<1>1. CASE EditBegin
  BY <1>1 DEF EditBegin, BreakIn
<1>2. CASE WaitTimeout
  BY <1>2 DEF WaitTimeout
<1>3. CASE EditEnd
  BY <1>3 DEF EditEnd, EngineGo
<1> QED
  BY <1>1, <1>2, <1>3 DEF Edit

\* An exception keeps the invariant whatever it is taken for.
LEMMA ExceptionInv ==
  ASSUME Inv, Waiting, NEW reason \in {"loader", "breakin", "event"},
         HandleException(reason), loaders' \in 0..procs, breakins' \in 0..MaxBreakins
  PROVE  Inv'
<1> USE Bounds, TruthValues DEF Inv, TypeOK, MirrorFaithful,
        TraceEndsWithSession, options, mirror, ghosts, Waiting, Return
<1>1. CASE Resume /\ entryArmed' = TRUE /\ expectInitialBreak' = FALSE
           /\ UNCHANGED <<procs, tracing>>
  BY <1>1 DEF Resume
<1>2. CASE Surface(reason) /\ expectInitialBreak' = FALSE /\ UNCHANGED entryArmed
  BY <1>2 DEF Surface
<1> QED
  BY <1>1, <1>2 DEF HandleException

\* Every event the worker handles.
LEMMA EventInv ==
  ASSUME Inv, Event \/ Fired
  PROVE  Inv'
<1> USE Bounds, TruthValues
<1>a. loaders \in 0..procs /\ breakins \in 0..MaxBreakins /\ procs \in Nat
      /\ MaxBreakins \in Nat
  BY DEF Inv, TypeOK
<1>1. CASE StopEvent
  BY <1>1 DEF StopEvent, Surface, Waiting, Return, Inv, TypeOK, MirrorFaithful,
     TraceEndsWithSession, options
<1>2. CASE StepEvent
  BY <1>2 DEF StepEvent, Surface, Waiting, Return, Inv, TypeOK, MirrorFaithful,
     TraceEndsWithSession, options
<1>3. CASE EntryEvent
  BY <1>3 DEF EntryEvent, Surface, Waiting, Return, Inv, TypeOK, MirrorFaithful,
     TraceEndsWithSession, options
<1>4. CASE LoaderEvent
  <2>1. Waiting /\ HandleException("loader") /\ loaders' \in 0..procs
        /\ breakins' \in 0..MaxBreakins
    BY <1>4, <1>a DEF LoaderEvent
  <2> QED
    BY <2>1, ExceptionInv
<1>5. CASE BreakInEvent
  <2>1. Waiting /\ HandleException("breakin") /\ loaders' \in 0..procs
        /\ breakins' \in 0..MaxBreakins
    BY <1>5, <1>a DEF BreakInEvent
  <2> QED
    BY <2>1, ExceptionInv
<1>6. CASE FaultEvent
  <2>1. Waiting /\ HandleException("event") /\ loaders' \in 0..procs
        /\ breakins' \in 0..MaxBreakins
    BY <1>6, <1>a DEF FaultEvent
  <2> QED
    BY <2>1, ExceptionInv
<1>7. CASE IgnoredBreak
  BY <1>7 DEF IgnoredBreak, Inv, TypeOK, MirrorFaithful, TraceEndsWithSession,
     options, mirror, once, control, ghosts
<1>8. CASE TraceEvent
  BY <1>8 DEF TraceEvent, Resume, Waiting, Return, Inv, TypeOK, MirrorFaithful,
     TraceEndsWithSession, options, mirror, ghosts
<1>9. CASE SpawnChild
  BY <1>9 DEF SpawnChild, Inv, TypeOK, MirrorFaithful, TraceEndsWithSession,
     options, mirror, once, control, ghosts
<1>10. CASE ExitEvent
  <2>1. CASE followChildren /\ procs > 1
    <3>1. procs' \in 0..MaxProcs /\ loaders' \in 0..procs' /\ breakins' \in 0..MaxBreakins
      BY <1>10, <2>1, <1>a DEF ExitEvent, Inv, TypeOK
    <3> QED
      BY <1>10, <2>1, <3>1 DEF ExitEvent, Waiting, Return, Inv, TypeOK,
         MirrorFaithful, TraceEndsWithSession, options, mirror, once, ghosts
  <2>2. CASE ~(followChildren /\ procs > 1)
    BY <1>10, <2>2 DEF ExitEvent, EndSession, NoTarget, SessionEnded, Waiting,
       Return, Inv, TypeOK, MirrorFaithful, TraceEndsWithSession, options, once, ghosts
  <2> QED
    BY <2>1, <2>2
<1>11. CASE Fired
  BY <1>11 DEF Fired, Inv, TypeOK, MirrorFaithful, TraceEndsWithSession,
     target, options, mirror, ghosts
<1> QED
  BY <1>1, <1>2, <1>3, <1>4, <1>5, <1>6, <1>7, <1>8, <1>9, <1>10, <1>11 DEF Event

\* Every step preserves the invariant.
LEMMA NextInv == Inv /\ [Next]_vars => Inv'
<1> SUFFICES ASSUME Inv, [Next]_vars
             PROVE  Inv'
  OBVIOUS
<1>1. CASE Command
  BY <1>1, SessionInv, VerbInv DEF Command
<1>2. CASE Edit
  BY <1>2, EditInv
<1>3. CASE Event \/ Fired
  BY <1>3, EventInv
<1>4. CASE UNCHANGED vars
  BY <1>4 DEF vars, target, options, mirror, once, control, ghosts, Inv, TypeOK,
     MirrorFaithful, TraceEndsWithSession
<1> QED
  BY <1>1, <1>2, <1>3, <1>4 DEF Next

LEMMA SpecInv == Spec => []Inv
  BY InitInv, NextInv, PTL DEF Spec

-----------------------------------------------------------------------------
\* The state of the session, the engine and the worker stays in its domain.
THEOREM TypeCorrect == Spec => []TypeOK
<1>1. Inv => TypeOK
  BY DEF Inv
<1> QED
  BY SpecInv, <1>1, PTL

\* sessionActive and stopped, which every verb's guard and the GUI read, agree
\* with the engine whenever a command, a job, an event or a plugin can look.
THEOREM MirrorAlwaysFaithful == Spec => []MirrorFaithful
<1>1. Inv => MirrorFaithful
  BY DEF Inv
<1> QED
  BY SpecInv, <1>1, PTL

\* No hit trace survives the process it was armed in.
THEOREM TraceEnds == Spec => []TraceEndsWithSession
<1>1. Inv => TraceEndsWithSession
  BY DEF Inv
<1> QED
  BY SpecInv, <1>1, PTL

-----------------------------------------------------------------------------
(* Edits of a running target *)

\* A break-in on its way that is no stray is the only one, and a pause or the wait
\* of an edit expects it.
StrayInv == breakins > 0 /\ ~stray => breakins = 1 /\ (pauseAsked \/ worker = "wait")

LEMMA StrayNext == Inv /\ StrayInv /\ [Next]_vars => StrayInv'
<1> SUFFICES ASSUME Inv, StrayInv, [Next]_vars
             PROVE  StrayInv'
  OBVIOUS
<1> USE Bounds, TruthValues DEF StrayInv, Inv, TypeOK
<1>1. CASE Launch \/ Attach \/ Restart \/ Kill
  BY <1>1 DEF Launch, Attach, Restart, Kill, NewTarget, NoTarget, EndSession
<1>2. CASE Run \/ Step \/ TraceOn \/ TraceOff \/ SetOption \/ JobGo \/ JobStep
  BY <1>2 DEF Run, Step, TraceOn, TraceOff, SetOption, JobGo, JobStep, target,
     control, ghosts
<1>3. CASE Pause \/ JobPause
  BY <1>3 DEF Pause, JobPause, BreakIn, control
<1>4. CASE EditBegin
  BY <1>4 DEF EditBegin, BreakIn
<1>5. CASE WaitTimeout
  BY <1>5 DEF WaitTimeout, LeaveWait, target
<1>6. CASE EditEnd
  BY <1>6 DEF EditEnd, ghosts
<1>7. CASE StopEvent \/ StepEvent \/ EntryEvent
  BY <1>7 DEF StopEvent, StepEvent, EntryEvent, Surface, LeaveWait, Return, Waiting
<1>8. CASE LoaderEvent \/ FaultEvent
  <2>1. PICK reason \in {"loader", "event"} : HandleException(reason)
    BY <1>8 DEF LoaderEvent, FaultEvent
  <2>2. breakins' = breakins
    BY <1>8 DEF LoaderEvent, FaultEvent
  <2>3. LeaveWait /\ pauseAsked' = pauseAsked
    BY <2>1 DEF HandleException, Surface, Resume
  <2> QED
    BY <2>2, <2>3 DEF LeaveWait
<1>9. CASE BreakInEvent
  <2>1. breakins' = breakins - 1 /\ breakins > 0
    BY <1>9 DEF BreakInEvent
  <2>2. LeaveWait
    BY <1>9 DEF BreakInEvent, HandleException, Surface, Resume
  <2> QED
    BY <2>1, <2>2 DEF LeaveWait
<1>10. CASE IgnoredBreak
  BY <1>10 DEF IgnoredBreak, control, ghosts
<1>11. CASE TraceEvent
  BY <1>11 DEF TraceEvent, Resume, LeaveWait
<1>12. CASE SpawnChild
  BY <1>12 DEF SpawnChild, control, ghosts
<1>13. CASE ExitEvent
  <2>1. CASE followChildren /\ procs > 1
    <3>1. LeaveWait /\ breakins' \in 0..breakins /\ pauseAsked' = pauseAsked
      BY <1>13, <2>1 DEF ExitEvent
    <3> QED
      BY <3>1 DEF LeaveWait
  <2>2. CASE ~(followChildren /\ procs > 1)
    BY <1>13, <2>2 DEF ExitEvent, EndSession, NoTarget
  <2> QED
    BY <2>1, <2>2
<1>14. CASE Fired
  BY <1>14 DEF Fired, target, ghosts
<1>15. CASE UNCHANGED vars
  BY <1>15 DEF vars, target, control, ghosts
<1> QED
  BY <1>1, <1>2, <1>3, <1>4, <1>5, <1>6, <1>7, <1>8, <1>9, <1>10, <1>11, <1>12,
     <1>13, <1>14, <1>15 DEF Next, Command, Edit, Event

\* The handler decides to resume from the mirror after its wait, and the mirror
\* is faithful.
LEMMA EditLeavesRunning ==
  ASSUME Inv, Next, worker = "edit", worker' # "edit"
  PROVE  engine' # "break"
<1>1. ~Command
  BY DEF Command, May, Launch, Attach, Restart, Kill, Run, Step, Pause,
     TraceOn, TraceOff, SetOption, JobGo, JobStep, JobPause
<1>2. ~Waiting /\ ~Event /\ ~Fired
  BY DEF Waiting, Event, Fired, StopEvent, StepEvent, EntryEvent, LoaderEvent,
     BreakInEvent, FaultEvent, IgnoredBreak, TraceEvent, SpawnChild, ExitEvent
<1>3. EditEnd
  BY <1>1, <1>2 DEF Next, Edit, EditBegin, WaitTimeout, May
<1> QED
  BY <1>3 DEF EditEnd, EngineGo, Inv, MirrorFaithful

\* A break-in surfaces outside an edit's wait only if it was asked for or is stray.
LEMMA SurfacedBreakIn ==
  ASSUME Inv, StrayInv, Next, worker = "loop", engine = "run", engine' = "break",
         why' = "breakin"
  PROVE  pauseAsked \/ stray
<1>1. ~Command
  BY DEF Command, Launch, Attach, Restart, Kill, Run, Step, Pause, TraceOn,
     TraceOff, SetOption, JobGo, JobStep, JobPause, NewTarget, NoTarget,
     EndSession, EngineGo, target
<1>2. ~Edit /\ ~Fired
  BY DEF Edit, EditBegin, WaitTimeout, EditEnd, Fired, EngineGo, target
<1>3. ~(StopEvent \/ StepEvent \/ EntryEvent)
  BY DEF StopEvent, StepEvent, EntryEvent, Surface
<1>4. ~(LoaderEvent \/ FaultEvent)
  BY DEF LoaderEvent, FaultEvent, HandleException, Surface, Resume
<1>5. ~(IgnoredBreak \/ TraceEvent \/ SpawnChild)
  BY DEF IgnoredBreak, TraceEvent, SpawnChild, Resume
<1>6. ~ExitEvent
  BY DEF ExitEvent, EndSession, NoTarget
<1>7. BreakInEvent
  BY <1>1, <1>2, <1>3, <1>4, <1>5, <1>6 DEF Next, Event
<1> QED
  BY <1>7 DEF BreakInEvent, StrayInv

\* The handler of a bp or bc leaves the target running or gone, and its break-in
\* surfaces as a pause nobody asked for only if its wait missed it or several were
\* on their way.
THEOREM EditsAlwaysSeamless == Spec => EditsAreSeamless
<1>1. Init => StrayInv
  BY DEF Init, StrayInv
<1>2. Inv /\ StrayInv /\ [Next]_vars
        => [/\ worker = "edit" /\ worker' # "edit" => engine' # "break"
            /\ worker = "loop" /\ engine = "run" /\ engine' = "break" /\ why' = "breakin"
                  => pauseAsked \/ stray]_vars
  BY EditLeavesRunning, SurfacedBreakIn
<1> QED
  BY SpecInv, StrayNext, <1>1, <1>2, PTL DEF Spec, EditsAreSeamless

-----------------------------------------------------------------------------
(* With conditions on the verbs *)

\* While the loader break is expected it is still ahead, in the only process
\* there is, and it will not be ignored.
EntryInv == /\ ~ignoreBreak
            /\ expectInitialBreak => procs \in {0, 1} /\ loaders = procs

LEMMA EntryNext ==
  ASSUME "ignoreexc" \notin Verbs \cup PluginVerbs, Inv, EntryInv, [Next]_vars
  PROVE  EntryInv'
<1> USE Bounds DEF EntryInv, Inv, TypeOK, options, once
<1>1. CASE Launch \/ Attach \/ Restart \/ Kill
  BY <1>1 DEF Launch, Attach, Restart, Kill, SessionStarted, NewTarget, NoTarget,
     EndSession
<1>2. CASE Run \/ Step \/ Pause \/ TraceOn \/ TraceOff \/ JobGo \/ JobStep \/ JobPause
  BY <1>2 DEF Run, Step, Pause, TraceOn, TraceOff, JobGo, JobStep, JobPause, target
<1>3. CASE SetOption
  BY <1>3 DEF SetOption, May, target
<1>4. CASE Edit
  BY <1>4 DEF Edit, EditBegin, WaitTimeout, EditEnd, target
<1>5. CASE StopEvent \/ StepEvent \/ EntryEvent
  BY <1>5 DEF StopEvent, StepEvent, EntryEvent, Surface
<1>6. CASE LoaderEvent \/ BreakInEvent \/ FaultEvent
  BY <1>6 DEF LoaderEvent, BreakInEvent, FaultEvent, HandleException, Surface, Resume
<1>7. CASE IgnoredBreak
  BY <1>7 DEF IgnoredBreak
<1>8. CASE TraceEvent
  BY <1>8 DEF TraceEvent, Resume
<1>9. CASE SpawnChild
  BY <1>9 DEF SpawnChild, Live
<1>10. CASE ExitEvent
  BY <1>10 DEF ExitEvent, EndSession, NoTarget
<1>11. CASE Fired \/ UNCHANGED vars
  BY <1>11 DEF Fired, vars, target
<1> QED
  BY <1>1, <1>2, <1>3, <1>4, <1>5, <1>6, <1>7, <1>8, <1>9, <1>10, <1>11
     DEF Next, Command, Event

\* The entry breakpoint is armed at a loader break only.
LEMMA EntryStep ==
  ASSUME Inv, EntryInv, [Next]_vars
  PROVE  [~entryArmed /\ entryArmed' => loaders' < loaders]_vars
<1> SUFFICES ASSUME Next, ~entryArmed, entryArmed'
             PROVE  loaders' < loaders
  OBVIOUS
<1> USE Bounds
<1>1. ~Command
  BY DEF Command, Launch, Attach, Restart, Kill, Run, Step, Pause, TraceOn,
     TraceOff, SetOption, JobGo, JobStep, JobPause, NewTarget, NoTarget,
     EndSession, target
<1>2. ~Edit /\ ~Fired
  BY DEF Edit, EditBegin, WaitTimeout, EditEnd, Fired, target
<1>3. ~(StopEvent \/ StepEvent \/ EntryEvent)
  BY DEF StopEvent, StepEvent, EntryEvent
<1>4. ~(IgnoredBreak \/ TraceEvent \/ SpawnChild)
  BY DEF IgnoredBreak, TraceEvent, SpawnChild
<1>5. ~ExitEvent
  BY DEF ExitEvent, EndSession, NoTarget
<1>6. ~(BreakInEvent \/ FaultEvent)
  <2> SUFFICES ASSUME BreakInEvent \/ FaultEvent
               PROVE  FALSE
    OBVIOUS
  <2>1. ~expectInitialBreak
    BY DEF BreakInEvent, FaultEvent, Live, EntryInv, Inv, TypeOK
  <2>2. HandleException("breakin") \/ HandleException("event")
    BY DEF BreakInEvent, FaultEvent
  <2>3. UNCHANGED entryArmed
    BY <2>1, <2>2 DEF HandleException
  <2> QED
    BY <2>3
<1>7. CASE LoaderEvent
  BY <1>7 DEF LoaderEvent, Inv, TypeOK
<1> QED
  BY <1>1, <1>2, <1>3, <1>4, <1>5, <1>6, <1>7 DEF Next, Event

\* If 0x80000003 is never ignored, "run to the entry point" replaces the stop at
\* the loader break and no other exception.
THEOREM EntryRunAtLoader ==
  ASSUME "ignoreexc" \notin Verbs \cup PluginVerbs
  PROVE  Spec => EntryRunOnlyFromLoader
<1>1. Init => EntryInv
  BY DEF Init, EntryInv
<1>2. Inv /\ EntryInv /\ [Next]_vars => EntryInv'
  BY EntryNext
<1>3. Inv /\ EntryInv /\ [Next]_vars
        => [~entryArmed /\ entryArmed' => loaders' < loaders]_vars
  BY EntryStep
<1> QED
  BY SpecInv, <1>1, <1>2, <1>3, PTL DEF Spec, EntryRunOnlyFromLoader

\* A plugin is called back, and symbols are loaded, after a stop of the session.
SymbolsInv == /\ SymbolsAfterFirstPause
              /\ worker = "fire" => pausedOnce \/ startedInside

\* Whatever plugins do in their callbacks, symbols count as loaded only after the
\* first pause of the session they belong to, or for a session that was itself
\* started from a callback.
THEOREM SymbolsLoadedAfterPause == Spec => []SymbolsAfterFirstPause
<1>1. Init => SymbolsInv
  BY DEF Init, SymbolsInv, SymbolsAfterFirstPause
<1>2. Inv /\ SymbolsInv /\ [Next]_vars => SymbolsInv'
  <2> SUFFICES ASSUME Inv, SymbolsInv, [Next]_vars
               PROVE  SymbolsInv'
    OBVIOUS
  <2> USE TruthValues DEF SymbolsInv, SymbolsAfterFirstPause, Inv, TypeOK
  <2>1. CASE Launch \/ Attach \/ Restart
    BY <2>1 DEF Launch, Attach, Restart, May, SessionStarted, once, control, ghosts
  <2>2. CASE Kill \/ Run \/ Step \/ TraceOn \/ TraceOff \/ SetOption \/ JobGo \/ JobStep
    BY <2>2 DEF Kill, Run, Step, TraceOn, TraceOff, SetOption, JobGo, JobStep,
       once, control, ghosts
  <2>3. CASE Pause \/ JobPause
    BY <2>3 DEF Pause, JobPause, once, control
  <2>4. CASE Edit
    BY <2>4 DEF Edit, EditBegin, WaitTimeout, EditEnd, once, ghosts
  <2>5. CASE StopEvent \/ StepEvent \/ EntryEvent
    BY <2>5 DEF StopEvent, StepEvent, EntryEvent, Surface
  <2>6. CASE LoaderEvent \/ BreakInEvent \/ FaultEvent
    BY <2>6 DEF LoaderEvent, BreakInEvent, FaultEvent, HandleException, Surface,
       Resume, Return, ghosts
  <2>7. CASE IgnoredBreak \/ TraceEvent \/ SpawnChild
    BY <2>7 DEF IgnoredBreak, TraceEvent, SpawnChild, Resume, Return, once,
       control, ghosts
  <2>8. CASE ExitEvent
    BY <2>8 DEF ExitEvent, Return, once, ghosts
  <2>9. CASE Fired
    BY <2>9 DEF Fired, ghosts
  <2>10. CASE UNCHANGED vars
    BY <2>10 DEF vars, once, control, ghosts
  <2> QED
    BY <2>1, <2>2, <2>3, <2>4, <2>5, <2>6, <2>7, <2>8, <2>9, <2>10
       DEF Next, Command, Event
<1>3. SymbolsInv => SymbolsAfterFirstPause
  BY DEF SymbolsInv
<1> QED
  BY SpecInv, <1>1, <1>2, <1>3, PTL DEF Spec
=============================================================================
