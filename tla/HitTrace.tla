------------------------------ MODULE HitTrace ------------------------------
(***************************************************************************)
(* The hit trace: src/src/hittrace.{h,cpp}, the verbs that drive it (ht,   *)
(* htclear) and the breakpoint path of DbgSession::HandleEvent that feeds  *)
(* it, run against one thread of a debuggee that executes native code.     *)
(*                                                                         *)
(* Code is a program: an instruction per address 1..N, each of one of the  *)
(* forms ClassifyFlow tells apart.  The debuggee runs it as the processor  *)
(* does; wherever the engine holds an INT3 it stops; the trace sweeps      *)
(* forward from the stop (one WalkX step per iteration of WalkFrom's loop) *)
(* and arms the successors of the branch that ClassifyFlow finds.          *)
(*                                                                         *)
(* The trace gives up coverage in some situations by design.  "lost"       *)
(* collects the reasons that have occurred since the last htclear, and     *)
(* the constant Losses says which of them a model allows in a program.      *)
(***************************************************************************)
EXTENDS Integers, FiniteSets

CONSTANTS N,         \* the debuggee's code is the addresses 1..N
          Programs,  \* the programs a model runs
          MaxSweep,  \* kMaxSweep, by program
          UserAddrs, \* where the user may set breakpoints, by program
          Losses,    \* the reasons for losing coverage a model allows, likewise
          MaxHeld    \* bound: trace breakpoints the engine holds at one address

Addr == 1..N

\* The forms of instruction, by opcode; "other" is everything else, syscall
\* included.
Opcodes == {"other",
            "jcc8", "jcc32",      \* 70-7F, 0F 80-8F
            "loop",               \* E0-E3: loop, jrcxz
            "jmp8", "jmp32",      \* EB, E9
            "call32", "ret",      \* E8; C2, C3, CA, CB
            "int3", "intn",       \* CC, CD
            "callrm", "jmprm"}    \* FF /2 /3, FF /4 /5

\* Those the processor may follow with the next instruction, now or later.
FallThrough == Opcodes \ {"jmp8", "jmp32", "jmprm", "ret"}

\* An instruction: with a legacy or REX prefix or not; target is where its
\* displacement points.
Instr == [op : Opcodes, prefixed : BOOLEAN, target : Addr]

Causes == {"indirect",  \* an indirect transfer landed on unknown code
           "fault",     \* an exception left a straight-line run
           "refused",   \* ArmBp returned -1
           "opaque",    \* ReadCode or NextInstr failed during a sweep
           "cut",       \* a sweep reached kMaxSweep
           "reseed",    \* ht on after ht off, coverage kept
           "foreign",   \* ht on while the current thread is the break-in one
           "stepped"}   \* a resume skipped an armed INT3 a step had landed on

ASSUME ProgramAssumption ==
    /\ N \in Nat \ {0} /\ MaxHeld \in Nat
    /\ MaxSweep \in [Programs -> Nat \ {0}]
    /\ Losses \in [Programs -> SUBSET Causes]
    /\ UserAddrs \in [Programs -> SUBSET Addr]
    /\ Programs \subseteq [Addr -> Instr]
    /\ \A p \in Programs, a \in Addr :
          p[a].op \in FallThrough => a + 1 \in Addr

VARIABLES
    prog,      \* the code; never changes
    phase,     \* no debuggee / paused / running / the worker inside WalkFrom
    pc,        \* the debuggee's instruction pointer
    stop,      \* what the current pause is: at pc, at a trap taken, elsewhere
    skip,      \* resuming from a stop at pc: the INT3 at pc is stepped over
    userBps,   \* the user's breakpoints
    held,      \* how many breakpoints of the trace the engine holds, by address
    active,    \* m_active
    executed,  \* m_executed
    armed,     \* the addresses of m_armed
    blocks,    \* m_blocks
    cur, n,    \* the locals of WalkFrom
    ran,       \* instructions that completed while the trace was on
    returns,   \* return sites of the calls made while the trace was on
    lost,      \* reasons for which coverage was given up
    left       \* the trace was switched off with breakpoints it could not remove

trace   == <<active, executed, armed, blocks>>
walk    == <<cur, n>>
engine  == <<userBps, held>>
ghosts  == <<ran, returns, lost, left>>
vars    == <<prog, phase, pc, stop, skip, engine, trace, walk, ghosts>>

-----------------------------------------------------------------------------
(* The code and what is known of it *)

\* The trace waits here behind a live INT3.
Waiting  == {a \in armed : held[a] > 0}
Known    == executed \cup Waiting

\* Variant: the first byte is taken for the opcode, prefix or not.
OpcodeUnskipped(i) == IF i.prefixed THEN "other" ELSE i.op

\* The opcode ClassifyFlow looks at: the byte after the prefixes.
Opcode(i) == i.op

\* ClassifyFlow.  A trap, which cannot be followed, counts as an indirect jump.
ClassifyFlow(i) ==
    IF Opcode(i) \in {"jcc8", "jcc32", "loop"} THEN "JccDirect"
    ELSE IF Opcode(i) \in {"jmp8", "jmp32"} THEN "JmpDirect"
    ELSE IF Opcode(i) = "call32" THEN "CallDirect"
    ELSE IF Opcode(i) = "callrm" THEN "CallIndirect"
    ELSE IF Opcode(i) \in {"jmprm", "int3", "intn"} THEN "JmpIndirect"
    ELSE IF Opcode(i) = "ret" THEN "Ret"
    ELSE "Linear"

Kind(a)   == ClassifyFlow(prog[a])
IsTrap(a) == prog[a].op = "int3"

\* What WalkFrom arms at a branch, and the next instruction of a linear one.
Succs(a) ==
    (IF Kind(a) \in {"JmpDirect", "JccDirect", "CallDirect"}
     THEN {prog[a].target} ELSE {})
    \cup (IF Kind(a) \in {"Linear", "JccDirect", "CallDirect", "CallIndirect"}
          THEN {a + 1} ELSE {})

\* Where the processor goes from a.
Reach(a) ==
    (IF prog[a].op \in {"other", "intn", "jcc8", "jcc32", "loop"} THEN {a + 1} ELSE {})
    \cup (IF prog[a].op \in {"jcc8", "jcc32", "loop", "jmp8", "jmp32", "call32"}
          THEN {prog[a].target} ELSE {})
    \cup (IF prog[a].op \in {"callrm", "jmprm", "ret"} THEN Addr ELSE {})

\* Why moving from a to b would lose the trace, if it would.
LossOf(a, b) ==
    IF \/ Kind(a) \in {"CallIndirect", "JmpIndirect"} /\ b \notin Known
       \/ Kind(a) = "Ret" /\ b \notin Known \cup returns
    THEN {"indirect"} ELSE {}

Lose(S) == LET causes == IF active THEN S ELSE {}
           IN  /\ causes \subseteq Losses[prog]
               /\ lost' = lost \cup causes

HasBp(a) == held[a] > 0 \/ a \in userBps

-----------------------------------------------------------------------------
Init ==
    /\ prog \in Programs
    /\ phase = "none" /\ pc = 1 /\ stop = "here" /\ skip = FALSE
    /\ userBps = {} /\ held = [a \in Addr |-> 0]
    /\ active = FALSE /\ executed = {} /\ armed = {} /\ blocks = 0
    /\ cur = 1 /\ n = 0
    /\ ran = {} /\ returns = {} /\ lost = {} /\ left = FALSE

\* launch or attach, up to the first stop the user sees.  An attach stops in
\* the break-in thread.
Launch ==
    /\ phase = "none"
    /\ phase' = "paused"
    /\ pc' \in Addr
    /\ stop' \in {"here", "elsewhere"}
    /\ UNCHANGED <<prog, skip, engine, trace, walk, ghosts>>

-----------------------------------------------------------------------------
(* The debuggee *)

\* One instruction completes and control reaches b.
Move(b) ==
    /\ pc' = b
    /\ ran' = IF active THEN ran \cup {pc} ELSE ran
    /\ returns' = IF active /\ prog[pc].op \in {"call32", "callrm"}
                  THEN returns \cup {pc + 1} ELSE returns
    /\ Lose(LossOf(pc, b)
            \cup (IF pc \in Waiting \ executed THEN {"stepped"} ELSE {}))

\* The processor executes the instruction at pc.
Execute ==
    /\ phase = "running"
    /\ HasBp(pc) => skip
    /\ \E b \in Reach(pc) : Move(b)
    /\ skip' = FALSE
    /\ UNCHANGED <<prog, phase, stop, engine, trace, walk, left>>

\* An embedded INT3 raises its exception, which surfaces as a pause.
TakeTrap ==
    /\ phase = "running" /\ IsTrap(pc)
    /\ HasBp(pc) => skip
    /\ phase' = "paused" /\ stop' = "trap"
    /\ UNCHANGED <<prog, pc, skip, engine, trace, walk, ghosts>>

\* A linear instruction faults and the debuggee's handler takes over.
Fault ==
    /\ "fault" \in Losses[prog]
    /\ phase = "running" /\ prog[pc].op = "other"
    /\ HasBp(pc) => skip
    /\ pc' \in Addr
    /\ skip' = FALSE
    /\ Lose({"fault"})
    /\ UNCHANGED <<prog, phase, stop, engine, trace, walk, ran, returns,
                   left>>

\* Variant: OnStop forgets DisarmBp.
BreakpointHitKeepsBp ==
    /\ phase = "running" /\ HasBp(pc) /\ ~skip
    /\ active /\ pc \in armed
    /\ armed' = armed \ {pc}
    /\ cur' = pc /\ n' = 0
    /\ phase' = "walking"
    /\ UNCHANGED <<prog, pc, stop, skip, engine, active, executed, blocks,
                   ghosts>>

\* The breakpoint event: OnStop claims it if it is armed at this address,
\* otherwise it is a pause.
BreakpointHit ==
    /\ phase = "running" /\ HasBp(pc) /\ ~skip
    /\ IF active /\ pc \in armed
       THEN /\ armed' = armed \ {pc}
            /\ held' = [held EXCEPT ![pc] = @ - 1]
            /\ cur' = pc /\ n' = 0
            /\ phase' = "walking"
            /\ UNCHANGED stop
       ELSE /\ phase' = "paused" /\ stop' = "here"
            /\ UNCHANGED <<armed, held, walk>>
    /\ UNCHANGED <<prog, pc, skip, userBps, active, executed, blocks, ghosts>>

-----------------------------------------------------------------------------
(* HitTrace::WalkFrom, one action per way through the body of its loop.    *)
(* Whoever called it (HandleEvent, the ht verb) resumes the target next.   *)

Resume == phase' = "running" /\ skip' = TRUE

\* Arm(a) for every a of S that is not executed or armed already: ArmBp sets
\* one more breakpoint in the engine, or refuses.
Arm(S) ==
    LET asked == S \ (executed' \cup armed)
    IN  \E set \in SUBSET asked :
           /\ armed' = armed \cup set
           /\ held'  = [a \in Addr |-> IF a \in set THEN held[a] + 1 ELSE held[a]]
           /\ Lose(IF set = asked THEN {} ELSE {"refused"})

WalkEnds ==
    /\ phase = "walking"
    /\ n = MaxSweep[prog] \/ cur \in executed
    /\ Lose(IF cur \in executed THEN {} ELSE {"cut"})
    /\ Resume
    /\ UNCHANGED <<prog, pc, stop, engine, trace, walk, ran, returns, left>>

WalkFails ==
    /\ phase = "walking" /\ n < MaxSweep[prog] /\ cur \notin executed
    /\ "opaque" \in Losses[prog]
    /\ executed' = executed \cup {cur}
    /\ Lose({"opaque"})
    /\ Resume
    /\ UNCHANGED <<prog, pc, stop, engine, active, armed, blocks, walk, ran,
                   returns, left>>

\* Variant: a conditional branch is swept through like a linear instruction.
WalkLinearThroughJcc ==
    /\ phase = "walking" /\ n < MaxSweep[prog] /\ cur \notin executed
    /\ Kind(cur) \in {"Linear", "JccDirect"}
    /\ executed' = executed \cup {cur}
    /\ cur' = cur + 1 /\ n' = n + 1
    /\ UNCHANGED <<prog, phase, pc, stop, skip, engine, active, armed, blocks,
                   ghosts>>

WalkLinear ==
    /\ phase = "walking" /\ n < MaxSweep[prog] /\ cur \notin executed
    /\ Kind(cur) = "Linear"
    /\ executed' = executed \cup {cur}
    /\ cur' = cur + 1 /\ n' = n + 1
    /\ UNCHANGED <<prog, phase, pc, stop, skip, engine, active, armed, blocks,
                   ghosts>>

\* Variant: only the target is armed, not the instruction after the branch.
WalkBranchNoNext ==
    /\ phase = "walking" /\ n < MaxSweep[prog] /\ cur \notin executed
    /\ Kind(cur) # "Linear"
    /\ executed' = executed \cup {cur}
    /\ blocks' = blocks + 1
    /\ Arm(Succs(cur) \ {cur + 1})
    /\ Resume
    /\ UNCHANGED <<prog, pc, stop, userBps, active, walk, ran, returns, left>>

WalkBranch ==
    /\ phase = "walking" /\ n < MaxSweep[prog] /\ cur \notin executed
    /\ Kind(cur) # "Linear"
    /\ executed' = executed \cup {cur}
    /\ blocks' = blocks + 1
    /\ Arm(Succs(cur))
    /\ Resume
    /\ UNCHANGED <<prog, pc, stop, userBps, active, walk, ran, returns, left>>

-----------------------------------------------------------------------------
(* The user's verbs *)

\* g: a trap that was taken is stepped past, an INT3 under pc is skipped.
Go ==
    /\ phase = "paused"
    /\ phase' = "running"
    /\ skip' = (skip \/ stop # "elsewhere")
    /\ IF stop = "trap"
       THEN pc' = pc + 1 /\ Lose(LossOf(pc, pc + 1))
       ELSE UNCHANGED <<pc, lost>>
    /\ UNCHANGED <<prog, stop, engine, trace, walk, ran, returns, left>>

\* pause: the break-in thread takes the stop.
Pause ==
    /\ phase = "running"
    /\ phase' = "paused" /\ stop' = "elsewhere"
    /\ UNCHANGED <<prog, pc, skip, engine, trace, walk, ghosts>>

\* si: one instruction.  If it lands on a breakpoint the engine may report
\* the breakpoint (which HandleEvent sees next) or the completed step.
StepInto ==
    /\ phase = "paused" /\ stop # "elsewhere"
    /\ IF stop = "trap"
       THEN pc' = pc + 1 /\ Lose(LossOf(pc, pc + 1)) /\ UNCHANGED <<ran, returns>>
       ELSE \E b \in Reach(pc) : Move(b)
    /\ \/ phase' = "paused" /\ stop' = "here" /\ UNCHANGED skip
       \/ HasBp(pc') /\ phase' = "running" /\ skip' = FALSE /\ UNCHANGED stop
    /\ UNCHANGED <<prog, engine, trace, walk, left>>

\* Variants of Seed with a plausible bug: the trap byte is not looked for; it
\* is always stepped past.
SeedAtTrap(a)  == a
SeedPastAny(a) == a + 1

\* Where StartHitTrace seeds the walk: sitting on an INT3 execution resumes at
\* the next byte.
Seed(a) == IF IsTrap(a) THEN a + 1 ELSE a

\* ht on: StartHitTrace seeds past an INT3 at rip, Start walks, g follows.
\* In the break-in thread the seed is in code of its own.
TraceOn ==
    /\ phase = "paused"
    /\ \A a \in Addr \ armed : held[a] < MaxHeld
    /\ active' = TRUE
    /\ IF stop = "elsewhere"
       THEN /\ "foreign" \in Losses[prog] /\ lost' = lost \cup {"foreign"}
            /\ phase' = "running" /\ UNCHANGED <<skip, pc, walk>>
       ELSE /\ LET why == IF ~active /\ executed # {} THEN {"reseed"} ELSE {}
               IN  why \subseteq Losses[prog] /\ lost' = lost \cup why
            /\ phase' = "walking" /\ UNCHANGED skip
            /\ cur' = Seed(pc) /\ n' = 0
            /\ pc' = IF stop = "trap" THEN pc + 1 ELSE pc
    /\ returns' = IF active THEN returns ELSE {}
    /\ UNCHANGED <<prog, stop, engine, executed, armed, blocks, ran, left>>

\* HitTrace::Stop.  The engine edits breakpoints only in a break state: while
\* the target runs DisarmBp fails, and its result is ignored.
StopTrace ==
    /\ active' = FALSE /\ armed' = {}
    /\ IF phase = "running"
       THEN held' = held /\ left' = (left \/ armed # {})
       ELSE /\ held' = [a \in Addr |-> IF a \in Waiting THEN held[a] - 1 ELSE held[a]]
            /\ left' = left

\* ht off
TraceOff ==
    /\ phase \in {"paused", "running"}
    /\ StopTrace
    /\ UNCHANGED <<prog, phase, pc, stop, skip, userBps, executed, blocks, walk,
                   ran, returns, lost>>

\* HitTrace::Clear
ClearTrace ==
    /\ executed' = {} /\ blocks' = 0
    /\ ran' = {} /\ returns' = {} /\ lost' = {}

\* htclear
TraceClear ==
    /\ phase \in {"paused", "running"}
    /\ StopTrace /\ ClearTrace
    /\ UNCHANGED <<prog, phase, pc, stop, skip, userBps, walk>>

\* The process exits or is killed: EndSession clears the trace, and the
\* engine drops every breakpoint with the session.
EndSession ==
    /\ phase \in {"paused", "running"}
    /\ ClearTrace
    /\ active' = FALSE /\ armed' = {}
    /\ held' = [a \in Addr |-> 0] /\ userBps' = {} /\ left' = FALSE
    /\ phase' = "none" /\ skip' = FALSE /\ stop' = "here"
    /\ UNCHANGED <<prog, pc, walk>>

\* bp and bc, in a break state.
SetUserBp ==
    /\ phase = "paused"
    /\ \E a \in UserAddrs[prog] :
          \/ a \notin userBps /\ userBps' = userBps \cup {a}
          \/ a \in userBps /\ userBps' = userBps \ {a}
    /\ UNCHANGED <<prog, phase, pc, stop, skip, held, trace, walk, ghosts>>

-----------------------------------------------------------------------------
Next ==
    \/ Launch \/ Execute \/ TakeTrap \/ Fault \/ BreakpointHit
    \/ WalkEnds \/ WalkFails \/ WalkLinear \/ WalkBranch
    \/ Go \/ Pause \/ StepInto \/ TraceOn \/ TraceOff \/ TraceClear
    \/ EndSession \/ SetUserBp

Spec == Init /\ [][Next]_vars

-----------------------------------------------------------------------------
TypeOK ==
    /\ prog \in Programs
    /\ phase \in {"none", "paused", "running", "walking"}
    /\ pc \in Addr /\ cur \in Addr /\ n \in 0..MaxSweep[prog]
    /\ stop \in {"here", "trap", "elsewhere"}
    /\ stop = "trap" => IsTrap(pc) \/ phase # "paused"
    /\ skip \in BOOLEAN /\ active \in BOOLEAN /\ blocks \in Nat
    /\ userBps \subseteq Addr /\ held \in [Addr -> Nat] /\ left \in BOOLEAN
    /\ executed \subseteq Addr /\ armed \subseteq Addr
    /\ ran \subseteq Addr /\ returns \subseteq Addr /\ lost \subseteq Losses[prog]

\* The promise of the trace (hittrace.h, "discover which code actually
\* executes"): unless it lost track for one of the named causes, every
\* instruction that ran while it was on is in the coverage it reports.
Coverage == lost = {} => ran \subseteq executed

\* What keeps it: whenever the target is not being walked, each successor the
\* encoding settles of each executed instruction is either executed itself or
\* has a live INT3 in the engine waiting for it.
FrontierClosed ==
    (active /\ lost = {} /\ phase # "walking") =>
        \A a \in executed : Succs(a) \subseteq Known

\* The sweep claims instructions before they run.  The straight-line run
\* ahead of p, which a trap byte does not end: execution resumes behind it.
Straight(a) == prog[a].op \in {"other", "int3"}
RunAhead(p) == {a \in Addr : p <= a /\ \A x \in p..(a - 1) : Straight(x)}

\* "straight-line code between two branches either all executes or none of it
\* does": what is marked executed has run, or is what pc is about to run.  A
\* trap byte never completes.
SweepSound ==
    (active /\ lost = {}) =>
        \A a \in executed : \/ IsTrap(a)
                            \/ a \in ran \cup RunAhead(pc)

\* The trace's own table against the engine's breakpoint list, over arming,
\* refusals, hits and ends of the session: every entry of m_armed has a live
\* breakpoint, a trace that is off has none, and the engine holds no breakpoint
\* of the trace but those the table names, one each, unless the trace was
\* switched off while the target ran: then it holds what Stop could not remove.
ArmedInEngine ==
    /\ \A a \in armed : held[a] > 0
    /\ ~active => armed = {}
    /\ ~left => \A a \in Addr : held[a] = IF a \in armed THEN 1 ELSE 0

-----------------------------------------------------------------------------
(* Statements of the documentation that the code does not keep *)

\* hittrace.h says the trace discovers which code actually executes.  A trace
\* switched off and on again keeps m_executed but not the frontier.
CoverageAfterRestart ==
    lost \subseteq {"reseed"} => ran \subseteq executed

\* hittrace.h, on the sweep: sound because straight-line code either all
\* executes or none of it does.
SweepSoundUnderFaults ==
    (active /\ lost \subseteq {"fault"}) =>
        \A a \in executed : IsTrap(a) \/ a \in ran \cup RunAhead(pc)

\* hittrace.h: OnStop returns true if the stop belonged to the hit trace.  A
\* stop at a breakpoint of the user's is the user's.
UserStopSurfaces ==
    [][(phase = "running" /\ phase' # "running" /\ pc \in userBps /\ userBps' = userBps)
         => phase' # "walking"]_vars

\* hittrace.h, OwnsBp: true if a breakpoint is one of ours, so the CPU window
\* neither paints it as a user breakpoint nor lets it be cleared.  What ht off or
\* htclear leaves in a running target is no longer one of ours.
ScaffoldingIsOwned == \A a \in Addr : held[a] > 0 => a \in armed

\* dbgsession.cpp, HandleEvent: a hit-trace breakpoint is scaffolding, not a
\* user stop.  So a breakpoint pause is always at a breakpoint of the user's.
ScaffoldingNeverSurfaces ==
    [][(phase = "running" /\ phase' = "paused" /\ stop' = "here")
         => pc \in userBps]_vars
=============================================================================
