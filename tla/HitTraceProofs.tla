--------------------------- MODULE HitTraceProofs ---------------------------
(***************************************************************************)
(* Theorems about HitTrace, for every program, every size of code and      *)
(* every set of causes of lost coverage.                                   *)
(***************************************************************************)
EXTENDS HitTrace, TLAPS

\* The address WalkFrom is about to sweep.
Pending == IF phase = "walking" THEN {cur} ELSE {}

\* Everything the trace will account for: swept, waiting behind an INT3, or
\* next in the sweep.
Tracked == Known \cup Pending

\* While the trace is on and has lost nothing:
Tracking ==
    (active /\ lost = {}) =>
       /\ \A a \in executed : Succs(a) \subseteq Tracked
       /\ returns \subseteq Tracked
       /\ pc \in Tracked \/ (IsTrap(pc) /\ pc + 1 \in Tracked)

IInv ==
    /\ TypeOK
    /\ ArmedInEngine
    /\ phase = "walking" => active
    /\ phase = "none" => ~active
    /\ Coverage
    /\ Tracking
-----------------------------------------------------------------------------
(* The successors of an instruction are addresses of the code. *)
LEMMA SuccsInAddr ==
    ASSUME prog \in Programs, NEW a \in Addr
    PROVE  /\ Succs(a) \subseteq Addr
           /\ Reach(a) \subseteq Addr
           /\ Kind(a) = "Linear" \/ IsTrap(a) => a + 1 \in Addr
           /\ prog[a].op \in {"call32", "callrm"} => a + 1 \in Addr
<1>1. prog[a] \in Instr
  BY ProgramAssumption
<1>2. prog[a].op \in Opcodes /\ prog[a].target \in Addr
  BY <1>1 DEF Instr
<1>3. prog[a].op \in FallThrough => a + 1 \in Addr
  BY ProgramAssumption
<1>4. Kind(a) \in {"Linear", "JccDirect", "CallDirect", "CallIndirect"}
         => prog[a].op \in FallThrough
  BY <1>2 DEF Kind, ClassifyFlow, Opcode, Opcodes, FallThrough
<1>5. Succs(a) \subseteq Addr
  BY <1>2, <1>3, <1>4 DEF Succs
<1>6. Reach(a) \subseteq Addr
  BY <1>2, <1>3 DEF Reach, Opcodes, FallThrough
<1> QED
  BY <1>2, <1>3, <1>4, <1>5, <1>6 DEF IsTrap, Opcodes, FallThrough

\* ClassifyFlow answers what the processor does: the instruction goes where the
\* sweep armed something, or its kind is one whose target is not settled.
LEMMA ClassifyFlowSound ==
    ASSUME prog \in Programs, NEW a \in Addr
    PROVE  /\ \/ Reach(a) \subseteq Succs(a)
              \/ Kind(a) \in {"CallIndirect", "JmpIndirect", "Ret"}
           /\ prog[a].op \in {"call32", "callrm"} => a + 1 \in Succs(a)
           /\ IsTrap(a) => Kind(a) = "JmpIndirect" /\ Reach(a) = {}
<1>1. prog[a].op \in Opcodes
  BY ProgramAssumption DEF Instr
<1> QED
  BY <1>1 DEF Reach, Succs, Kind, IsTrap, ClassifyFlow, Opcode, Opcodes

\* Stop leaves the engine with what the table says, or with what it could not
\* remove and `left` recorded.
LEMMA StopTraceKeeps ==
    ASSUME TypeOK, StopTrace
    PROVE  /\ held' \in [Addr -> Nat] /\ left' \in BOOLEAN
           /\ ArmedInEngine => ArmedInEngine'
<1>1. \A a \in Addr : held[a] \in Nat
  BY DEF TypeOK
<1>2. \A a \in Waiting : a \in Addr /\ held[a] - 1 \in Nat
  BY <1>1 DEF Waiting, TypeOK
<1>3. CASE phase = "running"
  BY <1>1, <1>3 DEF StopTrace, TypeOK, ArmedInEngine
<1>4. CASE phase # "running"
  <2>1. /\ held' = [a \in Addr |-> IF a \in Waiting THEN held[a] - 1 ELSE held[a]]
        /\ left' = left /\ armed' = {} /\ active' = FALSE
    BY <1>4 DEF StopTrace
  <2>2. held' \in [Addr -> Nat]
    BY <1>1, <1>2, <2>1
  <2>3. ASSUME ArmedInEngine PROVE ArmedInEngine'
    <3>1. Waiting = armed
      BY <2>3 DEF ArmedInEngine, Waiting
    <3> QED
      BY <1>1, <2>1, <2>3, <3>1 DEF ArmedInEngine
  <2> QED
    BY <2>1, <2>2, <2>3 DEF TypeOK
<1> QED
  BY <1>3, <1>4

\* OnStop takes its breakpoint out of the table and out of the engine.
LEMMA HitKeeps ==
    ASSUME TypeOK, ArmedInEngine, BreakpointHit
    PROVE  held' \in [Addr -> Nat] /\ ArmedInEngine'
<1>1. TypeOK /\ ArmedInEngine
  OBVIOUS
<1>2. CASE active /\ pc \in armed
  <2>1. held[pc] \in Nat \ {0} /\ pc \in Addr
    BY <1>1, <1>2 DEF TypeOK, ArmedInEngine
  <2>2. held' = [held EXCEPT ![pc] = @ - 1] /\ armed' = armed \ {pc}
    BY <1>2 DEF BreakpointHit
  <2>3. held' \in [Addr -> Nat]
    BY <1>1, <2>1, <2>2 DEF TypeOK
  <2>4. UNCHANGED <<left, active>>
    BY DEF BreakpointHit, ghosts
  <2>5. \A a \in Addr : held'[a] = IF a = pc THEN held[a] - 1 ELSE held[a]
    BY <1>1, <2>2 DEF TypeOK
  <2> QED
    BY <1>1, <1>2, <2>1, <2>2, <2>3, <2>4, <2>5 DEF ArmedInEngine, TypeOK
<1>3. CASE ~(active /\ pc \in armed)
  BY <1>1, <1>3 DEF BreakpointHit, ghosts, ArmedInEngine, TypeOK
<1> QED
  BY <1>2, <1>3

-----------------------------------------------------------------------------
(* Type correctness *)

LEMMA TypeInit == Init => TypeOK
<1> SUFFICES ASSUME Init PROVE TypeOK
  OBVIOUS
<1>1. prog \in Programs
  BY DEF Init
<1>2. 1 \in Addr /\ 0 \in 0..MaxSweep[prog] /\ 0 \in Nat
  BY <1>1, ProgramAssumption DEF Addr
<1> QED
  BY <1>1, <1>2 DEF Init, TypeOK

LEMMA TypeNext == TypeOK /\ ArmedInEngine /\ [Next]_vars => TypeOK'
<1> SUFFICES ASSUME TypeOK, ArmedInEngine, [Next]_vars PROVE TypeOK'
  OBVIOUS
<1> USE DEF TypeOK
<1> USE DEF engine, trace, walk, ghosts
<1>a. /\ Reach(pc) \subseteq Addr
      /\ IsTrap(pc) => pc + 1 \in Addr
      /\ prog[pc].op \in {"call32", "callrm"} => pc + 1 \in Addr
  BY SuccsInAddr
<1>b. /\ Succs(cur) \subseteq Addr
      /\ Kind(cur) = "Linear" => cur + 1 \in Addr
  BY SuccsInAddr
<1>1. CASE Launch
  BY <1>1 DEF IsTrap, Launch
<1>2. CASE Execute
  BY <1>2, <1>a DEF Execute, Move, Lose
<1>3. CASE TakeTrap
  BY <1>3 DEF IsTrap, TakeTrap
<1>4. CASE Fault
  BY <1>4 DEF IsTrap, Fault, Lose
<1>5. CASE BreakpointHit
  <2>1. 0 \in 0..MaxSweep[prog]
    BY ProgramAssumption
  <2> QED
    BY <1>5, <2>1, HitKeeps DEF BreakpointHit
<1>6. CASE WalkEnds
  BY <1>6 DEF IsTrap, WalkEnds, Resume, Lose
<1>7. CASE WalkFails
  BY <1>7 DEF IsTrap, WalkFails, Resume, Lose
<1>8. CASE WalkLinear
  <2>1. n + 1 \in 0..MaxSweep[prog]
    BY <1>8, ProgramAssumption DEF WalkLinear
  <2> QED
    BY <1>8, <1>b, <2>1 DEF IsTrap, WalkLinear
<1>9. CASE WalkBranch
  <2>1. held' \in [Addr -> Nat] /\ armed' \subseteq Addr
    BY <1>9, <1>b DEF WalkBranch, Arm
  <2> QED
    BY <1>9, <1>b, <2>1 DEF WalkBranch, Resume, Arm, Lose, IsTrap
<1>10. CASE Go
  BY <1>10, <1>a DEF Go, Lose
<1>11. CASE Pause
  BY <1>11 DEF IsTrap, Pause
<1>12. CASE StepInto
  BY <1>12, <1>a DEF StepInto, Move, Lose
<1>13. CASE TraceOn
  <2>1. 0 \in 0..MaxSweep[prog]
    BY ProgramAssumption
  <2> QED
    BY <1>13, <1>a, <2>1 DEF IsTrap, TraceOn, Seed
<1>14. CASE TraceOff
  <2>1. StopTrace /\ armed' = {} /\ active' = FALSE
    BY <1>14 DEF TraceOff, StopTrace
  <2> QED
    BY <1>14, <2>1, StopTraceKeeps DEF IsTrap, TraceOff
<1>15. CASE TraceClear
  <2>1. StopTrace /\ armed' = {} /\ active' = FALSE
    BY <1>15 DEF TraceClear, StopTrace
  <2> QED
    BY <1>15, <2>1, StopTraceKeeps DEF IsTrap, TraceClear, ClearTrace
<1>16. CASE EndSession
  BY <1>16 DEF IsTrap, EndSession, ClearTrace
<1>17. CASE SetUserBp
  BY <1>17, ProgramAssumption DEF IsTrap, SetUserBp
<1>18. CASE UNCHANGED vars
  BY <1>18 DEF IsTrap, vars
<1> QED
  BY <1>1, <1>2, <1>3, <1>4, <1>5, <1>6, <1>7, <1>8, <1>9, <1>10, <1>11,
     <1>12, <1>13, <1>14, <1>15, <1>16, <1>17, <1>18 DEF Next

-----------------------------------------------------------------------------
(* The coverage invariant *)

LEMMA IInvInit == Init => IInv
<1> SUFFICES ASSUME Init PROVE IInv
  OBVIOUS
<1>1. TypeOK
  BY TypeInit
<1> QED
  BY <1>1 DEF Init, IInv, ArmedInEngine, Coverage, Tracking

\* The debuggee executes an instruction: it was swept, and it goes to one
\* the trace accounts for, or a cause is recorded.
LEMMA MoveKeepsTracking ==
    ASSUME IInv, NEW b \in Reach(pc), Move(b), phase # "walking",
           phase' # "walking", phase # "none",
           UNCHANGED <<prog, active, executed, held, armed>>,
           TypeOK'
    PROVE  Coverage' /\ Tracking'
<1> USE DEF IInv, Tracked, Pending, Known, Waiting
<1>1. lost' = {} => lost = {}
  BY DEF Move, Lose
<1>2. CASE ~active \/ lost' # {}
  BY <1>1, <1>2 DEF Move, Coverage, Tracking
<1>3. CASE active /\ lost' = {}
  <2>1. lost = {} /\ LossOf(pc, b) = {} /\ ~(pc \in Waiting \ executed)
    BY <1>1, <1>3 DEF Move, Lose
  <2>2. ~IsTrap(pc)
    BY ClassifyFlowSound DEF TypeOK
  <2>3. pc \in executed
    BY <1>3, <2>1, <2>2 DEF Tracking
  <2>4. Succs(pc) \subseteq Known /\ returns \subseteq Known
    BY <1>3, <2>1, <2>3 DEF Tracking
  <2>5. b \in Known
    <3>1. CASE Reach(pc) \subseteq Succs(pc)
      BY <3>1, <2>4
    <3>2. CASE Kind(pc) \in {"CallIndirect", "JmpIndirect", "Ret"}
      BY <3>2, <2>1, <2>4 DEF LossOf
    <3> QED
      BY <3>1, <3>2, ClassifyFlowSound DEF TypeOK
  <2>6. returns' \subseteq Known
    BY <2>4, <1>3, ClassifyFlowSound DEF Move, TypeOK
  <2>7. ran' \subseteq executed
    BY <2>1, <2>3 DEF Move, Coverage
  <2>8. \A a \in executed : Succs(a)' = Succs(a)
    BY DEF Succs, Kind
  <2> QED
    BY <1>3, <2>1, <2>5, <2>6, <2>7, <2>8 DEF Move, Coverage, Tracking
<1> QED
  BY <1>2, <1>3

\* A stop at an INT3 of the program is resumed past it, where the trace has
\* code it accounts for, or the loss is recorded.
LEMMA TrapKeepsTracking ==
    ASSUME IInv, phase = "paused", phase' # "walking", IsTrap(pc),
           pc' = pc + 1, Lose(LossOf(pc, pc + 1)),
           UNCHANGED <<prog, active, executed, held, armed, ran, returns>>
    PROVE  Coverage' /\ Tracking'
<1> USE DEF IInv, Tracked, Pending, Known, Waiting
<1>1. lost' = {} => lost = {}
  BY DEF Lose
<1>2. active /\ lost' = {} => pc + 1 \in Known
  BY ClassifyFlowSound DEF Lose, LossOf, TypeOK
<1>3. \A a \in executed : Succs(a)' = Succs(a)
  BY DEF Succs, Kind
<1> QED
  BY <1>1, <1>2, <1>3 DEF Coverage, Tracking

LEMMA IInvNext == IInv /\ [Next]_vars => IInv'
<1> SUFFICES ASSUME IInv, [Next]_vars PROVE IInv'
  OBVIOUS
<1>t. TypeOK /\ TypeOK'
  BY TypeNext DEF IInv
<1>s. prog' = prog
  BY DEF Next, vars, Launch, Execute, TakeTrap, Fault, BreakpointHit, WalkEnds,
         WalkFails, WalkLinear, WalkBranch, Go, Pause, StepInto, TraceOn,
         TraceOff, TraceClear, EndSession, SetUserBp
<1>k. \A a : Succs(a)' = Succs(a) /\ Kind(a)' = Kind(a) /\ IsTrap(a)' = IsTrap(a)
  BY <1>s DEF Succs, Kind, IsTrap
<1> USE DEF engine, trace, walk, ghosts
<1>1. CASE Launch
  BY <1>1, <1>t, <1>k DEF Launch, IInv, ArmedInEngine, Coverage, Tracking, Tracked, Pending, Known, Waiting
<1>2. CASE Execute
  <2>1. Coverage' /\ Tracking'
    BY <1>2, <1>t, MoveKeepsTracking DEF Execute
  <2> QED
    BY <1>2, <1>t, <2>1 DEF Execute, IInv, ArmedInEngine
<1>3. CASE TakeTrap
  BY <1>3, <1>t, <1>k DEF TakeTrap, IInv, ArmedInEngine, Coverage, Tracking, Tracked, Pending, Known, Waiting
<1>4. CASE Fault
  <2>1. ~active \/ lost' # {}
    BY <1>4 DEF Fault, Lose
  <2>2. lost' = {} => lost = {}
    BY <1>4 DEF Fault, Lose
  <2> QED
    BY <1>4, <1>t, <2>1, <2>2 DEF Fault, IInv, ArmedInEngine, Coverage, Tracking
<1>5. CASE BreakpointHit
  <2>1. CASE active /\ pc \in armed
    <3>1. /\ armed' = armed \ {pc} /\ held' = [held EXCEPT ![pc] = @ - 1]
          /\ cur' = pc /\ phase = "running" /\ phase' = "walking"
          /\ UNCHANGED <<prog, pc, executed, active, ran, returns, lost>>
      BY <1>5, <2>1 DEF BreakpointHit
    <3>2. Waiting \subseteq Waiting' \cup {pc}
      BY <1>t, <3>1 DEF Waiting, TypeOK
    <3>3. Tracked \subseteq Tracked'
      BY <3>1, <3>2 DEF Tracked, Pending, Known
    <3>4. Coverage' /\ Tracking'
      BY <1>k, <3>1, <3>3 DEF IInv, Coverage, Tracking
    <3>5. ArmedInEngine'
      BY <1>5, HitKeeps DEF IInv
    <3> QED
      BY <1>t, <2>1, <3>1, <3>4, <3>5 DEF IInv
  <2>2. CASE ~(active /\ pc \in armed)
    BY <1>5, <2>2, <1>t, <1>k DEF BreakpointHit, IInv, ArmedInEngine, Coverage,
       Tracking, Tracked, Pending, Known, Waiting
  <2> QED
    BY <2>1, <2>2
<1>6. CASE WalkEnds
  <2>1. lost' = {} => lost = {}
    BY <1>6 DEF WalkEnds, Lose
  <2>2. active /\ lost' = {} => cur \in executed
    BY <1>6 DEF WalkEnds, Lose
  <2> QED
    BY <1>6, <1>t, <1>k, <2>1, <2>2
    DEF WalkEnds, Resume, IInv, ArmedInEngine, Coverage, Tracking, Tracked, Pending, Known, Waiting
<1>7. CASE WalkFails
  <2>1. active
    BY <1>7 DEF WalkFails, IInv
  <2>2. lost' # {}
    BY <1>7, <2>1 DEF WalkFails, Lose
  <2> QED
    BY <1>7, <1>t, <2>2 DEF WalkFails, Resume, IInv, ArmedInEngine, Coverage, Tracking
<1>8. CASE WalkLinear
  <2>1. Succs(cur) = {cur + 1}
    BY <1>8 DEF WalkLinear, Succs
  <2> QED
    BY <1>8, <1>t, <1>k, <2>1
    DEF WalkLinear, IInv, ArmedInEngine, Coverage, Tracking, Tracked, Pending, Known, Waiting
<1>9. CASE WalkBranch
  <2>1. PICK set \in SUBSET (Succs(cur) \ (executed' \cup armed)) :
           /\ armed' = armed \cup set
           /\ held' = [a \in Addr |-> IF a \in set THEN held[a] + 1 ELSE held[a]]
           /\ Lose(IF set = Succs(cur) \ (executed' \cup armed)
                   THEN {} ELSE {"refused"})
    BY <1>9 DEF WalkBranch, Arm
  <2>2. lost' = {} => lost = {}
    BY <2>1 DEF Lose
  <2>3. active /\ active' /\ left' = left /\ phase' = "running"
    BY <1>9 DEF WalkBranch, Resume, IInv
  <2>4. /\ \A a \in Addr : held[a] \in Nat
        /\ armed \subseteq Addr /\ set \subseteq Addr /\ set \cap armed = {}
    BY <1>t, <2>1, SuccsInAddr DEF TypeOK
  <2>5. ArmedInEngine'
    BY <2>1, <2>3, <2>4 DEF IInv, ArmedInEngine
  <2>6. Waiting' = armed' /\ Waiting = armed
    BY <2>4, <2>5 DEF Waiting, IInv, ArmedInEngine
  <2>7. executed' = executed \cup {cur}
    BY <1>9 DEF WalkBranch
  <2>8. lost' = {} => Succs(cur) \subseteq Known'
    BY <2>1, <2>3, <2>6, <2>7 DEF Lose, Known
  <2>9. Known \cup {cur} \subseteq Known'
    BY <2>1, <2>6, <2>7 DEF Known
  <2>10. Coverage' /\ Tracking'
    <3>1. Tracked = Known \cup {cur} /\ Tracked' = Known'
      BY <1>9, <2>3 DEF WalkBranch, Tracked, Pending
    <3>2. UNCHANGED <<ran, returns, pc>>
      BY <1>9 DEF WalkBranch
    <3>3. Coverage'
      BY <2>2, <2>7, <3>2 DEF IInv, Coverage
    <3>4. Tracking'
      BY <1>k, <2>2, <2>3, <2>7, <2>8, <2>9, <3>1, <3>2 DEF IInv, Tracking
    <3> QED
      BY <3>3, <3>4
  <2> QED
    BY <1>t, <2>3, <2>5, <2>10 DEF IInv
<1>10. CASE Go
  <2>1. Coverage' /\ Tracking'
    <3>1. CASE stop = "trap"
      <4>1. IsTrap(pc)
        BY <1>10, <3>1, <1>t DEF Go, TypeOK
      <4> QED
        BY <1>10, <3>1, <4>1, TrapKeepsTracking DEF Go
    <3>2. CASE stop # "trap"
      BY <1>10, <3>2, <1>k DEF Go, IInv, Coverage, Tracking, Tracked, Pending, Known, Waiting
    <3> QED
      BY <3>1, <3>2
  <2> QED
    BY <1>10, <1>t, <2>1 DEF Go, IInv, ArmedInEngine
<1>11. CASE Pause
  BY <1>11, <1>t, <1>k DEF Pause, IInv, ArmedInEngine, Coverage, Tracking, Tracked, Pending, Known, Waiting
<1>12. CASE StepInto
  <2>1. phase' # "walking"
    BY <1>12 DEF StepInto
  <2>2. Coverage' /\ Tracking'
    <3>1. CASE stop = "trap"
      <4>1. IsTrap(pc)
        BY <1>12, <3>1, <1>t DEF StepInto, TypeOK
      <4> QED
        BY <1>12, <2>1, <3>1, <4>1, TrapKeepsTracking DEF StepInto
    <3>2. CASE stop # "trap"
      BY <1>12, <1>t, <2>1, <3>2, MoveKeepsTracking DEF StepInto
    <3> QED
      BY <3>1, <3>2
  <2> QED
    BY <1>12, <1>t, <2>1, <2>2 DEF StepInto, IInv, ArmedInEngine
<1>13. CASE TraceOn
  <2>1. CASE stop = "elsewhere"
    BY <1>13, <1>t, <2>1 DEF TraceOn, IInv, ArmedInEngine, Coverage, Tracking
  <2>2. CASE stop # "elsewhere"
    <3>1. lost' = {} => lost = {} /\ (~active => executed = {})
      BY <1>13, <2>2 DEF TraceOn
    <3>2. Pending' = {cur'} /\ Pending = {}
      BY <1>13, <2>2 DEF TraceOn, Pending
    <3>3. IsTrap(pc) => cur' = pc + 1
      BY <1>13, <2>2 DEF TraceOn, Seed
    <3>4. pc' = cur' \/ (pc' = pc /\ IsTrap(pc))
      BY <1>13, <2>2, <1>t DEF TraceOn, Seed, TypeOK
    <3>5. Tracking'
      <4> SUFFICES ASSUME lost' = {} PROVE Tracking'
        BY DEF Tracking
      <4>1. lost = {} /\ (~active => executed = {} /\ returns' = {})
        BY <1>13, <3>1 DEF TraceOn
      <4>2. active => returns' = returns
        BY <1>13 DEF TraceOn
      <4>3. executed' = executed /\ Known' = Known
        BY <1>13, <1>t DEF TraceOn, Known, Waiting
      <4>4. \A a \in executed' : Succs(a)' \subseteq Tracked'
        BY <1>k, <4>1, <4>3, <3>2 DEF IInv, Tracking, Tracked
      <4>5. returns' \subseteq Tracked'
        BY <4>1, <4>2, <4>3, <3>2 DEF IInv, Tracking, Tracked
      <4>6. pc' \in Tracked' \/ (IsTrap(pc)' /\ pc' + 1 \in Tracked')
        BY <3>2, <3>3, <3>4, <1>s DEF Tracked, IsTrap
      <4> QED
        BY <4>4, <4>5, <4>6 DEF Tracking
    <3>6. Coverage'
      BY <1>13, <3>1 DEF TraceOn, IInv, Coverage
    <3>7. ArmedInEngine' /\ active' /\ phase' # "none"
      BY <1>13, <2>2 DEF TraceOn, IInv, ArmedInEngine
    <3> QED
      BY <1>t, <3>5, <3>6, <3>7 DEF IInv
  <2> QED
    BY <2>1, <2>2
<1>14. CASE TraceOff
  <2>1. StopTrace /\ active' = FALSE
    BY <1>14 DEF TraceOff, StopTrace
  <2> QED
    BY <1>14, <1>t, <2>1, StopTraceKeeps DEF TraceOff, IInv, Coverage, Tracking
<1>15. CASE TraceClear
  <2>1. StopTrace /\ active' = FALSE
    BY <1>15 DEF TraceClear, StopTrace
  <2> QED
    BY <1>15, <1>t, <2>1, StopTraceKeeps
    DEF TraceClear, ClearTrace, IInv, Coverage, Tracking
<1>16. CASE EndSession
  BY <1>16, <1>t DEF EndSession, ClearTrace, IInv, ArmedInEngine, Coverage, Tracking
<1>17. CASE SetUserBp
  BY <1>17, <1>t, <1>k DEF SetUserBp, IInv, ArmedInEngine, Coverage, Tracking, Tracked, Pending, Known, Waiting
<1>18. CASE UNCHANGED vars
  BY <1>18, <1>t, <1>k DEF vars, IInv, ArmedInEngine, Coverage, Tracking, Tracked, Pending, Known, Waiting
<1> QED
  BY <1>1, <1>2, <1>3, <1>4, <1>5, <1>6, <1>7, <1>8, <1>9, <1>10, <1>11,
     <1>12, <1>13, <1>14, <1>15, <1>16, <1>17, <1>18 DEF Next

LEMMA IInvAlways == Spec => []IInv
<1>1. Init => IInv
  BY IInvInit
<1>2. IInv /\ [Next]_vars => IInv'
  BY IInvNext
<1> QED
  BY <1>1, <1>2, PTL DEF Spec

\* Every variable keeps its type: in particular the sweep never leaves the
\* code and never exceeds kMaxSweep, and only allowed causes are recorded.
THEOREM TypeCorrect == Spec => []TypeOK
<1>1. IInv => TypeOK
  BY DEF IInv
<1> QED
  BY <1>1, IInvAlways, PTL

\* Unless one of the named causes occurred, every instruction that ran while
\* the trace was on is in m_executed.
THEOREM CoverageComplete == Spec => []Coverage
<1>1. IInv => Coverage
  BY DEF IInv
<1> QED
  BY <1>1, IInvAlways, PTL

\* Between walks, every settled successor of an executed instruction is
\* executed or has a live breakpoint of the trace.
THEOREM FrontierAlwaysClosed == Spec => []FrontierClosed
<1>1. IInv => FrontierClosed
  BY DEF IInv, FrontierClosed, Tracking, Tracked, Pending, Known, Waiting
<1> QED
  BY <1>1, IInvAlways, PTL

\* Every entry of m_armed has a live breakpoint, and the engine holds no other of
\* the trace, but for what a Stop while the target ran could not remove.
THEOREM ArmedAlwaysInEngine == Spec => []ArmedInEngine
<1>1. IInv => ArmedInEngine
  BY DEF IInv
<1> QED
  BY <1>1, IInvAlways, PTL

-----------------------------------------------------------------------------
(* What the sweep claims *)

\* The sweep is in the run ahead of the debuggee.
SweepAhead == (phase = "walking" /\ lost = {}) => cur \in RunAhead(pc)

SInv == IInv /\ SweepSound /\ SweepAhead

\* A run begins where it is asked for, goes on behind a straight instruction,
\* and is not left by executing one; any other instruction ends it.
LEMMA RunAheadIs ==
    ASSUME prog \in Programs, NEW p \in Addr
    PROVE  /\ p \in RunAhead(p)
           /\ \A a \in RunAhead(p) : Straight(a) /\ a + 1 \in Addr => a + 1 \in RunAhead(p)
           /\ Straight(p) => RunAhead(p) \subseteq {p} \cup RunAhead(p + 1)
           /\ ~Straight(p) => RunAhead(p) = {p}
<1> USE ProgramAssumption DEF Addr
<1>1. p \in RunAhead(p)
  BY DEF RunAhead
<1>2. ASSUME NEW a \in RunAhead(p), Straight(a), a + 1 \in Addr
      PROVE  a + 1 \in RunAhead(p)
  <2>1. \A x \in p..((a + 1) - 1) : x \in p..(a - 1) \/ x = a
    BY DEF RunAhead
  <2> QED
    BY <1>2, <2>1 DEF RunAhead
<1>3. ASSUME NEW a \in RunAhead(p), a # p PROVE a \in RunAhead(p + 1) /\ Straight(p)
  BY <1>3 DEF RunAhead
<1> QED
  BY <1>1, <1>2, <1>3

\* Kinds that ClassifyFlow does not call Linear or a trap end a run.
LEMMA StraightIs ==
    ASSUME prog \in Programs, NEW a \in Addr
    PROVE  /\ Straight(a) <=> Kind(a) = "Linear" \/ IsTrap(a)
           /\ Straight(a) => a + 1 \in Addr
           /\ \A b \in Reach(a) : Straight(a) => b = a + 1
<1>1. prog[a].op \in Opcodes
  BY ProgramAssumption DEF Instr
<1>2. Straight(a) <=> Kind(a) = "Linear" \/ IsTrap(a)
  BY <1>1 DEF Straight, Kind, ClassifyFlow, Opcode, IsTrap, Opcodes
<1>3. \A b \in Reach(a) : Straight(a) => b = a + 1
  BY DEF Straight, Reach
<1> QED
  BY <1>2, <1>3, SuccsInAddr

\* An instruction that has run, or a trap that was passed, is left behind; the
\* rest of the run is still ahead.
LEMMA MoveKeepsSweep ==
    ASSUME SInv, phase # "walking", phase' # "walking",
           NEW b, pc' = b, UNCHANGED <<prog, active, executed>>,
           lost' = {} => lost = {},
           \/ b \in Reach(pc) /\ Move(b)
           \/ IsTrap(pc) /\ b = pc + 1 /\ ran' = ran
    PROVE  SweepSound' /\ SweepAhead'
<1>1. TypeOK
  BY DEF SInv, IInv
<1>2. pc \in Addr /\ prog \in Programs
  BY <1>1 DEF TypeOK
<1>3. Straight(pc) => RunAhead(pc) \subseteq {pc} \cup RunAhead(b)
  <2>1. Straight(pc) => b = pc + 1
    BY <1>2, StraightIs
  <2> QED
    BY <2>1, <1>2, RunAheadIs
<1>4. RunAhead(pc) \subseteq {pc} \cup RunAhead(b)
  BY <1>2, <1>3, RunAheadIs
<1>5. RunAhead(b)' = RunAhead(b) /\ \A a : IsTrap(a)' = IsTrap(a)
  BY DEF RunAhead, Straight, IsTrap
<1>6. active => IsTrap(pc) \/ pc \in ran'
  BY DEF Move
<1>7. ran \subseteq ran'
  BY DEF Move
<1>8. SweepSound'
  BY <1>4, <1>5, <1>6, <1>7 DEF SInv, SweepSound
<1> QED
  BY <1>8 DEF SweepAhead

LEMMA SInvInit == Init => SInv
BY IInvInit DEF Init, SInv, SweepSound, SweepAhead

LEMMA SInvNext == SInv /\ [Next]_vars => SInv'
<1> SUFFICES ASSUME SInv, [Next]_vars PROVE SInv'
  OBVIOUS
<1>i. IInv /\ IInv'
  BY IInvNext DEF SInv
<1>t. TypeOK /\ TypeOK'
  BY <1>i DEF IInv
<1>s. prog' = prog
  BY DEF Next, vars, Launch, Execute, TakeTrap, Fault, BreakpointHit, WalkEnds,
         WalkFails, WalkLinear, WalkBranch, Go, Pause, StepInto, TraceOn,
         TraceOff, TraceClear, EndSession, SetUserBp
<1>r. \A a : RunAhead(a)' = RunAhead(a) /\ IsTrap(a)' = IsTrap(a)
  BY <1>s DEF RunAhead, Straight, IsTrap
<1>p. pc \in Addr /\ cur \in Addr /\ prog \in Programs
  BY <1>t DEF TypeOK
<1> SUFFICES SweepSound' /\ SweepAhead'
  BY <1>i DEF SInv
<1> USE DEF trace, walk, ghosts
\* Nothing is swept and the debuggee stays where it is.
<1>h. ASSUME UNCHANGED <<pc, active, executed, ran>>, lost' = {} => lost = {},
             phase' # "walking" \/ UNCHANGED <<phase, cur>>
      PROVE  SweepSound' /\ SweepAhead'
  <2>1. RunAhead(pc)' = RunAhead(pc)
    BY <1>h, <1>r
  <2> QED
    BY <1>h, <1>r, <2>1 DEF SInv, SweepSound, SweepAhead
\* The trace is off, or something is lost.
<1>o. ASSUME ~active' \/ lost' # {}, phase' = "walking" => active'
      PROVE  SweepSound' /\ SweepAhead'
  BY <1>o DEF SweepSound, SweepAhead
<1>w. phase = "walking" => active
  BY <1>i DEF IInv
<1>x. phase' = "walking" => active'
  BY <1>i DEF IInv
<1>1. CASE Launch
  BY <1>1, <1>i, <1>o, <1>x DEF Launch, IInv
<1>2. CASE Execute
  BY <1>2, MoveKeepsSweep DEF Execute, Move, Lose
<1>3. CASE TakeTrap
  BY <1>3, <1>h DEF TakeTrap
<1>4. CASE Fault
  BY <1>4, <1>o, <1>x DEF Fault, Lose
<1>5. CASE BreakpointHit
  <2>1. CASE active /\ pc \in armed
    <3>1. cur' = pc /\ pc' = pc /\ UNCHANGED <<active, executed, ran, lost>>
      BY <1>5, <2>1 DEF BreakpointHit
    <3>2. RunAhead(pc)' = RunAhead(pc) /\ pc \in RunAhead(pc)
      BY <3>1, <1>r, <1>p, RunAheadIs
    <3> QED
      BY <3>1, <3>2, <1>r DEF SInv, SweepSound, SweepAhead
  <2>2. CASE ~(active /\ pc \in armed)
    BY <1>5, <2>2, <1>h DEF BreakpointHit
  <2> QED
    BY <2>1, <2>2
<1>6. CASE WalkEnds
  BY <1>6, <1>h DEF WalkEnds, Resume, Lose
<1>7. CASE WalkFails
  BY <1>7, <1>o, <1>w, <1>x DEF WalkFails, Lose
\* What WalkFrom sweeps is in the run ahead.
<1>y. ASSUME phase = "walking", executed' = executed \cup {cur},
             UNCHANGED <<pc, active, ran>>, lost' = {} => lost = {}
      PROVE  SweepSound'
  <2>1. RunAhead(pc)' = RunAhead(pc)
    BY <1>y, <1>r
  <2> QED
    BY <1>y, <1>r, <2>1 DEF SInv, SweepSound, SweepAhead
<1>8. CASE WalkLinear
  <2>1. SweepSound'
    BY <1>8, <1>y DEF WalkLinear
  <2>2. lost' = {} => cur \in RunAhead(pc)
    BY <1>8 DEF WalkLinear, SInv, SweepAhead
  <2>3. Straight(cur) /\ cur + 1 \in Addr
    BY <1>8, <1>p, StraightIs DEF WalkLinear
  <2>4. lost' = {} => cur + 1 \in RunAhead(pc)
    BY <2>2, <2>3, <1>p, RunAheadIs
  <2>5. RunAhead(pc)' = RunAhead(pc) /\ cur' = cur + 1
    BY <1>8, <1>r DEF WalkLinear
  <2> QED
    BY <2>1, <2>4, <2>5 DEF SweepAhead
<1>9. CASE WalkBranch
  <2>1. SweepSound'
    BY <1>9, <1>y DEF WalkBranch, Arm, Lose
  <2> QED
    BY <1>9, <2>1 DEF WalkBranch, Resume, SweepAhead
<1>10. CASE Go
  <2>1. CASE stop = "trap"
    <3>1. IsTrap(pc)
      BY <1>10, <2>1, <1>t DEF Go, TypeOK
    <3> QED
      BY <1>10, <2>1, <3>1, MoveKeepsSweep DEF Go, Lose
  <2>2. CASE stop # "trap"
    BY <1>10, <2>2, <1>h DEF Go
  <2> QED
    BY <2>1, <2>2
<1>11. CASE Pause
  BY <1>11, <1>h DEF Pause
<1>12. CASE StepInto
  <2>1. phase' # "walking" /\ phase # "walking"
    BY <1>12 DEF StepInto
  <2>2. CASE stop = "trap"
    <3>1. IsTrap(pc)
      BY <1>12, <2>2, <1>t DEF StepInto, TypeOK
    <3> QED
      BY <1>12, <2>1, <2>2, <3>1, MoveKeepsSweep DEF StepInto, Lose
  <2>3. CASE stop # "trap"
    BY <1>12, <2>1, <2>3, MoveKeepsSweep DEF StepInto, Move, Lose
  <2> QED
    BY <2>2, <2>3
<1>13. CASE TraceOn
  <2>1. CASE stop = "elsewhere"
    BY <1>13, <1>o, <1>x, <2>1 DEF TraceOn
  <2>2. CASE stop # "elsewhere"
    <3>1. SUFFICES ASSUME lost' = {} PROVE SweepSound' /\ SweepAhead'
      BY DEF SweepSound, SweepAhead
    <3>2. lost = {} /\ (~active => executed = {}) /\ UNCHANGED <<executed, ran>>
      BY <1>13, <2>2, <3>1 DEF TraceOn
    <3>3. cur' = Seed(pc) /\ pc' = IF stop = "trap" THEN pc + 1 ELSE pc
      BY <1>13, <2>2 DEF TraceOn
    <3>4. stop = "trap" => IsTrap(pc)
      BY <1>13, <1>t DEF TraceOn, TypeOK
    <3>5. RunAhead(pc) \subseteq {pc} \cup RunAhead(pc + 1)
                 /\ (stop # "trap" => RunAhead(pc') = RunAhead(pc))
      BY <3>3, <3>4, <1>p, RunAheadIs, StraightIs
    <3>6. cur' \in RunAhead(pc')
      <4>1. Seed(pc) \in RunAhead(pc)
        BY <1>p, RunAheadIs, StraightIs DEF Seed
      <4>2. IsTrap(pc) => Seed(pc) = pc + 1 /\ pc + 1 \in Addr
        BY <1>p, StraightIs DEF Seed
      <4>3. IsTrap(pc) => pc + 1 \in RunAhead(pc + 1)
        BY <4>2, <1>p, RunAheadIs
      <4> QED
        BY <3>3, <3>4, <4>1, <4>2, <4>3
    <3>7. RunAhead(pc)' = RunAhead(pc')
      BY <1>r DEF RunAhead, Straight
    <3>8. \A a \in executed : active => IsTrap(a) \/ a \in ran \cup RunAhead(pc')
      BY <3>2, <3>3, <3>4, <3>5 DEF SInv, SweepSound
    <3> QED
      BY <3>2, <3>6, <3>7, <3>8, <1>r DEF SweepSound, SweepAhead
  <2> QED
    BY <2>1, <2>2
<1>14. CASE TraceOff
  BY <1>14, <1>o, <1>x DEF TraceOff, StopTrace
<1>15. CASE TraceClear
  BY <1>15, <1>o, <1>x DEF TraceClear, StopTrace
<1>16. CASE EndSession
  BY <1>16, <1>o, <1>x DEF EndSession
<1>17. CASE SetUserBp
  BY <1>17, <1>h DEF SetUserBp
<1>18. CASE UNCHANGED vars
  BY <1>18, <1>h DEF vars
<1> QED
  BY <1>1, <1>2, <1>3, <1>4, <1>5, <1>6, <1>7, <1>8, <1>9, <1>10, <1>11,
     <1>12, <1>13, <1>14, <1>15, <1>16, <1>17, <1>18 DEF Next

\* Unless one of the named causes occurred, what m_executed claims has run, is
\* in the run the debuggee is about to execute, or is a trap byte.
THEOREM SweepAlwaysSound == Spec => []SweepSound
<1>1. SInv => SweepSound
  BY DEF SInv
<1>2. SInv /\ [Next]_vars => SInv'
  BY SInvNext
<1> QED
  BY <1>1, <1>2, SInvInit, PTL DEF Spec
=============================================================================
