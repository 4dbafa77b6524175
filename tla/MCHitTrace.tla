----------------------------- MODULE MCHitTrace -----------------------------
(***************************************************************************)
(* Programs for TLC.  EveryProgram has every program of N instructions of  *)
(* one form per flow kind, and each other form once, where it is taken and *)
(* not taken; Chosen3 has a run, a trap inside a loop and an indirect call.*)
(* The programs of Chosen3 run with the whole environment: every cause of   *)
(* lost coverage, a user's breakpoint and a sweep that is cut.              *)
(***************************************************************************)
EXTENDS HitTrace

I(o, t) == [op |-> o, prefixed |-> FALSE, target |-> t]
P(o, t) == [op |-> o, prefixed |-> TRUE, target |-> t]

Instrs == {I(o, 1) : o \in {"other", "callrm", "jmprm", "ret", "int3"}}
          \cup {I(o, t) : o \in {"loop", "jmp8", "call32"}, t \in Addr}

OtherForms == {I("intn", 1)} \cup {I(o, 3) : o \in {"jcc8", "jcc32", "jmp32"}}
              \cup {P(o, 3) : o \in Opcodes \ {"int3"}}

EveryProgram ==
    {p \in [Addr -> Instrs] : \A a \in Addr : p[a].op \in FallThrough => a < N}
    \cup {<<i, I("other", 1), I("jmp32", 1)>> : i \in OtherForms}

\* a run of two, a trap in the middle of a loop, an indirect call and its return
Run3  == <<I("other", 1), I("other", 1), I("jmp32", 1)>>
Trap3 == <<P("other", 1), I("int3", 1), I("jmp8", 1)>>
Call3 == <<P("callrm", 1), I("jcc8", 3), I("ret", 1)>>

Chosen3 == {Run3, Trap3, Call3}
AllPrograms == EveryProgram \cup Chosen3

\* The environment of trace_all.
SweepOf  == [p \in AllPrograms |-> IF p \in Chosen3 THEN 2 ELSE 3]
UsersIn  == [p \in AllPrograms |-> IF p \in Chosen3 THEN {2} ELSE {}]
LossesIn == [p \in AllPrograms |-> IF p \in Chosen3 THEN Causes ELSE {}]

\* The environment of what is refuted.
LongSweep     == [p \in Chosen3 |-> 3]
UserAt2       == [p \in Chosen3 |-> {2}]
FaultOrReseed == [p \in Chosen3 |-> {"fault", "reseed"}]
=============================================================================
