-------------------------- MODULE ProcessTabsProofs --------------------------
(***************************************************************************)
(* ProcessTabs for every set of processes and every bound of the queue.    *)
(* The first invariant is inductive as it stands, the other two relative   *)
(* to it: a stop establishes each, and nothing that happens while the      *)
(* target is stopped touches one side of them alone.                       *)
(***************************************************************************)
EXTENDS ProcessTabs, TLAPS

\* The worker's list of processes at a stop has the types of the mirror.
LEMMA SyncTypes ==
    ASSUME TypeOK, NEW p \in live, SyncProcesses(p)
    PROVE  /\ procNames' \subseteq Ids
           /\ current' \in Ids \cup {None} /\ currentProc' \in Ids \cup {None}
           /\ tabs' \in [Ids -> {"none", "alive", "dead"}]
           /\ focus' \in Ids \cup {None} /\ fresh' \in BOOLEAN
<1>1. live \subseteq Ids
  BY DEF TypeOK
<1>2. CurrentAfterNaming(p) \subseteq Ids \cup {None}
  BY <1>1 DEF CurrentAfterNaming
<1>3. TabsOfLive \in [Ids -> {"none", "alive", "dead"}]
  BY DEF TabsOfLive
<1>4. focus' \in Ids \cup {None} /\ fresh' \in BOOLEAN
  BY <1>1 DEF SyncProcesses, TypeOK
<1> QED
  BY <1>1, <1>2, <1>3, <1>4 DEF SyncProcesses, TypeOK

-----------------------------------------------------------------------------
\* What a queue is after its first element is taken.
LEMMA Taken ==
    ASSUME NEW S, NEW q \in Seq(S), q # <<>>
    PROVE  Head(q) \in S /\ Tail(q) \in Seq(S) /\ Len(Tail(q)) = Len(q) - 1
  OBVIOUS

LEMMA InitTypes == Init => TypeOK
<1> SUFFICES ASSUME Init PROVE TypeOK
  OBVIOUS
<1>1. queue \in Seq(Command) /\ Len(queue) <= MaxQueue
  BY IdsAssumption DEF Init
<1>2. tabs \in [Ids -> {"none", "alive", "dead"}]
  BY DEF Init
<1> QED
  BY <1>1, <1>2 DEF Init, TypeOK

LEMMA NextTypes == TypeOK /\ [Next]_vars => TypeOK'
<1> SUFFICES ASSUME TypeOK, [Next]_vars PROVE TypeOK'
  OBVIOUS
<1> USE IdsAssumption DEF TypeOK, engine, session, mirror, gui
<1>1. ASSUME NEW p \in Ids, Stop(p) PROVE TypeOK'
  <2>1. p \in live /\ SyncProcesses(p)
    BY <1>1 DEF Stop
  <2> QED
    BY <1>1, <2>1, SyncTypes DEF Stop
<1>2. ASSUME NEW p \in Ids, Spawn(p) PROVE TypeOK'
  BY <1>2 DEF Spawn
<1>3. ASSUME NEW p \in Ids, Exit(p) PROVE TypeOK'
  BY <1>3 DEF Exit, Ended, TabsDead
<1>4. ASSUME NEW p \in Ids, Start(p) PROVE TypeOK'
  BY <1>4 DEF Start
<1>5. ASSUME NEW p \in Ids, Click(p) PROVE TypeOK'
  BY <1>5 DEF Click
<1>6. ASSUME NEW p \in Ids, CloseTab(p) PROVE TypeOK'
  <2>1. [verb |-> "closeproc", id |-> p] \in Command
    BY DEF Command
  <2> QED
    BY <1>6, <2>1 DEF CloseTab
<1>7. CASE Resume
  BY <1>7 DEF Resume
<1>8. CASE Kill
  BY <1>8 DEF Kill, Ended, TabsDead
<1>9. CASE Execute
  <2>1. Head(queue).id \in Ids \cup {None} /\ queue' \in Seq(Command)
        /\ Len(queue') <= MaxQueue
    <3>1. queue # <<>> /\ queue' = Tail(queue)
      BY <1>9 DEF Execute
    <3>2. Head(queue) \in Command /\ Tail(queue) \in Seq(Command)
          /\ Len(Tail(queue)) = Len(queue) - 1
      BY <3>1, Taken
    <3>3. Len(queue) \in Nat
      OBVIOUS
    <3> QED
      BY <3>1, <3>2, <3>3 DEF Command
  <2>2. CASE Head(queue).verb = "proc"
    BY <1>9, <2>1, <2>2 DEF Execute, Switch
  <2>3. CASE Head(queue).verb = "closeproc"
    BY <1>9, <2>1, <2>3 DEF Execute
  <2> QED
    BY <1>9, <2>2, <2>3 DEF Execute
<1>10. CASE Frame
  <2>1. [verb |-> "proc", id |-> selected] \in Command
    BY DEF Command
  <2>2. queue' \in Seq(Command) /\ Len(queue') <= MaxQueue
        /\ requested' \in Ids \cup {None}
    <3>1. CASE Ask
      <4>1. queue' = Append(queue, [verb |-> "proc", id |-> selected]) /\ requested' = selected
            /\ Len(queue) < MaxQueue
        BY <1>10, <3>1 DEF Frame
      <4>2. selected \in Ids /\ queue \in Seq(Command)
        OBVIOUS
      <4> HIDE DEF TypeOK
      <4> QED
        BY <2>1, <4>1, <4>2
    <3>2. CASE ~Ask
      BY <1>10, <3>2 DEF Frame
    <3> QED
      BY <3>1, <3>2
  <2>3. selected' \in Ids
    BY <1>10 DEF Frame
  <2> QED
    BY <1>10, <2>2, <2>3 DEF Frame
<1>11. ASSUME NEW c \in Command, Type(c) PROVE TypeOK'
  BY <1>11 DEF Type
<1>12. CASE UNCHANGED vars
  BY <1>12 DEF vars
<1> QED
  BY <1>1, <1>2, <1>3, <1>4, <1>5, <1>6, <1>7, <1>8, <1>9, <1>10, <1>11,
     <1>12 DEF Next

\* Type correctness, and that a stopped target is one of a session.
THEOREM TypeCorrect == Spec => []TypeOK
  BY InitTypes, NextTypes, PTL DEF Spec

-----------------------------------------------------------------------------
LEMMA InitTabs == Init => TabsMatchLive
  BY DEF Init, TabsMatchLive, AliveTabs

LEMMA NextTabs == TypeOK /\ TabsMatchLive /\ [Next]_vars => TabsMatchLive'
<1> SUFFICES ASSUME TypeOK, TabsMatchLive, [Next]_vars PROVE TabsMatchLive'
  OBVIOUS
<1> USE DEF TypeOK, TabsMatchLive, AliveTabs, engine, session, mirror, gui
<1>1. ASSUME NEW p \in Ids, Stop(p) PROVE TabsMatchLive'
  <2>1. tabs' = TabsOfLive /\ live' = live
    BY <1>1 DEF Stop, SyncProcesses
  <2>2. \A q \in Ids : tabs'[q] = "alive" <=> q \in live
    BY <2>1 DEF TabsOfLive
  <2> QED
    BY <2>1, <2>2
<1>2. ASSUME NEW p \in Ids, Spawn(p) PROVE TabsMatchLive'
  BY <1>2 DEF Spawn
<1>3. ASSUME NEW p \in Ids, Exit(p) PROVE TabsMatchLive'
  <2>1. CASE live = {p}
    BY <1>3, <2>1 DEF Exit, Ended, TabsDead
  <2>2. CASE live # {p}
    <3>1. tabs'[p] # "alive" /\ \A q \in Ids \ {p} : tabs'[q] = tabs[q]
      BY <1>3, <2>2 DEF Exit
    <3> QED
      BY <1>3, <2>2, <3>1 DEF Exit
  <2> QED
    BY <2>1, <2>2
<1>4. ASSUME NEW p \in Ids, Start(p) PROVE TabsMatchLive'
  BY <1>4 DEF Start
<1>5. CASE \E p \in Ids : Click(p) \/ CloseTab(p)
  BY <1>5 DEF Click, CloseTab
<1>6. CASE Resume
  BY <1>6 DEF Resume
<1>7. CASE Kill
  BY <1>7 DEF Kill, Ended, TabsDead
<1>8. CASE Execute
  <2>1. \A q \in Ids : tabs'[q] = "alive" <=> tabs[q] = "alive"
    BY <1>8 DEF Execute
  <2> QED
    BY <1>8, <2>1 DEF Execute
<1>9. CASE Frame
  BY <1>9 DEF Frame
<1>10. CASE \E c \in Command : Type(c)
  BY <1>10 DEF Type
<1>11. CASE UNCHANGED vars
  BY <1>11 DEF vars
<1> QED
  BY <1>1, <1>2, <1>3, <1>4, <1>5, <1>6, <1>7, <1>8, <1>9, <1>10, <1>11 DEF Next

\* No tab is marked alive whose process is gone, and at a stop every process
\* has one, however processes start and exit between the stops.
THEOREM TabsAlwaysMatch == Spec => []TabsMatchLive
  BY TypeCorrect, InitTabs, NextTabs, PTL DEF Spec

-----------------------------------------------------------------------------
LEMMA InitShown == Init => ShownIsCurrent
  BY DEF Init, ShownIsCurrent

LEMMA NextShown == TypeOK /\ ShownIsCurrent /\ [Next]_vars => ShownIsCurrent'
<1> SUFFICES ASSUME TypeOK, ShownIsCurrent, [Next]_vars PROVE ShownIsCurrent'
  OBVIOUS
<1> USE DEF ShownIsCurrent, engine, session, mirror, gui
<1>1. ASSUME NEW p \in Ids, Stop(p) PROVE ShownIsCurrent'
  BY <1>1 DEF Stop, SyncProcesses, CurrentAfterNaming
<1>2. CASE \E p \in Ids : Spawn(p) \/ Exit(p) \/ Start(p)
  BY <1>2 DEF Spawn, Exit, Ended, Start
<1>3. CASE \E p \in Ids : Click(p) \/ CloseTab(p)
  BY <1>3 DEF Click, CloseTab
<1>4. CASE Resume \/ Kill
  BY <1>4 DEF Resume, Kill, Ended
<1>5. CASE Execute
  BY <1>5 DEF Execute, Switch
<1>6. CASE Frame
  BY <1>6 DEF Frame
<1>7. CASE \E c \in Command : Type(c)
  BY <1>7 DEF Type
<1>8. CASE UNCHANGED vars
  BY <1>8 DEF vars
<1> QED
  BY <1>1, <1>2, <1>3, <1>4, <1>5, <1>6, <1>7, <1>8 DEF Next

\* At a stop currentProcEngineId is the engine's current process, and the panes are
\* of it, or of process 0 when naming others took the engine away from that.
THEOREM ShownAlwaysCurrent == Spec => []ShownIsCurrent
  BY TypeCorrect, InitShown, NextShown, PTL DEF Spec
=============================================================================
