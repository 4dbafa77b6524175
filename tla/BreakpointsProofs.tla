-------------------------- MODULE BreakpointsProofs --------------------------
(***************************************************************************)
(* Proofs about Breakpoints, for every set of symbols, addresses and       *)
(* numbers, and any number of sessions.  The inductive invariant IInv says *)
(* that in a session DbgHost entered with nothing remembered, the engine's *)
(* breakpoints fall into three classes that the code can tell apart: the   *)
(* one named by m_entryBpId, the one named by m_stepOutBpId, and the ones  *)
(* the user owns; what a failed call left behind is none of them.          *)
(***************************************************************************)
EXTENDS Breakpoints, TLAPS

\* DbgHost's two numbers name its own breakpoints, and nothing else.
Tracked ==
    (target # "none" /\ clean) =>
        \A i \in Ids : /\ Owned(i) = "entry" <=> i = entryBpId
                       /\ Owned(i) = "out" <=> i = stepOutBpId

\* The user owns the rest.
ToldOwned == clean => \A i \in Ids : i \in told <=> Owned(i) \in {"user", "pending"}

Listed == target = "stopped" => rows = Shown

\* What keeps DbgHost from having no breakpoint at p: one is in place, one is
\* queued for a load that will find it or for the engine, or a named cause.
Covered(p) == \/ InPlace(p) \/ p \in lostAt
              \/ p \in Symbols /\ pending[p] = "waiting" /\ (~loaded \/ p \notin Exports)

Waiting == clean => \A p \in wanted : Covered(p)

\* Nothing outlives a session in the engine.
Gone == target = "none" => /\ \A i \in Ids : bps[i] = Free
                           /\ told = {} /\ wanted = {} /\ ~loaded

\* p.armed is of this session, and of an export that is still loaded or was lost.
Unarmed == (clean /\ target # "none") =>
              \A s \in Symbols : pending[s] = "armed" => s \in Exports /\ (loaded \/ s \in lostAt)

\* The entry point is armed at the loader break, once.
Unentered == (clean /\ target # "none" /\ expectInitialBreak) => entryBpId = NoId

\* What a call that failed left behind has no offset to be listed by, unless it
\* is a hardware breakpoint.
Unlisted == "data" \notin Fails => \A i \in Ids : Owned(i) = "stray" => ~bps[i].offset

Parts == Tracked /\ ToldOwned /\ Waiting /\ Gone /\ Unarmed /\ Unentered /\ Unlisted

IInv == TypeOK /\ Listed /\ Parts

-----------------------------------------------------------------------------
\* The assumption, without what it says of verbs.
LEMMA Basics == /\ Exports \subseteq Symbols
                /\ Entry \in Addrs /\ NoId \notin Ids /\ Free \notin Bp
                /\ MaxSessions \in Nat
  BY BreakpointsAssumption DEF BreakpointsAssumption

\* A stray breakpoint is not a free number, nor one of the user's.
LEMMA Strays == \A r \in BOOLEAN : /\ Stray(r) \in {Stray(TRUE), Stray(FALSE)}
                                   /\ Stray(r) # Free
                                   /\ Stray(r).owner = "stray" /\ Stray(r).offset = r
                                   /\ Stray(r) \notin Bp
  BY DEF Stray, Free, Bp, Owners

\* What an assignment of a truth value gives: the SMT backend needs to be told.
LEMMA TruthValues == \A x : x = TRUE \/ x = FALSE => x \in BOOLEAN
  BY Zenon

\* The invariant holds initially.
LEMMA InitIInv == Init => IInv
<1> SUFFICES ASSUME Init PROVE IInv
  OBVIOUS
<1>1. TypeOK
  BY Basics, TruthValues DEF Init, TypeOK
<1>2. Tracked /\ Listed /\ Waiting /\ Unarmed /\ Unentered
  BY DEF Init, Tracked, Listed, Waiting, Unarmed, Unentered
<1>3. ToldOwned
  BY DEF Init, ToldOwned, Owned
<1>4. Gone /\ Unlisted
  BY DEF Init, Gone, Unlisted, Owned
<1> QED
  BY <1>1, <1>2, <1>3, <1>4 DEF IInv, Parts

\* Each step keeps the types.
LEMMA NextTypeOK == TypeOK /\ [Next]_vars => TypeOK'
<1> SUFFICES ASSUME TypeOK, [Next]_vars PROVE TypeOK'
  OBVIOUS
<1> USE Basics, TruthValues DEF TypeOK
<1>1. CASE Launch
  BY <1>1 DEF Launch, EndSession, SessionStarted, host
<1>2. CASE Restart
  BY <1>2 DEF Restart, EndSession, SessionStarted
<1>3. CASE Kill
  BY <1>3 DEF Kill, EndSession, SyncOptions, host, once
<1>4. CASE Exit
  BY <1>4 DEF Exit, EndSession, SyncOptions, host, once
<1>5. CASE BreakEntry
  BY <1>5 DEF BreakEntry, host, ghosts, edits
<1>6. ASSUME NEW p \in Places, SetBp(p) PROVE TypeOK'
  BY <1>6 DEF SetBp, SetResolved, SetDeferred, SetExpression, Set, FreeIds, SyncOptions, Shown, Bp, Owners,
     once
<1>16. ASSUME NEW p \in Places, SetFails(p) PROVE TypeOK'
  <2>1. PICK i \in FreeIds, f \in Fails \ {"module"} : bps' = [bps EXCEPT ![i] = Stray(f = "data")]
    BY <1>16 DEF SetFails
  <2>2. Stray(f = "data") \in {Stray(TRUE), Stray(FALSE)}
    BY Strays
  <2>3. bps' \in [Ids -> Bp \cup {Stray(TRUE), Stray(FALSE), Free}]
    BY <2>1, <2>2 DEF FreeIds
  <2>4. UNCHANGED <<target, loaded, sessions, host, once, ghosts>> /\ SyncOptions
    BY <1>16 DEF SetFails
  <2> QED
    BY <2>3, <2>4 DEF SyncOptions, Shown, host, once, ghosts, edits
<1>17. CASE StepOutFails
  <2>1. Cleared \in [Ids -> Bp \cup {Stray(TRUE), Stray(FALSE), Free}]
    BY DEF Cleared
  <2>2. bps' \in [Ids -> Bp \cup {Stray(TRUE), Stray(FALSE), Free}]
    BY <1>17, <2>1 DEF StepOutFails
  <2> QED
    BY <1>17, <2>2 DEF StepOutFails, SyncOptions, Shown, once, ghosts, edits
<1>7. ASSUME NEW i \in Ids, ClearBp(i) PROVE TypeOK'
  BY <1>7 DEF ClearBp, Clear, SyncOptions, Shown, host, once
<1>8. ASSUME NEW i \in Ids, Hit(i) PROVE TypeOK'
  BY <1>8 DEF Hit, SyncOptions, Shown, once, ghosts, edits
<1>9. ASSUME NEW a \in Addrs, StepOut(a) PROVE TypeOK'
  BY <1>9 DEF StepOut, Cleared, Bp, Owners, Places, once, ghosts, edits
<1>10. CASE Go
  BY <1>10 DEF Go, host, once, ghosts, edits
<1>11. CASE LoaderBreak
  BY <1>11, Strays DEF LoaderBreak, ArmEntryBreakpoint, Set, FreeIds, SyncOptions, Shown, Bp, Owners, Places, ghosts, edits
<1>12. CASE Stop
  BY <1>12 DEF Stop, SyncOptions, Shown, host, once, ghosts, edits
<1>13. CASE LoadModule
  <2> DEFINE waiting == {s \in Exports : pending[s] = "waiting"}
             deferred == {i \in Ids : bps[i] # Free /\ bps[i].owner # "stray" /\ ~bps[i].offset}
  <2>1. PICK id \in [waiting -> FreeIds], resolved \in SUBSET deferred, failed \in SUBSET waiting :
          /\ \A s, t \in waiting : id[s] = id[t] => s = t
          /\ failed # {} => "module" \in Fails
          /\ bps' = [i \in Ids |->
                IF i \in {id[s] : s \in waiting}
                THEN IF (CHOOSE s \in waiting : id[s] = i) \in failed
                     THEN Stray(FALSE)
                     ELSE [owner |-> "pending", at |-> CHOOSE s \in waiting : id[s] = i,
                           offset |-> TRUE]
                ELSE IF i \in resolved THEN [bps[i] EXCEPT !.offset = TRUE] ELSE bps[i]]
          /\ told' = told \cup {id[s] : s \in waiting \ failed}
          /\ lostAt' = lostAt \cup failed
    BY <1>13 DEF LoadModule, ResolvePending
  <2>2. bps' \in [Ids -> Bp \cup {Stray(TRUE), Stray(FALSE), Free}]
    <3> SUFFICES ASSUME NEW i \in Ids PROVE bps'[i] \in Bp \cup {Stray(TRUE), Stray(FALSE), Free}
      BY <2>1
    <3>1. CASE i \in {id[s] : s \in waiting}
      <4>1. \E s \in waiting : id[s] = i
        BY <3>1
      <4>2. (CHOOSE s \in waiting : id[s] = i) \in Symbols
        BY <4>1
      <4> QED
        BY <2>1, <3>1, <4>2 DEF Bp, Owners, Places
    <3>2. CASE i \notin {id[s] : s \in waiting} /\ i \in resolved
      <4>1. bps[i] \in Bp
        BY <3>2, Strays
      <4> QED
        BY <2>1, <3>2, <4>1 DEF Bp
    <3>3. CASE i \notin {id[s] : s \in waiting} /\ i \notin resolved
      BY <2>1, <3>3
    <3> QED
      BY <3>1, <3>2, <3>3
  <2>3. told' \subseteq Ids
    BY <2>1 DEF FreeIds
  <2>4. pending' \in [Symbols -> {"no", "waiting", "armed"}]
    BY <1>13 DEF LoadModule, ResolvePending
  <2>7. lostAt' \subseteq Symbols
    BY <2>1
  <2>5. rows' \subseteq Ids
    BY <1>13, <2>2 DEF LoadModule, SyncOptions, Shown
  <2>6. /\ target' \in {"running", "stopped"} /\ loaded' \in BOOLEAN
        /\ UNCHANGED <<sessions, entryBpId, stepOutBpId, once, clean, wanted>>
    BY <1>13 DEF LoadModule, ResolvePending
  <2> QED
    BY <2>2, <2>3, <2>4, <2>5, <2>6, <2>7 DEF once
<1>18. CASE UnloadModule
  <2>1. PICK gone \in SUBSET {i \in Ids : bps[i] \in Bp /\ bps[i].at \in Symbols} :
          bps' = [i \in Ids |-> IF i \in gone THEN [bps[i] EXCEPT !.offset = FALSE] ELSE bps[i]]
    BY <1>18 DEF UnloadModule
  <2>2. bps' \in [Ids -> Bp \cup {Stray(TRUE), Stray(FALSE), Free}]
    BY <2>1 DEF Bp
  <2> QED
    BY <1>18, <2>2 DEF UnloadModule, Spent, host, once
<1>14. CASE UNCHANGED vars
  BY <1>14 DEF vars, host, once, ghosts, edits
<1>15. QED
  BY <1>1, <1>2, <1>3, <1>4, <1>5, <1>6, <1>7, <1>8, <1>9, <1>10, <1>11, <1>12, <1>13, <1>14,
     <1>16, <1>17, <1>18 DEF Next

-----------------------------------------------------------------------------
\* The list of the GUI is fresh at every stop.
LEMMA NextListed == IInv /\ [Next]_vars => Listed'
<1> SUFFICES ASSUME IInv, [Next]_vars PROVE Listed'
  OBVIOUS
<1> USE DEF IInv, TypeOK, Listed
<1>1. CASE Launch \/ Restart
  BY <1>1 DEF Launch, Restart, SessionStarted
<1>2. CASE SyncOptions
  BY <1>2 DEF SyncOptions
<1>3. CASE BreakEntry
  BY <1>3 DEF BreakEntry, host, ghosts, Shown
<1>4. CASE Go
  BY <1>4 DEF Go
<1>5. ASSUME NEW a \in Addrs, StepOut(a) PROVE Listed'
  BY <1>5 DEF StepOut
<1>6. CASE UNCHANGED vars
  BY <1>6 DEF vars, host, Shown
<1>7. CASE UnloadModule
  BY <1>7 DEF UnloadModule
<1> QED
  BY <1>1, <1>2, <1>3, <1>4, <1>5, <1>6, <1>7
     DEF Next, Kill, Exit, SetBp, SetFails, StepOutFails, ClearBp, Clear, LoaderBreak, Stop, Hit, LoadModule

\* A session that starts or ends starts or ends with nothing in the engine.
LEMMA SessionParts ==
  ASSUME IInv, Launch \/ Restart \/ Kill \/ Exit
  PROVE  Parts'
<1>1. EndSession
  BY DEF Launch, Restart, Kill, Exit
<1>2. ToldOwned' /\ Waiting' /\ Gone' /\ Unlisted'
  BY <1>1 DEF EndSession, ToldOwned, Waiting, Gone, Unlisted, Owned
<1>3. CASE Launch \/ Restart
  <2>1. clean' => /\ entryBpId' = NoId /\ stepOutBpId' = NoId
                  /\ \A s \in Symbols : pending'[s] = "no"
    BY <1>3 DEF Launch, Restart, SessionStarted
  <2> QED
    BY <1>1, <1>2, <2>1, Basics DEF EndSession, Tracked, Owned, Unarmed, Unentered, Parts
<1>4. CASE Kill \/ Exit
  BY <1>2, <1>4 DEF Kill, Exit, Tracked, Unarmed, Unentered, Parts
<1> QED
  BY <1>3, <1>4

\* Steps that only run or stop the target.
LEMMA RunParts ==
  ASSUME IInv, BreakEntry \/ Go \/ Stop \/ UNCHANGED vars
  PROVE  Parts'
<1>1. /\ UNCHANGED <<loaded, bps, host, ghosts, expectInitialBreak>>
      /\ target' = "none" => target = "none"
      /\ target = "none" => target' = "none"
  BY DEF BreakEntry, Go, Stop, vars, ghosts, once
<1> QED
  BY <1>1 DEF IInv, Parts, Tracked, ToldOwned, Waiting, Gone, Unarmed, Unentered, Unlisted, Owned,
     Covered, InPlace, host, ghosts, edits

\* bp: the user owns one more.
LEMMA SetParts ==
  ASSUME IInv, NEW p \in Places, SetBp(p)
  PROVE  Parts'
<1> USE DEF IInv, TypeOK, Parts
<1>1. PICK i \in FreeIds, r \in BOOLEAN :
        /\ bps' = [bps EXCEPT ![i] = [owner |-> "user", at |-> p, offset |-> r]]
        /\ told' = told \cup {i}
        /\ p \in Symbols /\ ~loaded => ~r
        /\ ~r => p \in Symbols /\ ~(loaded /\ p \in Exports)
        /\ \/ pending' = pending /\ r
           \/ /\ p \in Symbols /\ ~(loaded /\ p \in Exports)
              /\ pending' = [pending EXCEPT ![p] = IF @ = "no" THEN "waiting" ELSE @]
  <2>1. CASE SetResolved(p)
    BY <2>1 DEF SetResolved, Set
  <2>2. CASE SetDeferred(p)
    <3>1. PICK i \in FreeIds, r \in BOOLEAN :
            (r => loaded) /\ Set(i, "user", p, r) /\ told' = told \cup {i}
      BY <2>2 DEF SetDeferred, SetExpression
    <3> QED
      BY <2>2, <3>1 DEF SetDeferred, SetExpression, Set
  <2> QED
    BY <2>1, <2>2 DEF SetBp
<1>2. /\ UNCHANGED <<target, loaded, entryBpId, stepOutBpId, clean, expectInitialBreak>>
      /\ target # "none" /\ wanted' = wanted \cup {p}
      /\ lostAt' = IF p \in Symbols /\ ~loaded /\ pending[p] = "armed" THEN lostAt
                   ELSE lostAt \ {p}
  BY DEF SetBp, once
<1>3. /\ i \in Ids /\ bps[i] = Free
      /\ bps'[i] = [owner |-> "user", at |-> p, offset |-> r] /\ bps'[i] # Free
      /\ \A j \in Ids \ {i} : bps'[j] = bps[j]
  <2>1. [owner |-> "user", at |-> p, offset |-> r] \in Bp
    BY DEF Bp, Owners
  <2> QED
    BY <1>1, <2>1, Basics DEF FreeIds
<1>4. Tracked' /\ ToldOwned' /\ Gone' /\ Unlisted'
  BY <1>1, <1>2, <1>3 DEF Tracked, ToldOwned, Gone, Unlisted, Owned
<1>5. Unarmed' /\ Unentered'
  BY <1>1, <1>2 DEF Unarmed, Unentered
<1>6. ASSUME clean, NEW q \in wanted'
      PROVE  Covered(q)'
  <2>1. CASE q \in wanted /\ InPlace(q)
    BY <1>1, <1>3, <2>1 DEF InPlace, Covered
  <2>2. CASE q # p /\ q \in wanted /\ ~InPlace(q)
    BY <1>1, <1>2, <1>6, <2>2 DEF Waiting, Covered
  <2>3. CASE q = p /\ r
    BY <1>1, <1>3, <2>3 DEF InPlace, Covered
  <2>4. CASE q = p /\ ~r
    BY <1>1, <1>2, <1>6, <2>4 DEF Unarmed, Covered
  <2> QED
    BY <1>2, <1>6, <2>1, <2>2, <2>3, <2>4
<1> QED
  BY <1>2, <1>4, <1>5, <1>6 DEF Waiting

\* A stray breakpoint in a free number is nobody's.
LEMMA StrayAdded ==
  ASSUME IInv, NEW i \in Ids, bps[i] = Free, NEW r \in BOOLEAN, r => "data" \in Fails,
         bps' = [bps EXCEPT ![i] = Stray(r)],
         UNCHANGED <<loaded, host, clean, told, wanted, lostAt>>,
         target # "none", target' # "none", expectInitialBreak' => expectInitialBreak
  PROVE  Parts'
<1> USE DEF IInv, TypeOK, Parts
<1>1. /\ bps'[i] # Free /\ Owned(i)' = "stray" /\ Owned(i) = "free" /\ bps'[i].offset = r
      /\ \A j \in Ids \ {i} : bps'[j] = bps[j] /\ Owned(j)' = Owned(j)
  BY Strays DEF Owned
<1>2. Tracked' /\ ToldOwned' /\ Gone' /\ Unarmed' /\ Unentered'
  BY <1>1 DEF Tracked, ToldOwned, Gone, Unarmed, Unentered, host
<1>3. Unlisted'
  BY <1>1 DEF Unlisted
<1>4. ASSUME clean PROVE i \notin told
  BY <1>1, <1>4 DEF ToldOwned
<1>5. Waiting'
  BY <1>1, <1>4 DEF Waiting, Covered, InPlace, host
<1> QED
  BY <1>2, <1>3, <1>5

\* A bp, he, hr or hw that fails.
LEMMA FailParts ==
  ASSUME IInv, NEW p \in Places, SetFails(p)
  PROVE  Parts'
<1>1. PICK i \in FreeIds, f \in Fails \ {"module"} : bps' = [bps EXCEPT ![i] = Stray(f = "data")]
  BY DEF SetFails
<1>2. (f = "data") \in BOOLEAN /\ ((f = "data") => "data" \in Fails)
  BY <1>1
<1> QED
  BY <1>1, <1>2, StrayAdded DEF SetFails, FreeIds, ghosts, edits, once

\* bc: the user gives up the place.
LEMMA ClearParts ==
  ASSUME IInv, NEW i \in Ids, Clear(i), i \in told
  PROVE  Parts'
<1> USE DEF IInv, TypeOK, Parts
<1>1. /\ UNCHANGED <<target, loaded, pending, entryBpId, stepOutBpId, clean, lostAt>>
      /\ UNCHANGED expectInitialBreak
      /\ target # "none" /\ bps' = [bps EXCEPT ![i] = Free] /\ told' = told \ {i}
      /\ wanted' = wanted \ {bps[i].at}
  BY DEF Clear, host, once
<1>2. Tracked' /\ ToldOwned' /\ Gone' /\ Unarmed' /\ Unentered' /\ Unlisted'
  BY <1>1 DEF Tracked, ToldOwned, Gone, Unarmed, Unentered, Unlisted, Owned
<1>3. Waiting'
  BY <1>1 DEF Waiting, Covered, InPlace
<1> QED
  BY <1>2, <1>3

\* tr: the old step-out breakpoint, if any, makes way for a new one.
LEMMA StepOutParts ==
  ASSUME IInv, NEW ret \in Addrs, StepOut(ret)
  PROVE  Parts'
<1> USE DEF IInv, TypeOK, Parts
<1>1. PICK i \in Ids :
        /\ Cleared[i] = Free
        /\ bps' = [Cleared EXCEPT ![i] = [owner |-> "out", at |-> ret, offset |-> TRUE]]
        /\ stepOutBpId' = i
  BY DEF StepOut
<1>2. /\ UNCHANGED <<loaded, pending, entryBpId, clean, told, wanted, lostAt, expectInitialBreak>>
      /\ target # "none" /\ target' = "running"
  BY DEF StepOut, ghosts, edits, once
<1>3. [owner |-> "out", at |-> ret, offset |-> TRUE] # Free
  <2>1. [owner |-> "out", at |-> ret, offset |-> TRUE] \in Bp
    BY DEF Bp, Owners, Places
  <2> QED
    BY <2>1, Basics
<1>4. /\ bps'[i] = [owner |-> "out", at |-> ret, offset |-> TRUE]
      /\ Owned(i)' = "out"
      /\ \A j \in Ids \ {i} : j = stepOutBpId => bps'[j] = Free /\ Owned(j)' = "free"
      /\ \A j \in Ids \ {i} : j # stepOutBpId => bps'[j] = bps[j] /\ Owned(j)' = Owned(j)
      /\ i = stepOutBpId \/ Owned(i) = "free"
  <2>1. bps'[i] = [owner |-> "out", at |-> ret, offset |-> TRUE]
    BY <1>1 DEF Cleared
  <2>2. \A j \in Ids \ {i} : bps'[j] = IF j = stepOutBpId THEN Free ELSE bps[j]
    BY <1>1, Basics DEF Cleared
  <2>3. i = stepOutBpId \/ bps[i] = Free
    BY <1>1 DEF Cleared
  <2> QED
    BY <1>3, <2>1, <2>2, <2>3 DEF Owned
<1>5. ASSUME clean PROVE \A j \in told : bps'[j] = bps[j] /\ j # i
  BY <1>2, <1>4, <1>5 DEF ToldOwned, Tracked
<1>6. Tracked'
  BY <1>1, <1>2, <1>4 DEF Tracked, Owned
<1>7. ToldOwned'
  BY <1>1, <1>2, <1>4 DEF ToldOwned, Tracked, Owned
<1>8. Waiting'
  BY <1>2, <1>5 DEF Waiting, Covered, InPlace
<1>9. Unlisted'
  BY <1>4 DEF Unlisted
<1> QED
  BY <1>2, <1>6, <1>7, <1>8, <1>9 DEF Gone, Unarmed, Unentered

\* tr that fails: the old step-out breakpoint is gone, and there is no new one.
LEMMA StepOutFailsParts ==
  ASSUME IInv, StepOutFails
  PROVE  Parts'
<1> USE DEF IInv, TypeOK, Parts
<1>1. /\ UNCHANGED <<target, loaded, pending, entryBpId, clean, told, wanted, lostAt, expectInitialBreak>>
      /\ target # "none" /\ stepOutBpId' = NoId
  BY DEF StepOutFails, ghosts, edits, once
<1>2. /\ \A j \in Ids : j = stepOutBpId => Owned(j)' \in {"free", "stray"}
      /\ \A j \in Ids : j # stepOutBpId =>
            (bps'[j] = bps[j] \/ (bps[j] = Free /\ bps'[j] = Stray(FALSE)))
      /\ \A j \in Ids : j = stepOutBpId => bps'[j] \in {Free, Stray(FALSE)}
  <2>1. CASE bps' = Cleared
    BY <2>1, Basics DEF Cleared, Owned
  <2>2. ASSUME NEW i \in Ids, Cleared[i] = Free, bps' = [Cleared EXCEPT ![i] = Stray(FALSE)]
        PROVE  /\ \A j \in Ids : j = stepOutBpId => Owned(j)' \in {"free", "stray"}
               /\ \A j \in Ids : j # stepOutBpId =>
                     (bps'[j] = bps[j] \/ (bps[j] = Free /\ bps'[j] = Stray(FALSE)))
               /\ \A j \in Ids : j = stepOutBpId => bps'[j] \in {Free, Stray(FALSE)}
    BY <2>2, Basics, Strays DEF Cleared, Owned
  <2> QED
    BY <2>1, <2>2 DEF StepOutFails
<1>3. \A j \in Ids : Owned(j)' # Owned(j) => Owned(j)' \in {"free", "stray"} /\ (j = stepOutBpId \/ Owned(j) = "free")
  BY <1>2, Strays DEF Owned
<1>4. ASSUME clean PROVE \A j \in told : bps'[j] = bps[j]
  BY <1>1, <1>2, <1>4 DEF ToldOwned, Tracked, Owned
<1>5. Tracked'
  BY <1>1, <1>2, <1>3, Basics DEF Tracked
<1>6. ToldOwned'
  BY <1>1, <1>3 DEF ToldOwned, Tracked
<1>7. Waiting'
  BY <1>1, <1>4 DEF Waiting, Covered, InPlace
<1>8. Unlisted'
  BY <1>2, Strays DEF Unlisted, Owned
<1> QED
  BY <1>1, <1>5, <1>6, <1>7, <1>8 DEF Gone, Unarmed, Unentered

\* The loader break arms the entry point, or surfaces.
LEMMA LoaderParts ==
  ASSUME IInv, LoaderBreak
  PROVE  Parts'
<1> USE DEF IInv, TypeOK, Parts
<1>1. /\ UNCHANGED <<loaded, pending, stepOutBpId, clean, told, wanted, lostAt>>
      /\ target = "running" /\ target' # "none"
      /\ expectInitialBreak /\ ~expectInitialBreak'
  BY DEF LoaderBreak, ghosts, edits
<1>2. CASE UNCHANGED <<bps, entryBpId>>
  BY <1>1, <1>2 DEF Tracked, ToldOwned, Waiting, Gone, Unarmed, Unentered, Unlisted, Owned, Covered, InPlace
<1>4. ASSUME NEW i \in FreeIds, bps' = [bps EXCEPT ![i] = Stray(FALSE)], UNCHANGED entryBpId
      PROVE  Parts'
  BY <1>1, <1>4, StrayAdded DEF FreeIds, host
<1>3. ASSUME NEW i \in FreeIds, Set(i, "entry", Entry, TRUE), entryBpId' = i,
             clean => entryBpId = NoId
      PROVE  Parts'
  <2>1. [owner |-> "entry", at |-> Entry, offset |-> TRUE] # Free
    <3>1. [owner |-> "entry", at |-> Entry, offset |-> TRUE] \in Bp
      BY Basics DEF Bp, Owners, Places
    <3> QED
      BY <3>1, Basics
  <2>2. /\ i \in Ids /\ Owned(i) = "free" /\ Owned(i)' = "entry"
        /\ \A j \in Ids \ {i} : bps'[j] = bps[j] /\ Owned(j)' = Owned(j)
    BY <1>3, <2>1 DEF FreeIds, Set, Owned
  <2>3. Tracked'
    BY <1>1, <1>3, <2>2, Basics DEF Tracked
  <2>4. ToldOwned'
    BY <1>1, <2>2 DEF ToldOwned
  <2>5. Waiting'
    BY <1>1, <2>2 DEF Waiting, Covered, InPlace, ToldOwned
  <2>6. Unlisted'
    BY <2>2 DEF Unlisted
  <2> QED
    BY <1>1, <2>3, <2>4, <2>5, <2>6 DEF Gone, Unarmed, Unentered
<1> QED
  BY <1>1, <1>2, <1>3, <1>4 DEF LoaderBreak, ArmEntryBreakpoint, Unentered

\* A hit clears the breakpoint at the entry point and no other.
LEMMA HitParts ==
  ASSUME IInv, NEW i \in Ids, Hit(i)
  PROVE  Parts'
<1> USE DEF IInv, TypeOK, Parts
<1>1. /\ UNCHANGED <<loaded, pending, stepOutBpId, clean, told, wanted, lostAt>>
      /\ target = "running" /\ target' = "stopped"
      /\ ~expectInitialBreak /\ ~expectInitialBreak'
  BY DEF Hit, ghosts, edits, once
<1>2. CASE i = entryBpId
  <2>1. bps' = [bps EXCEPT ![i] = Free] /\ entryBpId' = NoId
    BY <1>2 DEF Hit
  <2>2. clean => i \notin told
    BY <1>1, <1>2 DEF Tracked, ToldOwned
  <2>3. Tracked' /\ ToldOwned' /\ Gone' /\ Unarmed' /\ Unentered' /\ Unlisted'
    BY <1>1, <1>2, <2>1, Basics DEF Tracked, ToldOwned, Gone, Unarmed, Unentered, Unlisted, Owned
  <2>4. Waiting'
    BY <1>1, <2>1, <2>2 DEF Waiting, Covered, InPlace
  <2> QED
    BY <2>3, <2>4
<1>3. CASE i # entryBpId
  <2>1. bps' = bps /\ entryBpId' = entryBpId
    BY <1>3 DEF Hit
  <2> QED
    BY <1>1, <2>1 DEF Tracked, ToldOwned, Waiting, Gone, Unarmed, Unentered, Unlisted, Owned, Covered, InPlace
<1> QED
  BY <1>2, <1>3

\* A module loads: what was queued is in place.
LEMMA LoadParts ==
  ASSUME IInv, LoadModule
  PROVE  Parts'
<1> USE DEF IInv, TypeOK, Parts
<1> DEFINE waiting == {s \in Exports : pending[s] = "waiting"}
           deferred == {i \in Ids : bps[i] # Free /\ bps[i].owner # "stray" /\ ~bps[i].offset}
<1>1. PICK id \in [waiting -> FreeIds], resolved \in SUBSET deferred, failed \in SUBSET waiting :
        /\ \A s, t \in waiting : id[s] = id[t] => s = t
        /\ failed # {} => "module" \in Fails
        /\ bps' = [i \in Ids |->
              IF i \in {id[s] : s \in waiting}
              THEN IF (CHOOSE s \in waiting : id[s] = i) \in failed
                   THEN Stray(FALSE)
                   ELSE [owner |-> "pending", at |-> CHOOSE s \in waiting : id[s] = i,
                         offset |-> TRUE]
              ELSE IF i \in resolved THEN [bps[i] EXCEPT !.offset = TRUE] ELSE bps[i]]
        /\ told' = told \cup {id[s] : s \in waiting \ failed}
        /\ lostAt' = lostAt \cup failed
  BY DEF LoadModule, ResolvePending
<1>2. /\ UNCHANGED <<entryBpId, stepOutBpId, clean, wanted, expectInitialBreak>>
      /\ target = "running" /\ target' # "none" /\ loaded' /\ ~loaded
  BY DEF LoadModule, once
<1>3. ASSUME NEW s \in waiting
      PROVE  /\ id[s] \in Ids /\ Owned(id[s]) = "free"
             /\ id[s] \in {id[t] : t \in waiting \ failed} <=> s \notin failed
             /\ s \in failed => /\ Owned(id[s])' = "stray" /\ ~bps'[id[s]].offset
             /\ s \notin failed => /\ bps'[id[s]] # Free /\ Owned(id[s])' = "pending"
                                  /\ bps'[id[s]].at = s /\ bps'[id[s]].offset
  <2>1. id[s] \in Ids /\ Owned(id[s]) = "free"
    BY DEF FreeIds, Owned
  <2>2. (CHOOSE t \in waiting : id[t] = id[s]) = s
    BY <1>1
  <2>3. id[s] \in {id[t] : t \in waiting \ failed} <=> s \notin failed
    BY <1>1
  <2>4. CASE s \in failed
    <3>1. bps'[id[s]] = Stray(FALSE)
      BY <1>1, <2>1, <2>2, <2>4
    <3> QED
      BY <2>1, <2>3, <2>4, <3>1, Strays DEF Owned
  <2>5. CASE s \notin failed
    <3>1. bps'[id[s]] = [owner |-> "pending", at |-> s, offset |-> TRUE]
      BY <1>1, <2>1, <2>2, <2>5
    <3>2. [owner |-> "pending", at |-> s, offset |-> TRUE] \in Bp
      BY Basics DEF Bp, Owners, Places
    <3>3. bps'[id[s]] # Free
      BY <3>1, <3>2, Basics
    <3>4. bps'[id[s]].owner = "pending" /\ bps'[id[s]].at = s /\ bps'[id[s]].offset
      BY <3>1
    <3> QED
      BY <2>1, <2>3, <2>5, <3>3, <3>4 DEF Owned
  <2> QED
    BY <2>4, <2>5
<1>4. ASSUME NEW i \in Ids, i \notin {id[s] : s \in waiting}
      PROVE  /\ Owned(i)' = Owned(i)
             /\ bps[i] # Free => /\ bps'[i] # Free /\ bps'[i].at = bps[i].at
                                 /\ bps[i].offset => bps'[i].offset
             /\ Owned(i) = "stray" => bps'[i] = bps[i]
  <2>1. CASE i \in resolved
    <3>1. bps[i] \in Bp /\ bps'[i] = [bps[i] EXCEPT !.offset = TRUE]
      BY <1>1, <1>4, <2>1, Strays
    <3>2. bps'[i] \in Bp /\ bps'[i].owner = bps[i].owner /\ bps'[i].at = bps[i].at
          /\ bps'[i].offset
      BY <3>1 DEF Bp
    <3> QED
      BY <2>1, <3>1, <3>2, Basics DEF Owned
  <2>2. CASE i \notin resolved
    BY <1>1, <1>4, <2>2 DEF Owned
  <2> QED
    BY <2>1, <2>2
<1>9. \A s \in Symbols : pending'[s] = IF s \in waiting THEN "armed" ELSE pending[s]
  BY DEF LoadModule, ResolvePending
<1>10. Unarmed'
  BY <1>2, <1>9, Basics DEF Unarmed
<1>5. ToldOwned'
  <2> SUFFICES ASSUME clean, NEW i \in Ids
               PROVE  i \in told' <=> Owned(i)' \in {"user", "pending"}
    BY <1>2 DEF ToldOwned
  <2>1. ASSUME NEW s \in waiting, i = id[s] PROVE i \in told' <=> Owned(i)' \in {"user", "pending"}
    <3>1. i \notin told
      BY <1>3, <2>1 DEF ToldOwned
    <3> QED
      BY <1>1, <1>3, <2>1, <3>1
  <2>2. CASE i \notin {id[s] : s \in waiting}
    BY <1>1, <1>4, <2>2 DEF ToldOwned
  <2> QED
    BY <2>1, <2>2
<1>6. Tracked'
  <2> SUFFICES ASSUME clean, NEW i \in Ids
               PROVE  /\ Owned(i)' = "entry" <=> i = entryBpId
                      /\ Owned(i)' = "out" <=> i = stepOutBpId
    BY <1>2 DEF Tracked
  <2>1. CASE i \in {id[s] : s \in waiting}
    BY <1>2, <1>3, <2>1 DEF Tracked
  <2>2. CASE i \notin {id[s] : s \in waiting}
    BY <1>2, <1>4, <2>2 DEF Tracked
  <2> QED
    BY <2>1, <2>2
<1>7. Waiting'
  <2> SUFFICES ASSUME clean, NEW p \in wanted PROVE Covered(p)'
    BY <1>2 DEF Waiting
  <2>1. CASE InPlace(p)
    <3>1. PICK i \in told : bps[i] # Free /\ bps[i].at = p /\ bps[i].offset
      BY <2>1 DEF InPlace
    <3>2. i \notin {id[s] : s \in waiting}
      BY <1>3, <3>1 DEF Owned, ToldOwned
    <3> QED
      BY <1>1, <1>4, <3>1, <3>2 DEF InPlace, Covered
  <2>2. CASE p \in Exports /\ pending[p] = "waiting"
    <3>1. p \in waiting
      BY <2>2
    <3>2. CASE p \in failed
      BY <1>1, <3>2 DEF Covered
    <3>3. CASE p \notin failed
      BY <1>1, <1>3, <3>1, <3>3 DEF InPlace, Covered
    <3> QED
      BY <3>2, <3>3
  <2>3. CASE p \in Symbols \ Exports /\ pending[p] = "waiting"
    BY <1>2, <1>9, <2>3 DEF Covered
  <2>4. CASE p \in lostAt
    BY <1>1, <2>4 DEF Covered
  <2> QED
    BY <2>1, <2>2, <2>3, <2>4 DEF Waiting, Covered
<1>8. Unlisted'
  <2> SUFFICES ASSUME "data" \notin Fails, NEW i \in Ids, Owned(i)' = "stray"
               PROVE  ~bps'[i].offset
    BY DEF Unlisted
  <2>1. ASSUME NEW s \in waiting, i = id[s] PROVE ~bps'[i].offset
    BY <1>3, <2>1
  <2>2. CASE i \notin {id[s] : s \in waiting}
    BY <1>4, <2>2 DEF Unlisted
  <2> QED
    BY <2>1, <2>2
<1> QED
  BY <1>2, <1>5, <1>6, <1>7, <1>8, <1>10 DEF Gone, Unentered

\* A module unloads: what can no longer be armed by itself is named.
LEMMA UnloadParts ==
  ASSUME IInv, UnloadModule
  PROVE  Parts'
<1> USE DEF IInv, TypeOK, Parts
<1>1. PICK gone \in SUBSET {i \in Ids : bps[i] \in Bp /\ bps[i].at \in Symbols} :
        bps' = [i \in Ids |-> IF i \in gone THEN [bps[i] EXCEPT !.offset = FALSE] ELSE bps[i]]
  BY DEF UnloadModule
<1>2. /\ UNCHANGED <<target, pending, entryBpId, stepOutBpId, clean, told, wanted>>
      /\ UNCHANGED expectInitialBreak
      /\ target = "running" /\ ~loaded' /\ lostAt' = lostAt \cup Spent
  BY DEF UnloadModule, host, once
<1>3. ASSUME NEW i \in Ids
      PROVE  /\ bps[i] \in Bp /\ bps'[i] = [bps[i] EXCEPT !.offset = FALSE] /\ bps[i].at \in Symbols
             \/ bps'[i] = bps[i]
  BY <1>1
<1>4. ASSUME NEW i \in Ids
      PROVE  /\ Owned(i)' = Owned(i) /\ (Owned(i) = "stray" => bps'[i] = bps[i])
             /\ bps[i] # Free <=> bps'[i] # Free
  <2>1. CASE bps[i] \in Bp /\ bps'[i] = [bps[i] EXCEPT !.offset = FALSE]
    <3>1. bps'[i] \in Bp /\ bps'[i].owner = bps[i].owner /\ bps[i].owner # "stray"
      BY <2>1 DEF Bp, Owners
    <3> QED
      BY <2>1, <3>1, Basics DEF Owned
  <2> QED
    BY <1>3, <2>1 DEF Owned
<1>5. Tracked' /\ ToldOwned' /\ Gone' /\ Unentered'
  BY <1>2, <1>4 DEF Tracked, ToldOwned, Gone, Unentered
<1>6. Unlisted'
  BY <1>4 DEF Unlisted
<1>7. Unarmed'
  BY <1>2 DEF Unarmed, Spent
<1>8. ASSUME clean, NEW p \in wanted PROVE Covered(p)'
  <2>1. CASE p \in Symbols
    <3>1. pending[p] = "waiting" \/ p \in Spent
      BY <2>1 DEF Spent
    <3> QED
      BY <1>2, <2>1, <3>1 DEF Covered
  <2>2. CASE p \notin Symbols
    <3>1. PICK i \in told : bps[i] # Free /\ bps[i].at = p /\ bps[i].offset
      BY <1>8, <2>2 DEF Waiting, Covered, InPlace
    <3>2. i \in Ids /\ bps'[i] = bps[i]
      BY <1>3, <2>2, <3>1
    <3> QED
      BY <1>2, <3>1, <3>2 DEF InPlace, Covered
  <2> QED
    BY <2>1, <2>2
<1> QED
  BY <1>2, <1>5, <1>6, <1>7, <1>8 DEF Waiting


-----------------------------------------------------------------------------
\* bc names breakpoints the user was told of, not rows of a list painted
\* earlier.
UserClears == "bcrow" \notin Verbs

\* IInv is inductive.
LEMMA NextIInv == ASSUME UserClears, IInv, [Next]_vars PROVE IInv'
<1>1. TypeOK'
  BY NextTypeOK DEF IInv
<1>2. Listed'
  BY NextListed
<1>3. Parts'
  <2>1. ASSUME NEW i \in Ids, ClearBp(i) PROVE Parts'
    BY <2>1, ClearParts DEF ClearBp, UserClears
  <2> QED
    BY <2>1, SessionParts, RunParts, SetParts, FailParts, StepOutParts, StepOutFailsParts,
       LoaderParts, HitParts, LoadParts, UnloadParts DEF Next
<1> QED
  BY <1>1, <1>2, <1>3 DEF IInv

LEMMA Invariance == ASSUME UserClears PROVE Spec => []IInv
<1>1. IInv /\ [Next]_vars => IInv'
  BY NextIInv
<1> QED
  BY <1>1, InitIInv, PTL DEF Spec

-----------------------------------------------------------------------------
\* The types of the breakpoint tables, whatever bc names.
THEOREM TypeCorrect == Spec => []TypeOK
<1>1. Init => TypeOK
  BY InitIInv DEF IInv
<1> QED
  BY <1>1, NextTypeOK, PTL DEF Spec

\* m_entryBpId and m_stepOutBpId name exactly the internal breakpoints, in every
\* session DbgHost enters with nothing remembered.
THEOREM InternalAlwaysTracked == ASSUME UserClears PROVE Spec => []InternalTracked
<1>1. IInv => InternalTracked
  BY Basics DEF IInv, TypeOK, Parts, Tracked, InternalTracked
<1> QED
  BY <1>1, Invariance, PTL

\* In such a session no event takes a breakpoint away from the user.
THEOREM UserBpsAlwaysKept == ASSUME UserClears PROVE Spec => []UserBpsKept
<1>1. IInv => UserBpsKept
  BY DEF IInv, TypeOK, Parts, ToldOwned, UserBpsKept
<1> QED
  BY <1>1, Invariance, PTL

\* In such a session the list shows, at every stop, the user's breakpoints that
\* have an address, and nothing else: not even what a code breakpoint that
\* could not be set left in the engine.
THEOREM RowsAlwaysShowUsers == ASSUME UserClears, "data" \notin Fails PROVE Spec => []RowsShowUsers
<1>1. ASSUME IInv, target = "stopped", clean, NEW i \in Ids
      PROVE  i \in Shown <=> (i \in told /\ bps[i] # Free /\ bps[i].offset)
  <2>1. bps[i] # Free => Owned(i) \in Owners \/ (Owned(i) = "stray" /\ ~bps[i].offset)
    BY <1>1, Strays DEF IInv, TypeOK, Parts, Unlisted, Owned, Bp
  <2>2. bps[i] = Free => Owned(i) = "free"
    BY DEF Owned
  <2> QED
    BY <1>1, <2>1, <2>2, Basics DEF IInv, Parts, Tracked, ToldOwned, Shown, Owners
<1>2. IInv => RowsShowUsers
  BY <1>1 DEF IInv, TypeOK, Listed, Shown, RowsShowUsers
<1> QED
  BY <1>2, Invariance, PTL

\* In such a session every place the user wants has its breakpoint while the
\* module is loaded, or one of the named causes, whatever is exported, fails,
\* unloads and comes back.
THEOREM DeferredAlwaysArmed == ASSUME UserClears PROVE Spec => []DeferredArmed
<1>1. IInv => DeferredArmed
  BY DEF IInv, TypeOK, Parts, Waiting, Covered, DeferredArmed
<1> QED
  BY <1>1, Invariance, PTL
=============================================================================
