--------------------------- MODULE CliTraceProofs ---------------------------
(***************************************************************************)
(* Proofs about CliTrace, for every set of threads and sites, every bound  *)
(* and every budget.  The inductive invariant says where the one-shot      *)
(* breakpoint is while its frame is on the stack of its thread, at a site  *)
(* that calls only the traced function: no frame above that one returns    *)
(* there unrecorded, but for a call being handled.                         *)
(***************************************************************************)
EXTENDS CliTrace, SequenceTheorems, TLAPS

Known == options \in [stepOut : BOOLEAN, children : BOOLEAN, maxEvents : Budgets]

\* What PumpOneEvent can return.
Events == {NoStop} \cup {CallStop(t) : t \in Threads}
          \cup {[kind |-> k] : k \in Plain \cup {"exit"}}
          \cup {OutStop(s, t, d) : s \in Sites, t \in Threads, d \in Nat}

Shape ==
    /\ Known /\ stop \in Events
    /\ stacks \in [Threads -> Seq(Frames)] /\ \A t \in Threads : Len(stacks[t]) <= MaxDepth
    /\ status \in {"go", "break"} /\ ended \in {"no", "exit", "budget", "wait"}
    /\ breaks \in {"no", "set", "failed"} /\ hits \in Nat

\* The host knows the one-shot breakpoint, which is there only with -break.
OneShot ==
    /\ stepOutBp \in Sites \cup {NoSite} /\ outBps \subseteq Sites
    /\ outBps \subseteq {stepOutBp}
    /\ outThread \in Threads \cup {NoThread} /\ outDepth \in 0..MaxDepth
    /\ outBps # {} => breaks = "set" /\ outThread \in Threads

\* A call reported is the innermost frame; a return reported is not handled yet.
Pending ==
    /\ stop.kind = "call" => /\ breaks = "set"
                             /\ stacks[stop.thread] # <<>>
                             /\ stacks[stop.thread][Len(stacks[stop.thread])].traced
    /\ stop.kind = "out" => stop.site \in outBps
    /\ ReturnMatchesCall

\* The frame the breakpoint is set for is on its stack, at a site where only the
\* traced function returns.
Watched == /\ outBps # {} /\ stop.kind # "out"
           /\ outDepth # 0 /\ stepOutBp \notin Untraced

\* A frame of the thread is recorded, or its call is being handled.
Recorded(d) == \/ <<outThread, d>> \in open
               \/ stop.kind = "call" /\ stop.thread = outThread /\ d = Len(stacks[outThread])

Frontier ==
    Watched => /\ outDepth \in 1..Len(stacks[outThread])
               /\ stacks[outThread][outDepth].site = stepOutBp
               /\ \A d \in outDepth..Len(stacks[outThread]) :
                     stacks[outThread][d].site = stepOutBp => Recorded(d)

\* The loop goes on only below the budget and with a process.
Alive ==
    /\ ended = "no" => hits < options.maxEvents \/ hits = 0
    /\ hits <= options.maxEvents \/ hits = 1
    /\ procs \in 0..MaxProcs /\ (ended = "no" => procs >= 1)
    /\ ~options.children => procs <= 1
    /\ ended = "exit" => procs = 0

\* Nothing is called or hit that is not set.
Counted == /\ breaks # "set" => calls = 0 /\ hits = 0
           /\ EveryCallRecorded

IInv == Shape /\ OneShot /\ Pending /\ Frontier /\ Alive /\ Counted

-----------------------------------------------------------------------------
LEMMA Basics ==
  /\ NoThread \notin Threads
  /\ Traced \subseteq Sites /\ Untraced \subseteq Sites /\ NoSite \notin Sites
  /\ MaxDepth \in Nat /\ MaxProcs \in Nat \ {0} /\ Budgets \subseteq Nat
  /\ \A f \in Frames : f.site \in Sites /\ (f.site \notin Untraced => f.traced)
BY CliAssumption DEF CliAssumption, Frames

\* Events are told apart by their kind.
LEMMA Kinds ==
  /\ NoStop.kind = "none"
  /\ \A t : CallStop(t).kind = "call" /\ CallStop(t).thread = t
  /\ \A k : [kind |-> k].kind = k
  /\ \A s, t, d : /\ OutStop(s, t, d).kind = "out" /\ OutStop(s, t, d).site = s
                  /\ OutStop(s, t, d).thread = t /\ OutStop(s, t, d).depth = d
  /\ \A e \in Events : e.kind \in {"call", "out"} => e.thread \in Threads
BY DEF NoStop, CallStop, OutStop, Events, Plain

LEMMA InitIInv == Init => IInv
<1> SUFFICES ASSUME Init PROVE IInv
  OBVIOUS
<1>1. /\ stacks \in [Threads -> UNION {[1..d -> Frames] : d \in 0..MaxDepth}]
      /\ breaks = "no" /\ outBps = {} /\ hits = 0 /\ calls = 0 /\ stop = NoStop
  BY DEF Init
<1>2. ASSUME NEW t \in Threads PROVE stacks[t] \in Seq(Frames) /\ Len(stacks[t]) <= MaxDepth
  <2>1. PICK d \in 0..MaxDepth : stacks[t] \in [1..d -> Frames]
    BY <1>1
  <2> QED
    BY <2>1, Basics
<1>3. stacks \in [Threads -> Seq(Frames)]
  BY <1>1, <1>2
<1>4. NoStop.kind = "none" /\ NoStop \in Events
  BY Kinds DEF Events
<1>5. Shape
  BY <1>1, <1>2, <1>3, <1>4 DEF Init, Shape, Known
<1>6. options.maxEvents \in Nat
  BY Basics DEF Init
<1>7. Alive
  BY <1>1, <1>6, Basics DEF Init, Alive
<1>8. OneShot
  BY <1>1, Basics DEF Init, OneShot
<1> QED
  BY <1>1, <1>4, <1>5, <1>7, <1>8
     DEF IInv, Pending, ReturnMatchesCall, Frontier, Watched, Counted, EveryCallRecorded

\* The processes and what the loop counts do not change.
LEMMA AliveKept ==
  ASSUME Alive, UNCHANGED <<options, procs, ended, hits>> PROVE Alive'
BY DEF Alive

\* ClearStepOut leaves nothing.
LEMMA Cleared == ASSUME IInv, ClearStepOut PROVE outBps' = {} /\ OneShot' /\ Frontier'
BY Basics DEF IInv, OneShot, ClearStepOut, Frontier, Watched

\* An event that is neither a call nor a return comes, or is handled.
LEMMA QuietInv ==
  ASSUME IInv, UNCHANGED <<options, stacks, hits, ghosts>>, UNCHANGED host \/ ClearStepOut,
         stop' \in Events, stop'.kind \notin {"call", "out"}, stop.kind \notin {"call", "out"},
         status' \in {"go", "break"}, ended' \in {"no", "exit", "budget", "wait"},
         breaks' \in IF breaks = "no" THEN {"set", "failed"} ELSE {breaks}, Alive'
  PROVE  IInv'
<1>1. breaks' \in {"no", "set", "failed"} /\ (breaks = "set" => breaks' = "set")
  BY DEF IInv, Shape
<1>2. Shape'
  BY <1>1 DEF IInv, Shape, Known
<1>3. Counted'
  BY DEF IInv, Counted, EveryCallRecorded, ghosts
<1>4. Pending'
  BY DEF Pending, ReturnMatchesCall
<1>5. OneShot' /\ Frontier'
  <2>1. CASE UNCHANGED host
    BY <1>1, <2>1 DEF IInv, OneShot, Frontier, Watched, Recorded, host, ghosts
  <2>2. CASE ClearStepOut
    BY <2>2, Cleared
  <2> QED
    BY <2>1, <2>2
<1> QED
  BY <1>2, <1>3, <1>4, <1>5 DEF IInv

\* The same, with breaks as it was.
LEMMA StillInv ==
  ASSUME IInv, UNCHANGED <<options, stacks, hits, ghosts, breaks>>, UNCHANGED host \/ ClearStepOut,
         stop' \in Events, stop'.kind \notin {"call", "out"}, stop.kind \notin {"call", "out"},
         status' \in {"go", "break"}, ended' \in {"no", "exit", "budget", "wait"}, Alive'
  PROVE  IInv'
<1>1. Shape'
  BY DEF IInv, Shape, Known
<1>2. Counted'
  BY DEF IInv, Counted, EveryCallRecorded, ghosts
<1>3. Pending'
  BY DEF Pending, ReturnMatchesCall
<1>4. OneShot' /\ Frontier'
  <2>1. CASE UNCHANGED host
    BY <2>1 DEF IInv, OneShot, Frontier, Watched, Recorded, host, ghosts
  <2>2. CASE ClearStepOut
    BY <2>2, Cleared
  <2> QED
    BY <2>1, <2>2
<1> QED
  BY <1>1, <1>2, <1>3, <1>4 DEF IInv

\* What Handles says.
LEMMA Handled ==
  ASSUME NEW K, Handles(K)
  PROVE  /\ ended = "no" /\ stop.kind \in K /\ stop' = NoStop
         /\ breaks' \in IF breaks = "no" THEN {"set", "failed"} ELSE {breaks}
         /\ stop' \in Events /\ stop'.kind = "none"
BY Kinds DEF Handles, Events

LEMMA Idle == Runs => stop.kind = "none" /\ ended = "no" /\ stop = NoStop
BY Kinds DEF Runs

LEMMA OtherInv == ASSUME IInv, OtherEvent \/ ExitEvent PROVE IInv'
<1>1. PICK k \in Plain \cup {"exit"} : stop' = [kind |-> k] /\ status' = "break"
  BY DEF OtherEvent, ExitEvent, StopAt
<1>2. stop' \in Events /\ stop'.kind = k /\ k \notin {"call", "out"}
  BY <1>1, Kinds DEF Events, Plain
<1>3. UNCHANGED <<options, debuggee, ended, breaks, host, hits, ghosts>> /\ Runs
  BY DEF OtherEvent, ExitEvent
<1>4. Alive'
  BY <1>3, AliveKept DEF IInv, debuggee
<1> QED
  BY <1>1, <1>2, <1>3, <1>4, Idle, StillInv DEF IInv, Shape, debuggee

LEMMA ChildInv == ASSUME IInv, ChildStarts PROVE IInv'
<1>1. Alive'
  BY Basics DEF ChildStarts, Runs, IInv, Alive
<1> QED
  BY <1>1, Idle, StillInv DEF ChildStarts, IInv, Shape

LEMMA PlainInv == ASSUME IInv, HandlePlain PROVE IInv'
<1>1. /\ ended = "no" /\ stop.kind \in Plain
      /\ breaks' \in IF breaks = "no" THEN {"set", "failed"} ELSE {breaks}
      /\ stop' \in Events /\ stop'.kind = "none" /\ status' = "go"
  BY Handled DEF HandlePlain, Go
<1>2. stop.kind \notin {"call", "out"}
  BY <1>1 DEF Plain
<1>3. UNCHANGED <<options, debuggee, ended, host, hits, ghosts>>
  BY DEF HandlePlain
<1>4. Alive'
  BY <1>3, AliveKept DEF IInv, debuggee
<1> QED
  BY <1>1, <1>2, <1>3, <1>4, QuietInv DEF IInv, Shape, debuggee

\* The loop is left only with the last process.
LEMMA ExitInv == ASSUME IInv, HandleExit PROVE IInv'
<1>1. /\ ended = "no" /\ stop.kind \in {"exit"}
      /\ breaks' \in IF breaks = "no" THEN {"set", "failed"} ELSE {breaks}
      /\ stop' \in Events /\ stop'.kind = "none"
  BY Handled DEF HandleExit
<1>2. stop.kind \notin {"call", "out"}
  BY <1>1
<1>3. Alive' /\ ended' \in {"no", "exit", "budget", "wait"}
  BY <1>1, Basics DEF HandleExit, IInv, Alive, Shape
<1> QED
  BY <1>1, <1>2, <1>3, QuietInv DEF HandleExit, Go, IInv, Shape

LEMMA WaitInv == ASSUME IInv, WaitStopped PROVE IInv'
<1>1. stop' = stop /\ stop.kind = "none" /\ stop \in Events
  BY Kinds DEF WaitStopped, IInv, Shape
<1>2. Alive' /\ ended' \in {"no", "exit", "budget", "wait"}
  BY DEF WaitStopped, IInv, Alive, Shape, debuggee
<1> QED
  BY <1>1, <1>2, StillInv DEF WaitStopped, Go, IInv, Shape, debuggee

-----------------------------------------------------------------------------
(* Calls, returns and unwinding *)

\* A frame more: a call of the traced function is reported.
LEMMA CallInv == ASSUME IInv, NEW t \in Threads, NEW f \in Frames, Call(t, f) PROVE IInv'
<1> USE DEF IInv
<1> DEFINE n == Len(stacks[t])
<1>1. /\ stacks' = [stacks EXCEPT ![t] = Append(@, f)] /\ Runs /\ n < MaxDepth
      /\ UNCHANGED <<options, procs, ended, breaks, host, hits, open>>
  BY DEF Call
<1>2. /\ stacks[t] \in Seq(Frames) /\ n \in Nat /\ stacks'[t] = Append(stacks[t], f)
      /\ \A u \in Threads \ {t} : stacks'[u] = stacks[u]
  BY <1>1 DEF Shape
<1>3. /\ stacks'[t] \in Seq(Frames) /\ Len(stacks'[t]) = n + 1 /\ stacks'[t] # <<>>
      /\ \A d \in 1..n : stacks'[t][d] = stacks[t][d]
      /\ stacks'[t][n + 1] = f
  BY <1>2
<1>4. /\ stop.kind = "none" /\ CallStop(t).kind = "call" /\ CallStop(t).thread = t
      /\ CallStop(t) \in Events
  BY <1>1, Idle, Kinds DEF Events
<1>5. Alive' /\ OneShot'
  BY <1>1, AliveKept DEF OneShot, host
<1>6. Shape'
  <2>1. stop' \in Events /\ status' \in {"go", "break"}
    BY <1>4 DEF Call, StopAt, Shape
  <2>2. stacks' \in [Threads -> Seq(Frames)] /\ \A u \in Threads : Len(stacks'[u]) <= MaxDepth
    BY <1>1, <1>2, <1>3, Basics DEF Shape
  <2> QED
    BY <1>1, <2>1, <2>2 DEF Shape, Known
<1>7. Pending' /\ Counted'
  <2>1. CASE breaks = "set" /\ f.traced
    <3>1. stop' = CallStop(t) /\ calls' = calls + 1 /\ hits \in Nat /\ calls = hits + 0
      BY <1>4, <2>1 DEF Call, StopAt, Shape, Counted, EveryCallRecorded
    <3> QED
      BY <1>1, <1>3, <1>4, <2>1, <3>1 DEF Pending, ReturnMatchesCall, Counted, EveryCallRecorded
  <2>2. CASE ~(breaks = "set" /\ f.traced)
    BY <1>1, <1>4, <2>2 DEF Call, Pending, ReturnMatchesCall, Counted, EveryCallRecorded
  <2> QED
    BY <2>1, <2>2
<1>8. Frontier'
  <2> SUFFICES ASSUME Watched' PROVE
        /\ outDepth \in 1..Len(stacks'[outThread])
        /\ stacks'[outThread][outDepth].site = stepOutBp
        /\ \A d \in outDepth..Len(stacks'[outThread]) :
              stacks'[outThread][d].site = stepOutBp => Recorded(d)'
    BY <1>1 DEF Frontier, host
  <2>1. Watched /\ outThread \in Threads /\ breaks = "set" /\ outDepth \in Nat
    BY <1>1, <1>4, Basics DEF Watched, host, OneShot
  <2>2. /\ outDepth \in 1..Len(stacks[outThread])
        /\ stacks[outThread][outDepth].site = stepOutBp
        /\ \A d \in outDepth..Len(stacks[outThread]) :
              stacks[outThread][d].site = stepOutBp => <<outThread, d>> \in open
    BY <1>4, <2>1 DEF Frontier, Recorded
  <2>3. CASE outThread # t
    BY <1>1, <1>2, <2>1, <2>2, <2>3 DEF Recorded, host
  <2>4. CASE outThread = t
    <3>1. ASSUME NEW d \in outDepth..(n + 1), stacks'[t][d].site = stepOutBp PROVE Recorded(d)'
      <4>1. CASE d = n + 1
        <5>1. f.traced
          BY <1>3, <2>1, <3>1, <4>1, Basics DEF Watched
        <5> QED
          BY <1>1, <1>3, <1>4, <2>1, <2>4, <4>1, <5>1 DEF Call, StopAt, Recorded, host
      <4>2. CASE d # n + 1
        <5>1. d \in outDepth..n /\ d \in 1..n
          BY <1>2, <2>1, <2>2, <2>4, <3>1, <4>2
        <5> QED
          BY <1>1, <1>3, <2>2, <2>4, <3>1, <5>1 DEF Recorded, host
      <4> QED
        BY <4>1, <4>2
    <3>2. outDepth \in 1..n /\ Len(stacks'[outThread]) = n + 1
      BY <1>3, <2>2, <2>4
    <3>3. stacks'[outThread][outDepth] = stacks[outThread][outDepth]
      BY <1>3, <2>4, <3>2
    <3> HIDE DEF n
    <3>4. outDepth \in 1..(n + 1)
      BY <1>2, <3>2
    <3> QED
      BY <2>2, <2>4, <3>1, <3>2, <3>3, <3>4
  <2> QED
    BY <2>3, <2>4
<1> QED
  BY <1>5, <1>6, <1>7, <1>8

\* The first elements of a sequence.
LEMMA Shortened ==
  ASSUME NEW S, NEW s \in Seq(S), NEW m \in 0..Len(s)
  PROVE  /\ SubSeq(s, 1, m) \in Seq(S) /\ Len(SubSeq(s, 1, m)) = m
         /\ \A i \in 1..m : SubSeq(s, 1, m)[i] = s[i]
<1>1. \A i \in 1..m : i \in 1..Len(s) /\ s[i] \in S
  OBVIOUS
<1>2. /\ SubSeq(s, 1, m) \in Seq(S)
      /\ Len(SubSeq(s, 1, m)) = IF 1 <= m THEN m - 1 + 1 ELSE 0
      /\ \A i \in 1..(m - 1 + 1) : SubSeq(s, 1, m)[i] = s[1 + i - 1]
  BY <1>1, SubSeqProperties
<1> QED
  BY <1>2

\* Frames of a thread go: what that leaves of the stacks.
LEMMA Popped ==
  ASSUME IInv, NEW t \in Threads, NEW m \in 0..Len(stacks[t]),
         stacks' = [stacks EXCEPT ![t] = SubSeq(@, 1, m)]
  PROVE  /\ stacks' \in [Threads -> Seq(Frames)]
         /\ \A u \in Threads : Len(stacks'[u]) <= MaxDepth
         /\ Len(stacks'[t]) = m /\ \A d \in 1..m : stacks'[t][d] = stacks[t][d]
         /\ \A u \in Threads \ {t} : stacks'[u] = stacks[u]
<1>1. stacks \in [Threads -> Seq(Frames)] /\ \A u \in Threads : Len(stacks[u]) <= MaxDepth
  BY DEF IInv, Shape
<1>2. /\ stacks'[t] = SubSeq(stacks[t], 1, m) /\ stacks[t] \in Seq(Frames)
      /\ \A u \in Threads \ {t} : stacks'[u] = stacks[u]
  BY <1>1
<1>3. /\ stacks'[t] \in Seq(Frames) /\ Len(stacks'[t]) = m
      /\ \A d \in 1..m : stacks'[t][d] = stacks[t][d]
  BY <1>2, Shortened
<1>4. Len(stacks[t]) \in Nat /\ m <= Len(stacks[t])
  BY <1>2
<1> QED
  BY <1>1, <1>2, <1>3, <1>4, Basics

\* The frame the breakpoint watches survives: so does what is recorded above it.
LEMMA FrontierKept ==
  ASSUME IInv, NEW t \in Threads, NEW m \in 0..Len(stacks[t]),
         stacks' = [stacks EXCEPT ![t] = SubSeq(@, 1, m)],
         stop' = stop, stop.kind = "none",
         UNCHANGED <<stepOutBp, outBps, outThread>>, outDepth' \in {0, outDepth},
         \A u \in Threads, d \in Nat :
            <<u, d>> \in open /\ (u = t => d <= m) => <<u, d>> \in open',
         outThread = t /\ outDepth' # 0 => outDepth <= m
  PROVE  Frontier'
<1> USE DEF IInv
<1>1. /\ Len(stacks'[t]) = m /\ \A d \in 1..m : stacks'[t][d] = stacks[t][d]
      /\ \A u \in Threads \ {t} : stacks'[u] = stacks[u]
  BY Popped
<1> SUFFICES ASSUME Watched' PROVE
      /\ outDepth \in 1..Len(stacks'[outThread])
      /\ stacks'[outThread][outDepth].site = stepOutBp
      /\ \A d \in outDepth..Len(stacks'[outThread]) :
            stacks'[outThread][d].site = stepOutBp => Recorded(d)'
  BY DEF Frontier, Watched
<1>2. /\ Watched /\ outThread \in Threads /\ outDepth' = outDepth /\ outDepth \in Nat
  BY Basics DEF Watched, OneShot
<1>3. /\ outDepth \in 1..Len(stacks[outThread])
      /\ stacks[outThread][outDepth].site = stepOutBp
      /\ \A d \in outDepth..Len(stacks[outThread]) :
            stacks[outThread][d].site = stepOutBp => <<outThread, d>> \in open
  BY <1>2 DEF Frontier, Recorded
<1>4. Len(stacks[outThread]) \in Nat /\ Len(stacks[t]) \in Nat /\ m <= Len(stacks[t])
  BY <1>2 DEF Shape
<1>5. CASE outThread # t
  BY <1>1, <1>2, <1>3, <1>4, <1>5 DEF Recorded
<1>6. CASE outThread = t
  <2>1. outDepth \in 1..m
    BY <1>2, <1>3, <1>4, <1>6 DEF Watched
  <2>2. ASSUME NEW d \in outDepth..m, stacks'[t][d].site = stepOutBp PROVE Recorded(d)'
    <3>1. d \in 1..m /\ d \in outDepth..Len(stacks[t]) /\ d \in Nat
      BY <1>2, <1>4, <2>1
    <3>2. <<outThread, d>> \in open
      BY <1>1, <1>3, <1>6, <2>2, <3>1
    <3> QED
      BY <1>2, <3>1, <3>2 DEF Recorded
  <2> QED
    BY <1>1, <1>3, <1>6, <2>1, <2>2
<1> QED
  BY <1>5, <1>6

\* A frame less: if the one-shot breakpoint is hit, its call was recorded, or one
\* of the causes is there.
LEMMA ReturnInv == ASSUME IInv, NEW t \in Threads, Return(t) PROVE IInv'
<1> USE DEF IInv
<1> DEFINE n == Len(stacks[t])
           m == n - 1
           site == stacks[t][n].site
<1>1. /\ stacks' = [stacks EXCEPT ![t] = SubSeq(@, 1, m)] /\ Runs /\ stacks[t] # <<>>
      /\ UNCHANGED <<options, procs, ended, breaks, host, hits, calls>>
  BY DEF Return
<1>2. n \in Nat \ {0} /\ m \in 0..n /\ stacks[t][n] \in Frames /\ site \in Sites
  BY <1>1, Basics DEF Shape
<1>3. /\ stacks' \in [Threads -> Seq(Frames)]
      /\ \A u \in Threads : Len(stacks'[u]) <= MaxDepth
  BY <1>1, <1>2, Popped
<1>4. stop.kind = "none"
  BY <1>1, Idle
<1>5. Alive' /\ OneShot'
  BY <1>1, AliveKept DEF OneShot, host
<1>6. CASE site \in outBps
  <2>1. stop' = OutStop(site, t, n) /\ status' = "break" /\ open' = open
    BY <1>6 DEF Return, StopAt
  <2>2. /\ stop' \in Events /\ stop'.kind = "out" /\ stop'.site = site
        /\ stop'.thread = t /\ stop'.depth = n
    BY <1>2, <2>1, Kinds DEF Events
  <2>3. site = stepOutBp /\ outBps # {}
    BY <1>6 DEF OneShot
  <2>4. ASSUME t = outThread, site \notin Untraced, outDepth # 0 PROVE <<t, n>> \in open
    <3>1. Watched
      BY <1>4, <2>3, <2>4 DEF Watched
    <3>2. /\ outDepth \in 1..n
          /\ \A d \in outDepth..n : stacks[t][d].site = stepOutBp => Recorded(d)
      BY <2>4, <3>1 DEF Frontier
    <3>3. n \in outDepth..n
      BY <1>2, <3>2
    <3> QED
      BY <1>4, <2>3, <2>4, <3>2, <3>3 DEF Recorded
  <2>5. Shape'
    BY <1>1, <1>3, <2>1, <2>2 DEF Shape, Known
  <2>6. Pending'
    <3>1. ReturnMatchesCall'
      BY <1>1, <2>1, <2>2, <2>4 DEF ReturnMatchesCall, host
    <3> QED
      BY <1>1, <1>6, <2>2, <3>1 DEF Pending, host
  <2>7. Frontier' /\ Counted'
    BY <1>1, <1>4, <2>2 DEF Frontier, Watched, Counted, EveryCallRecorded
  <2> QED
    BY <1>5, <2>5, <2>6, <2>7
<1>7. CASE site \notin outBps
  <2>1. open' = open \ {<<t, n>>} /\ UNCHANGED <<stop, status>>
    BY <1>7 DEF Return
  <2>2. Shape'
    BY <1>1, <1>3, <2>1 DEF Shape, Known
  <2>3. Pending' /\ Counted'
    BY <1>1, <1>4, <2>1 DEF Pending, ReturnMatchesCall, Counted, EveryCallRecorded
  <2>4. Frontier'
    <3>1. \A u \in Threads, d \in Nat :
            <<u, d>> \in open /\ (u = t => d <= m) => <<u, d>> \in open'
      BY <1>2, <2>1
    <3>2. CASE Watched /\ outThread = t
      <4>1. /\ outDepth \in 1..n /\ stacks[t][outDepth].site = stepOutBp
            /\ outBps = {stepOutBp}
        BY <3>2 DEF Frontier, Watched, OneShot
      <4>2. outDepth # n
        BY <1>7, <4>1
      <4>3. outDepth <= m
        BY <1>2, <4>1, <4>2
      <4> HIDE DEF m
      <4> QED
        BY <1>1, <1>2, <1>4, <2>1, <3>1, <4>3, FrontierKept DEF host
    <3>3. CASE Watched /\ outThread # t
      <4> HIDE DEF m
      <4> QED
        BY <1>1, <1>2, <1>4, <2>1, <3>1, <3>3, FrontierKept DEF host
    <3>4. CASE ~Watched
      BY <1>1, <1>4, <2>1, <3>4 DEF Frontier, Watched, host
    <3> QED
      BY <3>2, <3>3, <3>4
  <2> QED
    BY <1>5, <2>2, <2>3, <2>4
<1> QED
  BY <1>6, <1>7

\* Frames go without a return: the breakpoint of one that is gone watches nothing.
LEMMA UnwindInv == ASSUME IInv, NEW t \in Threads, Unwind(t) PROVE IInv'
<1> USE DEF IInv
<1>1. PICK m \in 0..(Len(stacks[t]) - 1) :
        /\ stacks' = [stacks EXCEPT ![t] = SubSeq(@, 1, m)]
        /\ open' = {f \in open : f[1] = t => f[2] <= m}
        /\ outDepth' = IF outThread = t /\ outDepth > m THEN 0 ELSE outDepth
  BY DEF Unwind
<1>2. /\ Runs /\ stop.kind = "none"
      /\ UNCHANGED <<options, procs, status, stop, ended, breaks, stepOutBp, outBps, outThread,
                     hits, calls>>
  BY Idle DEF Unwind
<1>3. m \in 0..Len(stacks[t])
  BY DEF Shape
<1>4. /\ stacks' \in [Threads -> Seq(Frames)]
      /\ \A u \in Threads : Len(stacks'[u]) <= MaxDepth
  BY <1>1, <1>3, Popped
<1>5. Shape' /\ Alive'
  BY <1>2, <1>4, AliveKept DEF Shape, Known
<1>6. OneShot'
  BY <1>1, <1>2, Basics DEF OneShot
<1>7. Pending' /\ Counted'
  BY <1>2 DEF Pending, ReturnMatchesCall, Counted, EveryCallRecorded
<1>8. Frontier'
  <2>1. \A u \in Threads, d \in Nat : <<u, d>> \in open /\ (u = t => d <= m) => <<u, d>> \in open'
    BY <1>1
  <2>2. outDepth' \in {0, outDepth} /\ (outThread = t /\ outDepth' # 0 => outDepth <= m)
    BY <1>1, Basics DEF OneShot
  <2> QED
    BY <1>1, <1>2, <1>3, <2>1, <2>2, FrontierKept
<1> QED
  BY <1>5, <1>6, <1>7, <1>8

\* The return is recorded; its breakpoint is gone.
LEMMA HandleReturnInv == ASSUME IInv, HandleReturn PROVE IInv'
<1> USE DEF IInv
<1>1. /\ ended = "no" /\ stop.kind \in {"out"}
      /\ breaks' \in IF breaks = "no" THEN {"set", "failed"} ELSE {breaks}
      /\ stop' \in Events /\ stop'.kind = "none" /\ status' = "go"
  BY Handled DEF HandleReturn, Go
<1>2. breaks = "set" /\ breaks' = "set"
  BY <1>1 DEF Pending, OneShot
<1>3. UNCHANGED <<options, debuggee, ended, hits, calls>> /\ ClearStepOut
  BY DEF HandleReturn
<1>4. Shape' /\ Alive'
  BY <1>1, <1>2, <1>3, AliveKept DEF Shape, Known, debuggee
<1>5. OneShot' /\ Frontier'
  BY <1>3, Cleared
<1>6. Pending' /\ Counted'
  BY <1>1, <1>2, <1>3 DEF Pending, ReturnMatchesCall, Counted, EveryCallRecorded
<1> QED
  BY <1>4, <1>5, <1>6

\* Any other breakpoint is a call, which is recorded now.
LEMMA HandleBreakpointInv == ASSUME IInv, HandleBreakpoint PROVE IInv'
<1> USE DEF IInv
<1> DEFINE t == stop.thread
           n == Len(stacks[t])
<1>1. /\ ended = "no" /\ stop.kind \in {"call", "out"}
      /\ breaks' \in IF breaks = "no" THEN {"set", "failed"} ELSE {breaks}
      /\ stop' = NoStop /\ stop' \in Events /\ stop'.kind = "none"
  BY Handled DEF HandleBreakpoint
<1>2. stop.kind = "call" /\ t \in Threads
  <2>1. stop.kind # "out"
    BY DEF HandleBreakpoint, Pending, OneShot
  <2> QED
    BY <1>1, <2>1, Kinds DEF Shape
<1>3. breaks = "set" /\ breaks' = "set"
  BY <1>1, <1>2 DEF Pending
<1>4. /\ stacks[t] # <<>> /\ n \in Nat \ {0} /\ stacks[t][n] \in Frames
      /\ stacks[t][n].site \in Sites /\ n \in 1..n /\ n <= MaxDepth
  BY <1>2, Basics DEF Pending, Shape
<1>5. /\ hits' = hits + 1 /\ hits \in Nat /\ open' = open \cup {<<t, n>>}
      /\ UNCHANGED <<options, debuggee, calls>>
  BY DEF HandleBreakpoint, Shape
<1>6. options.maxEvents \in Nat
  BY Basics DEF Shape, Known
<1>7. Alive' /\ Shape'
  <2>1. status' \in {"go", "break"}
    BY DEF HandleBreakpoint, StepOut, Go, Shape
  <2>2. CASE hits' >= options.maxEvents
    <3>1. ended' = "budget"
      BY <2>2 DEF HandleBreakpoint, BudgetSpent
    <3>2. Alive'
      BY <1>1, <1>5, <1>6, <2>2, <3>1 DEF Alive, debuggee
    <3> QED
      BY <1>1, <1>3, <1>5, <2>1, <3>1, <3>2 DEF Shape, Known, debuggee
  <2>3. CASE ~(hits' >= options.maxEvents)
    <3>1. ended' = "no"
      BY <1>1, <2>3 DEF HandleBreakpoint, BudgetSpent
    <3>2. Alive'
      BY <1>1, <1>5, <1>6, <2>3, <3>1 DEF Alive, debuggee
    <3> QED
      BY <1>1, <1>3, <1>5, <2>1, <3>1, <3>2 DEF Shape, Known, debuggee
  <2> QED
    BY <2>2, <2>3
<1>8. Pending'
  BY <1>1 DEF Pending, ReturnMatchesCall
<1>9. Counted'
  BY <1>1, <1>2, <1>3, <1>5 DEF Counted, EveryCallRecorded
<1>10. OneShot' /\ Frontier'
  <2>1. CASE ClearStepOut
    BY <2>1, Cleared
  <2>2. CASE UNCHANGED host
    <3>1. OneShot'
      BY <1>3, <2>2 DEF OneShot, host
    <3>2. Watched' => Watched
      BY <1>2, <2>2 DEF Watched, host
    <3>3. \A d : Recorded(d) => Recorded(d)'
      BY <1>5, <2>2 DEF Recorded, host, debuggee
    <3> QED
      BY <1>5, <2>2, <3>1, <3>2, <3>3 DEF Frontier, host, debuggee
  <2>3. CASE OutOf(t) /\ outBps' = (outBps \ {stepOutBp}) \cup {stepOutBp'}
    <3>1. /\ stepOutBp' = stacks[t][n].site /\ outThread' = t /\ outDepth' = n
          /\ outBps' = {stepOutBp'}
      BY <2>3 DEF OutOf, OneShot
    <3>2. OneShot'
      BY <1>2, <1>3, <1>4, <3>1, Basics DEF OneShot
    <3>3. \A d \in n..n : Recorded(d)'
      BY <1>4, <1>5, <3>1 DEF Recorded
    <3> QED
      BY <1>4, <1>5, <3>1, <3>2, <3>3 DEF Frontier, debuggee
  <2> QED
    BY <2>1, <2>2, <2>3 DEF HandleBreakpoint, StepOut
<1> QED
  BY <1>7, <1>8, <1>9, <1>10

-----------------------------------------------------------------------------
\* IInv is inductive.
LEMMA NextIInv == IInv /\ [Next]_vars => IInv'
<1> SUFFICES ASSUME IInv, [Next]_vars PROVE IInv'
  OBVIOUS
<1>1. CASE UNCHANGED vars
  BY <1>1 DEF vars, debuggee, host, ghosts, IInv, Shape, Known, OneShot, Pending, Frontier,
              Watched, Recorded, Alive, Counted, EveryCallRecorded, ReturnMatchesCall
<1> QED
  BY <1>1, CallInv, ReturnInv, UnwindInv, OtherInv, ChildInv, PlainInv, ExitInv, WaitInv,
     HandleReturnInv, HandleBreakpointInv DEF Next

LEMMA Invariance == Spec => []IInv
BY InitIInv, NextIInv, PTL DEF Spec

\* The types of the loop's state, and the budget: never more hits than -maxevents,
\* but one with a budget of 0.
THEOREM TypeCorrect == Spec => []TypeOK
<1>1. IInv => TypeOK
  BY DEF IInv, Shape, OneShot, Alive, TypeOK
<1> QED
  BY <1>1, Invariance, PTL

\* Every call of the traced function, by any thread, is a breakpoint event of the
\* trace, and no return is taken for one.
THEOREM CallsAlwaysRecorded == Spec => []EveryCallRecorded
<1>1. IInv => EveryCallRecorded
  BY DEF IInv, Counted
<1> QED
  BY <1>1, Invariance, PTL

\* A return event of the trace is the return of a call the trace has, unless
\* another thread, another callee or an unwound frame is the cause.
THEOREM ReturnsAlwaysMatch == Spec => []ReturnMatchesCall
<1>1. IInv => ReturnMatchesCall
  BY DEF IInv, Pending
<1> QED
  BY <1>1, Invariance, PTL

\* The trace ends with an exit only when no process is left.
THEOREM NoChildEverAbandoned == Spec => []NoChildAbandoned
<1>1. IInv => NoChildAbandoned
  BY DEF IInv, Alive, NoChildAbandoned
<1> QED
  BY <1>1, Invariance, PTL
=============================================================================
