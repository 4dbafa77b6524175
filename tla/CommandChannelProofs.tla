------------------------ MODULE CommandChannelProofs ------------------------
(***************************************************************************)
(* Proofs about CommandChannel, for every set of callers and every bound:  *)
(* the types, PromiseAlive, CallbacksUnlocked, and that the channel        *)
(* implements RequestReply (safety).  The inductive invariant says that a  *)
(* caller has at most one request anywhere in queue, jobs and stack, and   *)
(* that the GUI's commands are there in the order of their numbers.        *)
(***************************************************************************)
EXTENDS CommandChannel, SequenceTheorems, TLAPS

Reqs   == [from : Callers \cup {"gui", "worker"}, n : Nat, via : ViaSet]
Frames == [req : Reqs, at : {"locked", "dispatch", "plugin", "finish"}]

Shape ==
    /\ queue \in Seq(Reqs) /\ jobs \in Seq(Reqs) /\ stack \in Seq(Frames)
    /\ \A i \in 1..Len(queue) : queue[i].via = "post" => queue[i].from = "gui"
    /\ \A i \in 1..Len(stack) : stack[i].req.via = "post" => stack[i].req.from = "gui"

\* The worker looks at the queues, and waits for an event, only when it is
\* inside nothing.
Idle == stack # <<>> => phase \in {"top", "commands"}

\* The mutex is held across a step only by HandleEvent, below no callback.
Locking ==
    /\ \A i \in 1..Len(stack) : stack[i].at = "locked" => locked /\ stack[i].req = NoRequest
    /\ locked => Len(stack) = 1 /\ stack[1].at = "locked"

\* A caller's request is in one place.
Once ==
    /\ \A i, j \in 1..Len(queue) :
          queue[i].from \in Callers /\ queue[j].from = queue[i].from => i = j
    /\ \A i, j \in 1..Len(jobs) : jobs[j].from = jobs[i].from => i = j
    /\ \A i \in 1..Len(queue), j \in 1..Len(jobs) : queue[i].from # jobs[j].from
    /\ \A i \in 1..Len(stack) : stack[i].req.from \in Callers =>
          /\ \A j \in 1..Len(queue) : queue[j].from # stack[i].req.from
          /\ \A j \in 1..Len(jobs) : jobs[j].from # stack[i].req.from

\* Its caller waits for it.
Alive(req) == req.from \in Callers => state[req.from] = "waiting" /\ req.n = count[req.from]

Promises ==
    /\ \A i \in 1..Len(queue) : Alive(queue[i])
    /\ \A i \in 1..Len(jobs) : Alive(jobs[i])
    /\ \A i \in 1..Len(stack) : Alive(stack[i].req)

\* The GUI's commands are executed in the order of their numbers.
Ordered ==
    /\ \A i \in 1..Len(queue) : queue[i].via = "post" => queue[i].n <= posted
    /\ \A i \in 1..Len(stack) : stack[i].req.via = "post" => stack[i].req.n <= posted
    /\ \A i, j \in 1..Len(queue) :
          i < j /\ queue[i].via = "post" /\ queue[j].via = "post" => queue[i].n < queue[j].n
    /\ \A i \in 1..Len(stack), j \in 1..Len(queue) :
          stack[i].req.via = "post" /\ queue[j].via = "post" => stack[i].req.n < queue[j].n

IInv == TypeOK /\ Shape /\ Idle /\ Locking /\ Once /\ Promises /\ Ordered

-----------------------------------------------------------------------------
(* Sequences *)

\* Append adds one element behind the others.
LEMMA Appended ==
  ASSUME NEW S, NEW s \in Seq(S), NEW e \in S
  PROVE  /\ Append(s, e) \in Seq(S) /\ Len(Append(s, e)) = Len(s) + 1
         /\ \A i \in 1..Len(s) : Append(s, e)[i] = s[i]
         /\ Append(s, e)[Len(s) + 1] = e
         /\ Append(s, e) # <<>>
OBVIOUS

\* Tail takes the first away.
LEMMA Tailed ==
  ASSUME NEW S, NEW s \in Seq(S), s # <<>>
  PROVE  /\ Tail(s) \in Seq(S) /\ Len(Tail(s)) = Len(s) - 1 /\ Len(s) \in Nat \ {0}
         /\ \A i \in 1..Len(Tail(s)) : i + 1 \in 1..Len(s) /\ Tail(s)[i] = s[i + 1]
         /\ Head(s) = s[1] /\ 1 \in 1..Len(s)
OBVIOUS

\* Front the last.
LEMMA Fronted ==
  ASSUME NEW S, NEW s \in Seq(S), s # <<>>
  PROVE  /\ Front(s) \in Seq(S) /\ Len(Front(s)) = Len(s) - 1 /\ Len(s) \in Nat \ {0}
         /\ \A i \in 1..Len(Front(s)) : i \in 1..Len(s) /\ Front(s)[i] = s[i]
<1>1. Len(s) \in Nat \ {0} /\ Len(s) - 1 \in 0..Len(s) /\ Front(s) = SubSeq(s, 1, Len(s) - 1)
  BY DEF Front
<1>2. \A i \in 1..(Len(s) - 1) : i \in 1..Len(s) /\ s[i] \in S
  BY <1>1
<1> DEFINE n == Len(s) - 1
<1>4. n \in Int /\ 1 \in Int /\ n >= 0 /\ n = Len(s) - 1
  BY <1>1
<1> HIDE DEF n
<1>5. /\ SubSeq(s, 1, n) \in Seq(S)
      /\ Len(SubSeq(s, 1, n)) = IF 1 <= n THEN n - 1 + 1 ELSE 0
      /\ \A i \in 1..(n - 1 + 1) : SubSeq(s, 1, n)[i] = s[1 + i - 1]
  BY <1>2, <1>4, SubSeqProperties
<1>6. Len(SubSeq(s, 1, n)) = n /\ \A i \in 1..n : SubSeq(s, 1, n)[i] = s[i]
  BY <1>4, <1>5
<1>3. /\ Front(s) \in Seq(S) /\ Len(Front(s)) = Len(s) - 1
      /\ \A i \in 1..(Len(s) - 1) : Front(s)[i] = s[i]
  BY <1>1, <1>4, <1>5, <1>6
<1> QED
  BY <1>1, <1>2, <1>3

\* A sequence of one element.
LEMMA Single ==
  ASSUME NEW S, NEW e \in S
  PROVE  <<e>> \in Seq(S) /\ Len(<<e>>) = 1 /\ <<e>>[1] = e /\ <<e>> # <<>>
OBVIOUS

-----------------------------------------------------------------------------
(* What other threads do *)

LEMMA Basics == /\ MaxCalls \in Nat /\ MaxPosts \in Nat /\ MaxDepth \in Nat \ {0}
                /\ "gui" \notin Callers /\ "worker" \notin Callers
  BY ChannelAssumption DEF ChannelAssumption

\* What an assignment of a truth value gives.
LEMMA TruthValues == \A x : x = TRUE \/ x = FALSE => x \in BOOLEAN
  BY Zenon

\* The invariant holds initially.
LEMMA InitIInv == Init => IInv
<1> SUFFICES ASSUME Init PROVE IInv
  OBVIOUS
<1>1. TypeOK
  BY Basics, TruthValues DEF Init, TypeOK
<1>2. Shape /\ Idle /\ Locking /\ Once /\ Promises /\ Ordered
  BY DEF Init, Shape, Idle, Locking, Once, Promises, Ordered
<1> QED
  BY <1>1, <1>2 DEF IInv

\* Numbers can be compared.
LEMMA Numbers == Shape => /\ \A i \in 1..Len(queue) : queue[i].n \in Nat
                          /\ \A i \in 1..Len(stack) : stack[i].req.n \in Nat
<1> SUFFICES ASSUME Shape PROVE /\ \A i \in 1..Len(queue) : queue[i].n \in Nat
                                /\ \A i \in 1..Len(stack) : stack[i].req.n \in Nat
  OBVIOUS
<1>1. ASSUME NEW i \in 1..Len(queue) PROVE queue[i].n \in Nat
  <2>1. queue[i] \in Reqs
    BY DEF Shape
  <2> QED
    BY <2>1 DEF Reqs
<1>2. ASSUME NEW i \in 1..Len(stack) PROVE stack[i].req.n \in Nat
  <2>1. stack[i] \in Frames
    BY DEF Shape
  <2> QED
    BY <2>1 DEF Frames, Reqs
<1> QED
  BY <1>1, <1>2

\* TypeOK, position by position.
LEMMA Kinds ==
  ASSUME IInv
  PROVE  /\ \A i \in 1..Len(queue) : queue[i].via \in {"post", "call"}
         /\ \A i \in 1..Len(jobs) : jobs[i].via = "job" /\ jobs[i].from \in Callers
         /\ \A i \in 1..Len(stack) :
               /\ stack[i].req \in Reqs /\ stack[i].req.via \in ViaSet
               /\ stack[i].at \in {"locked", "dispatch", "plugin", "finish"}
               /\ i > 1 => stack[i].req = Inline
               /\ i < Len(stack) => stack[i].at = "plugin"
<1>1. /\ DOMAIN queue = 1..Len(queue) /\ DOMAIN jobs = 1..Len(jobs)
      /\ DOMAIN stack = 1..Len(stack)
  BY DEF IInv, Shape
<1>2. ASSUME NEW i \in 1..Len(stack) PROVE stack[i].req \in Reqs
  <2>1. stack[i] \in Frames
    BY DEF IInv, Shape
  <2> QED
    BY <2>1 DEF Frames
<1> QED
  BY <1>1, <1>2 DEF IInv, TypeOK

\* Jobs are of callers.
LEMMA JobsOfCallers == IInv => \A i \in 1..Len(jobs) : jobs[i].from \in Callers
BY DEF IInv, TypeOK, Shape

\* PushCommand puts a new number behind the others.
LEMMA PushInv == ASSUME IInv, PushCommand PROVE IInv'
<1> USE DEF IInv, Shape
<1>1. Request("gui", posted', "post") \in Reqs
  BY DEF PushCommand, Request, Reqs, TypeOK, ViaSet
<1>2. /\ Request("gui", posted', "post").from = "gui"
      /\ Request("gui", posted', "post").n = posted + 1
      /\ Request("gui", posted', "post").via = "post"
  BY DEF PushCommand, Request
<1>3. /\ queue' = Append(queue, Request("gui", posted', "post"))
      /\ posted' = posted + 1 /\ posted < MaxPosts /\ posted \in Nat
      /\ UNCHANGED <<jobs, quit, phase, stack, locked, state, count>>
  BY DEF PushCommand, TypeOK
<1>4. /\ queue' \in Seq(Reqs) /\ Len(queue') = Len(queue) + 1 /\ Len(queue) \in Nat
      /\ \A i \in 1..Len(queue) : queue'[i] = queue[i]
      /\ queue'[Len(queue) + 1] = Request("gui", posted', "post")
  BY <1>1, <1>3, Appended
<1>5. \A i \in 1..Len(queue') : i \in 1..Len(queue) \/ i = Len(queue) + 1
  BY <1>4
<1>6. TypeOK'
  BY <1>2, <1>3, <1>4, <1>5, Basics DEF TypeOK
<1>7. Shape' /\ Idle' /\ Locking'
  BY <1>2, <1>3, <1>4, <1>5 DEF Idle, Locking
<1>12. queue'[Len(queue) + 1].from \notin Callers
  BY <1>2, <1>4, Basics
<1>8. Once'
  <2>1. \A i \in 1..Len(queue') : queue'[i].from \in Callers =>
           i \in 1..Len(queue) /\ queue'[i] = queue[i]
    BY <1>4, <1>5, <1>12
  <2>2. \A i \in 1..Len(queue'), j \in 1..Len(jobs) : queue'[i].from # jobs[j].from
    BY <2>1, JobsOfCallers DEF Once
  <2>3. Once
    OBVIOUS
  <2> HIDE DEF IInv, Shape
  <2>4. \A i, j \in 1..Len(queue') :
           queue'[i].from \in Callers /\ queue'[j].from = queue'[i].from => i = j
    BY <2>1, <2>3 DEF Once
  <2>5. \A i \in 1..Len(stack) : stack[i].req.from \in Callers =>
           \A j \in 1..Len(queue') : queue'[j].from # stack[i].req.from
    BY <2>1, <2>3 DEF Once
  <2> QED
    BY <1>3, <2>2, <2>3, <2>4, <2>5 DEF Once
<1>9. Promises'
  <2>1. ASSUME NEW i \in 1..Len(queue') PROVE Alive(queue[i])'
    BY <1>3, <1>4, <1>5, <1>12 DEF Promises, Alive
  <2> QED
    BY <1>3, <2>1 DEF Promises, Alive
<1>10. Ordered'
  <2>1. /\ \A i \in 1..Len(queue) : queue'[i].via = "post" => queue'[i].n < posted'
        /\ \A i \in 1..Len(stack) : stack[i].req.via = "post" => stack[i].req.n < posted'
    BY <1>3, <1>4, Numbers DEF Ordered
  <2>2. queue'[Len(queue) + 1].n = posted'
    BY <1>2, <1>3, <1>4
  <2>3. \A i \in 1..Len(queue') : queue'[i].n \in Nat
    BY <1>3, <1>4, <1>5, <2>2, Numbers
  <2>7. Ordered
    OBVIOUS
  <2>4. ASSUME NEW i \in 1..Len(queue'), NEW j \in 1..Len(queue'), i < j,
               queue'[i].via = "post", queue'[j].via = "post"
        PROVE  queue'[i].n < queue'[j].n
    <3> HIDE DEF IInv, Shape
    <3>1. i \in 1..Len(queue) /\ queue'[i] = queue[i]
      BY <1>4, <1>5, <2>4
    <3> QED
      BY <1>4, <1>5, <2>1, <2>2, <2>4, <2>7, <3>1 DEF Ordered
  <2>5. ASSUME NEW i \in 1..Len(stack), NEW j \in 1..Len(queue'),
               stack[i].req.via = "post", queue'[j].via = "post"
        PROVE  stack[i].req.n < queue'[j].n
    <3> HIDE DEF IInv, Shape
    <3> QED
      BY <1>4, <1>5, <2>1, <2>2, <2>5, <2>7 DEF Ordered
  <2>6. /\ \A i \in 1..Len(queue') : queue'[i].via = "post" => queue'[i].n <= posted'
        /\ \A i \in 1..Len(stack) : stack[i].req.via = "post" => stack[i].req.n <= posted'
    BY <1>3, <1>4, <1>5, <2>1, <2>2, <2>3, Numbers
  <2> QED
    BY <1>3, <2>4, <2>5, <2>6 DEF Ordered
<1> QED
  BY <1>6, <1>7, <1>8, <1>9, <1>10

\* A caller that blocks had no request anywhere.
LEMMA NoneLeft ==
  ASSUME IInv, NEW c \in Callers, state[c] # "waiting"
  PROVE  /\ \A i \in 1..Len(queue) : queue[i].from # c
         /\ \A i \in 1..Len(jobs) : jobs[i].from # c
         /\ \A i \in 1..Len(stack) : stack[i].req.from # c
BY DEF IInv, Promises, Alive

LEMMA BlockingInv == ASSUME IInv, NEW c \in Callers, PushCommandBlocking(c) PROVE IInv'
<1> USE DEF IInv, Shape
<1>1. Request(c, count'[c], "call") \in Reqs
  BY DEF PushCommandBlocking, Block, Request, Reqs, TypeOK, ViaSet
<1>2. /\ Request(c, count'[c], "call").from = c
      /\ Request(c, count'[c], "call").n = count'[c]
      /\ Request(c, count'[c], "call").via = "call"
  BY DEF Request
<1>3. /\ queue' = Append(queue, Request(c, count'[c], "call"))
      /\ state' = [state EXCEPT ![c] = "waiting"] /\ state[c] = "idle"
      /\ count' = [count EXCEPT ![c] = @ + 1] /\ count[c] < MaxCalls
      /\ UNCHANGED <<jobs, quit, phase, stack, locked, posted>>
  BY DEF PushCommandBlocking, Block
<1>4. /\ queue' \in Seq(Reqs) /\ Len(queue') = Len(queue) + 1 /\ Len(queue) \in Nat
      /\ \A i \in 1..Len(queue) : queue'[i] = queue[i]
      /\ queue'[Len(queue) + 1] = Request(c, count'[c], "call")
  BY <1>1, <1>3, Appended
<1>5. \A i \in 1..Len(queue') : i \in 1..Len(queue) \/ i = Len(queue) + 1
  BY <1>4
<1>6. TypeOK'
  BY <1>2, <1>3, <1>4, <1>5, Basics DEF TypeOK
<1>7. Shape' /\ Idle' /\ Locking'
  BY <1>2, <1>3, <1>4, <1>5 DEF Idle, Locking
<1>8. /\ \A i \in 1..Len(queue) : queue[i].from # c
      /\ \A i \in 1..Len(jobs) : jobs[i].from # c
      /\ \A i \in 1..Len(stack) : stack[i].req.from # c
  BY <1>3, NoneLeft
<1>9. Once'
  BY <1>2, <1>3, <1>4, <1>5, <1>8 DEF Once
<1>10. Promises'
  BY <1>2, <1>3, <1>4, <1>5, <1>8 DEF Promises, Alive, TypeOK
<1>11. Ordered'
  <2>1. \A i \in 1..Len(queue') : queue'[i].via = "post" =>
           i \in 1..Len(queue) /\ queue'[i] = queue[i]
    BY <1>2, <1>4, <1>5
  <2>2. Ordered
    OBVIOUS
  <2> HIDE DEF IInv, Shape
  <2>3. \A i \in 1..Len(queue') : queue'[i].via = "post" => queue'[i].n <= posted'
    BY <1>3, <2>1, <2>2 DEF Ordered
  <2>4. \A i, j \in 1..Len(queue') :
           i < j /\ queue'[i].via = "post" /\ queue'[j].via = "post" => queue'[i].n < queue'[j].n
    BY <2>1, <2>2 DEF Ordered
  <2>5. \A i \in 1..Len(stack), j \in 1..Len(queue') :
           stack[i].req.via = "post" /\ queue'[j].via = "post" => stack[i].req.n < queue'[j].n
    BY <2>1, <2>2 DEF Ordered
  <2> QED
    BY <1>3, <2>2, <2>3, <2>4, <2>5 DEF Ordered
<1> QED
  BY <1>6, <1>7, <1>9, <1>10, <1>11

LEMMA OnWorkerInv == ASSUME IInv, NEW c \in Callers, RunOnWorker(c) PROVE IInv'
<1> USE DEF IInv, Shape
<1>1. Request(c, count'[c], "job") \in Reqs
  BY DEF RunOnWorker, Block, Request, Reqs, TypeOK, ViaSet
<1>2. /\ Request(c, count'[c], "job").from = c
      /\ Request(c, count'[c], "job").n = count'[c]
      /\ Request(c, count'[c], "job").via = "job"
  BY DEF Request
<1>3. /\ jobs' = Append(jobs, Request(c, count'[c], "job"))
      /\ state' = [state EXCEPT ![c] = "waiting"] /\ state[c] = "idle"
      /\ count' = [count EXCEPT ![c] = @ + 1] /\ count[c] < MaxCalls
      /\ UNCHANGED <<queue, quit, phase, stack, locked, posted>>
  BY DEF RunOnWorker, Block
<1>4. /\ jobs' \in Seq(Reqs) /\ Len(jobs') = Len(jobs) + 1 /\ Len(jobs) \in Nat
      /\ \A i \in 1..Len(jobs) : jobs'[i] = jobs[i]
      /\ jobs'[Len(jobs) + 1] = Request(c, count'[c], "job")
  BY <1>1, <1>3, Appended
<1>5. \A i \in 1..Len(jobs') : i \in 1..Len(jobs) \/ i = Len(jobs) + 1
  BY <1>4
<1>6. TypeOK'
  BY <1>2, <1>3, <1>4, <1>5, Basics DEF TypeOK
<1>7. Shape' /\ Idle' /\ Locking'
  BY <1>2, <1>3, <1>4, <1>5 DEF Idle, Locking
<1>8. /\ \A i \in 1..Len(queue) : queue[i].from # c
      /\ \A i \in 1..Len(jobs) : jobs[i].from # c
      /\ \A i \in 1..Len(stack) : stack[i].req.from # c
  BY <1>3, NoneLeft
<1>9. Once'
  BY <1>2, <1>3, <1>4, <1>5, <1>8 DEF Once
<1>10. Promises'
  BY <1>2, <1>3, <1>4, <1>5, <1>8 DEF Promises, Alive, TypeOK
<1>11. Ordered'
  BY <1>3 DEF Ordered
<1> QED
  BY <1>6, <1>7, <1>9, <1>10, <1>11

\* Steps that leave what is asked for, and where it is, alone.
LEMMA QuietInv ==
  ASSUME IInv, NEW c \in Callers, GetResult(c) PROVE IInv'
<1> USE DEF IInv, Shape
<1>1. /\ UNCHANGED <<queue, jobs, quit, phase, stack, locked, count, posted>>
      /\ state' = [state EXCEPT ![c] = "idle"] /\ state[c] = "ready"
  BY DEF GetResult
<1>2. TypeOK'
  BY <1>1 DEF TypeOK
<1>3. Shape' /\ Idle' /\ Locking' /\ Once' /\ Ordered'
  BY <1>1 DEF Idle, Locking, Once, Ordered
<1>4. Promises'
  BY <1>1, NoneLeft DEF Promises, Alive, TypeOK
<1> QED
  BY <1>2, <1>3, <1>4

LEMMA StillInv ==
  ASSUME IInv, Quit \/ NextPhase \/ UNCHANGED vars PROVE IInv'
<1> USE DEF IInv, Shape
<1>1. UNCHANGED <<queue, jobs, stack, locked, callers>>
  BY DEF Quit, NextPhase, vars, callers
<1>2. TypeOK' /\ Idle'
  BY DEF Quit, NextPhase, vars, callers, TypeOK, Idle
<1>3. Shape' /\ Locking' /\ Once' /\ Ordered' /\ Promises'
  BY <1>1 DEF callers, Locking, Once, Ordered, Promises, Alive
<1> QED
  BY <1>2, <1>3

-----------------------------------------------------------------------------
(* What the worker does *)

\* The shape of the frames, as TypeOK has it.
Nested(st) ==
    /\ Len(st) <= MaxDepth
    /\ \A i \in 1..Len(st) : /\ i > 1 => st[i].req = Inline
                             /\ i < Len(st) => st[i].at = "plugin"

\* A step that changes the stack and nothing that is asked for.
LEMMA StackStep ==
  ASSUME IInv, UNCHANGED <<queue, jobs, quit, callers>>,
         stack' \in Seq(Frames), Nested(stack'),
         phase' \in {"init", "top", "commands", "jobs", "pump", "gone"},
         locked' \in BOOLEAN, Idle', Locking',
         \A i \in 1..Len(stack') :
            \/ stack'[i].req.from \notin Callers /\ stack'[i].req.via # "post"
            \/ \E j \in 1..Len(stack) : stack'[i].req = stack[j].req
  PROVE  IInv'
<1> USE DEF IInv, Shape
<1>1. TypeOK'
  <2>1. \A i \in 1..Len(stack') :
           /\ stack'[i].req.via \in ViaSet
           /\ stack'[i].at \in {"locked", "dispatch", "plugin", "finish"}
    <3> SUFFICES ASSUME NEW i \in 1..Len(stack')
                 PROVE  /\ stack'[i].req.via \in ViaSet
                        /\ stack'[i].at \in {"locked", "dispatch", "plugin", "finish"}
      OBVIOUS
    <3>1. stack'[i] \in Frames
      OBVIOUS
    <3> QED
      BY <3>1 DEF Frames, Reqs
  <2> QED
    BY <2>1 DEF TypeOK, callers, Nested
<1>2. Shape'
  BY DEF callers
<1>6. \A i \in 1..Len(stack') : stack'[i].req.from \in Callers =>
         \E j \in 1..Len(stack) : stack'[i].req = stack[j].req
  OBVIOUS
<1>3. Once'
  <2>1. ASSUME NEW i \in 1..Len(stack'), stack'[i].req.from \in Callers
        PROVE  /\ \A j \in 1..Len(queue) : queue[j].from # stack'[i].req.from
               /\ \A j \in 1..Len(jobs) : jobs[j].from # stack'[i].req.from
    <3>1. PICK j \in 1..Len(stack) : stack'[i].req = stack[j].req
      BY <1>6, <2>1
    <3> QED
      BY <2>1, <3>1 DEF Once
  <2>2. Once /\ UNCHANGED <<queue, jobs>>
    OBVIOUS
  <2> HIDE DEF IInv, Shape
  <2> QED
    BY <2>1, <2>2 DEF Once
<1>4. Promises'
  <2>1. Promises /\ UNCHANGED <<queue, jobs, state, count>>
    BY DEF callers
  <2> HIDE DEF IInv, Shape
  <2> QED
    BY <1>6, <2>1 DEF Promises, Alive
<1>5. Ordered'
  <2>1. /\ Ordered /\ UNCHANGED <<queue, posted>>
        /\ \A i \in 1..Len(stack') : stack'[i].req.via = "post" =>
              \E j \in 1..Len(stack) : stack'[i].req = stack[j].req
    BY DEF callers
  <2> HIDE DEF IInv, Shape
  <2> QED
    BY <2>1 DEF Ordered
<1> QED
  BY <1>1, <1>2, <1>3, <1>4, <1>5

\* The requests that only the worker makes.
LEMMA OwnRequests ==
  /\ NoRequest \in Reqs /\ Inline \in Reqs
  /\ NoRequest.from \notin Callers /\ Inline.from \notin Callers
  /\ NoRequest.via = "event" /\ Inline.via = "inline"
BY Basics DEF NoRequest, Inline, Request, Reqs, ViaSet

LEMMA StackNested == IInv => Nested(stack)
BY DEF IInv, TypeOK, Shape, Nested

LEMMA StartUpInv == ASSUME IInv, StartUp PROVE IInv'
<1> USE DEF IInv, Shape
<1>1. stack = <<>> /\ ~locked
  BY DEF StartUp, Idle, Locking
<1>2. Frame(NoRequest, "plugin") \in Frames /\ Frame(NoRequest, "plugin").at = "plugin"
      /\ Frame(NoRequest, "plugin").req = NoRequest
  BY OwnRequests DEF Frame, Frames
<1>3. CASE stack' = <<Frame(NoRequest, "plugin")>> /\ phase' = "top"
  <2>1. stack' \in Seq(Frames) /\ Len(stack') = 1 /\ stack'[1] = Frame(NoRequest, "plugin")
    BY <1>2, <1>3, Single
  <2>2. Nested(stack') /\ Idle' /\ Locking'
    BY <1>1, <1>2, <1>3, <2>1, Basics DEF Nested, Idle, Locking, StartUp
  <2> QED
    BY <1>1, <1>2, <1>3, <2>1, <2>2, StackStep, OwnRequests DEF StartUp, TypeOK
<1>4. CASE UNCHANGED stack /\ phase' = "gone"
  <2>1. Nested(stack') /\ Idle' /\ Locking'
    BY <1>1, <1>4, StackNested DEF Idle, Locking, StartUp
  <2> QED
    BY <1>1, <1>4, <2>1, StackStep DEF StartUp, TypeOK
<1> QED
  BY <1>3, <1>4 DEF StartUp

LEMMA EventInv == ASSUME IInv, Event PROVE IInv'
<1> USE DEF IInv, Shape
<1>1. stack = <<>> /\ locked' = TRUE /\ phase' = "top"
  BY DEF Event, Idle
<1>2. Frame(NoRequest, "locked") \in Frames /\ Frame(NoRequest, "locked").at = "locked"
      /\ Frame(NoRequest, "locked").req = NoRequest
  BY OwnRequests DEF Frame, Frames
<1>3. stack' \in Seq(Frames) /\ Len(stack') = 1 /\ stack'[1] = Frame(NoRequest, "locked")
  BY <1>2, Single DEF Event
<1>4. Nested(stack') /\ Idle' /\ Locking'
  BY <1>1, <1>2, <1>3, Basics DEF Nested, Idle, Locking
<1> QED
  BY <1>1, <1>2, <1>3, <1>4, StackStep, OwnRequests DEF Event

\* GoTo: the innermost frame moves on.
LEMMA GoneTo ==
  ASSUME IInv, stack # <<>>,
         NEW where \in {"dispatch", "plugin", "finish"}, GoTo(where)
  PROVE  /\ stack' \in Seq(Frames) /\ Len(stack') = Len(stack) /\ stack' # <<>>
         /\ \A i \in 1..Len(stack) : stack'[i].req = stack[i].req
         /\ \A i \in 1..Len(stack) : i # Len(stack) => stack'[i] = stack[i]
         /\ stack'[Len(stack)].at = where /\ Len(stack) \in 1..Len(stack)
<1> USE DEF IInv, Shape
<1>1. stack' = [stack EXCEPT ![Len(stack)].at = where]
  BY DEF GoTo
<1>2. Len(stack) \in 1..Len(stack) /\ stack[Len(stack)] \in Frames
  OBVIOUS
<1>3. [stack[Len(stack)] EXCEPT !.at = where] \in Frames
  BY <1>2 DEF Frames
<1>4. stack' = [stack EXCEPT ![Len(stack)] = [stack[Len(stack)] EXCEPT !.at = where]]
  BY <1>1
<1>5. stack' \in Seq(Frames) /\ Len(stack') = Len(stack) /\ stack' # <<>>
  BY <1>2, <1>3, <1>4
<1>6. \A i \in 1..Len(stack) : i # Len(stack) => stack'[i] = stack[i]
  BY <1>2, <1>4
<1>7. stack'[Len(stack)] = [stack[Len(stack)] EXCEPT !.at = where]
  BY <1>2, <1>4
<1>8. stack'[Len(stack)].at = where /\ stack'[Len(stack)].req = stack[Len(stack)].req
  BY <1>2, <1>7 DEF Frames
<1> QED
  BY <1>2, <1>5, <1>6, <1>8

LEMMA GoToInv ==
  ASSUME IInv, stack # <<>>, UNCHANGED <<queue, jobs, quit, phase, callers>>, ~locked',
         locked' \in BOOLEAN,
         NEW where \in {"dispatch", "plugin", "finish"}, GoTo(where),
         \A i \in 1..Len(stack) : stack[i].at = "locked" => i = Len(stack)
  PROVE  IInv'
<1> USE DEF IInv, Shape
<1>1. /\ stack' \in Seq(Frames) /\ Len(stack') = Len(stack) /\ stack' # <<>>
      /\ \A i \in 1..Len(stack) : stack'[i].req = stack[i].req
      /\ \A i \in 1..Len(stack) : i # Len(stack) => stack'[i] = stack[i]
      /\ stack'[Len(stack)].at = where /\ Len(stack) \in 1..Len(stack)
  BY GoneTo
<1>2. Nested(stack')
  BY <1>1, StackNested DEF Nested
<1>3. Idle' /\ Locking'
  BY <1>1 DEF Idle, Locking
<1>4. \A i \in 1..Len(stack') : \E j \in 1..Len(stack) : stack'[i].req = stack[j].req
  BY <1>1
<1>5. phase' \in {"init", "top", "commands", "jobs", "pump", "gone"} /\ locked' \in BOOLEAN
  BY DEF TypeOK
<1> QED
  BY <1>1, <1>2, <1>3, <1>4, <1>5, StackStep

\* Without the mutex no frame is in the middle of an event.
LEMMA UnlockedFrames == ASSUME IInv, ~locked
                        PROVE  \A i \in 1..Len(stack) : stack[i].at # "locked"
BY DEF IInv, Locking

LEMMA HandledInv == ASSUME IInv, EventHandled PROVE IInv'
<1> USE DEF IInv, Shape
<1>1. stack # <<>> /\ stack[Len(stack)].at = "locked" /\ locked' = FALSE
  BY DEF EventHandled, At, top
<1>2. Len(stack) \in 1..Len(stack)
  BY <1>1
<1>3. Len(stack) = 1
  BY <1>1, <1>2 DEF Locking
<1>4. CASE stack' = <<>>
  <2>1. stack' \in Seq(Frames) /\ Len(stack') = 0
    BY <1>4
  <2>2. Nested(stack') /\ Idle' /\ Locking'
    BY <1>1, <1>4, <2>1, Basics DEF Nested, Idle, Locking
  <2>3. \A i \in 1..Len(stack') : FALSE
    BY <2>1
  <2> QED
    BY <1>1, <2>1, <2>2, <2>3, StackStep DEF EventHandled, TypeOK
<1>5. CASE GoTo("plugin")
  <2>1. \A i \in 1..Len(stack) : stack[i].at = "locked" => i = Len(stack)
    BY <1>3
  <2>2. UNCHANGED <<queue, jobs, quit, phase, callers>> /\ locked' \in BOOLEAN /\ ~locked'
    BY <1>1 DEF EventHandled
  <2> QED
    BY <1>1, <1>5, <2>1, <2>2, GoToInv
<1> QED
  BY <1>4, <1>5 DEF EventHandled

LEMMA DispatchInv == ASSUME IInv, Dispatch PROVE IInv'
BY GoToInv, UnlockedFrames DEF Dispatch, At, IInv, TypeOK

LEMMA InlineInv == ASSUME IInv, RunCommandInline PROVE IInv'
<1> USE DEF IInv, Shape
<1>1. /\ stack # <<>> /\ stack[Len(stack)].at = "plugin" /\ Len(stack) < MaxDepth
      /\ Len(stack) \in 1..Len(stack)
      /\ UNCHANGED <<queue, jobs, quit, phase, locked, callers>>
  BY DEF RunCommandInline, At, top
<1>2. ~locked
  BY <1>1 DEF Locking
<1>3. Frame(Inline, "dispatch") \in Frames /\ Frame(Inline, "dispatch").at = "dispatch"
      /\ Frame(Inline, "dispatch").req = Inline
  BY OwnRequests DEF Frame, Frames
<1>4. /\ stack' \in Seq(Frames) /\ Len(stack') = Len(stack) + 1
      /\ \A i \in 1..Len(stack) : stack'[i] = stack[i]
      /\ stack'[Len(stack) + 1] = Frame(Inline, "dispatch")
  BY <1>3, Appended DEF RunCommandInline
<1>5. \A i \in 1..Len(stack') : i \in 1..Len(stack) \/ i = Len(stack) + 1
  BY <1>4
<1>6. Nested(stack')
  BY <1>1, <1>3, <1>4, <1>5, StackNested, Basics DEF Nested
<1>7. Idle' /\ Locking'
  BY <1>1, <1>2, <1>3, <1>4, <1>5 DEF Idle, Locking
<1>8. \A i \in 1..Len(stack') :
         \/ stack'[i].req.from \notin Callers /\ stack'[i].req.via # "post"
         \/ \E j \in 1..Len(stack) : stack'[i].req = stack[j].req
  BY <1>3, <1>4, <1>5, OwnRequests
<1>9. phase' \in {"init", "top", "commands", "jobs", "pump", "gone"} /\ locked' \in BOOLEAN
  BY <1>1 DEF TypeOK
<1> QED
  BY <1>1, <1>4, <1>6, <1>7, <1>8, <1>9, StackStep

LEMMA ReturnsInv == ASSUME IInv, PluginReturns PROVE IInv'
<1> USE DEF IInv, Shape
<1>1. stack # <<>> /\ ~locked /\ UNCHANGED <<queue, jobs, quit, phase, locked, callers>>
  BY DEF PluginReturns, At
<1>2. CASE stack' = <<>>
  <2>1. stack' \in Seq(Frames) /\ Len(stack') = 0
    BY <1>2
  <2>2. Nested(stack') /\ Idle' /\ Locking'
    BY <1>1, <1>2, <2>1, Basics DEF Nested, Idle, Locking
  <2>3. \A i \in 1..Len(stack') : FALSE
    BY <2>1
  <2> QED
    BY <1>1, <2>1, <2>2, <2>3, StackStep DEF TypeOK
<1>3. CASE GoTo("finish")
  BY <1>1, <1>3, GoToInv, UnlockedFrames DEF TypeOK
<1> QED
  BY <1>2, <1>3 DEF PluginReturns

\* The worker is inside the oldest command, and the queue has it no longer.
LEMMA TakeInv == ASSUME IInv, TakeCommand PROVE IInv'
<1> USE DEF IInv, Shape
<1>1. /\ phase = "commands" /\ stack = <<>> /\ queue # <<>>
      /\ queue' = Tail(queue) /\ UNCHANGED <<jobs, quit, phase, locked, callers>>
  BY DEF TakeCommand
<1>2. /\ queue' \in Seq(Reqs) /\ Len(queue') = Len(queue) - 1 /\ Len(queue) \in Nat \ {0}
      /\ \A i \in 1..Len(queue') : i + 1 \in 1..Len(queue) /\ queue'[i] = queue[i + 1]
      /\ Head(queue) = queue[1] /\ 1 \in 1..Len(queue) /\ queue[1] \in Reqs
  BY <1>1, Tailed
<1>3. /\ Frame(queue[1], "dispatch") \in Frames /\ Frame(queue[1], "dispatch").at = "dispatch"
      /\ Frame(queue[1], "dispatch").req = queue[1]
  BY <1>2 DEF Frame, Frames
<1>4. stack' \in Seq(Frames) /\ Len(stack') = 1 /\ stack'[1] = Frame(queue[1], "dispatch")
  BY <1>2, <1>3, Single DEF TakeCommand
<1>5. ~locked
  BY <1>1 DEF Locking
<1>6. TypeOK'
  <2>1. ASSUME NEW i \in 1..Len(queue') PROVE queue'[i].via \in {"post", "call"}
    BY <1>2, Kinds
  <2>2. /\ stack'[1].req.via \in ViaSet /\ stack'[1].at = "dispatch"
    BY <1>2, <1>3, <1>4 DEF Reqs
  <2> QED
    BY <1>1, <1>2, <1>4, <2>1, <2>2, Basics DEF TypeOK, callers
<1>7. Shape' /\ Idle' /\ Locking'
  BY <1>1, <1>2, <1>3, <1>4, <1>5 DEF Idle, Locking
<1>8. Once'
  <2>1. ASSUME NEW i \in 1..Len(queue'), NEW j \in 1..Len(queue'),
               queue'[i].from \in Callers, queue'[j].from = queue'[i].from
        PROVE  i = j
    <3>1. /\ i + 1 \in 1..Len(queue) /\ queue'[i] = queue[i + 1]
          /\ j + 1 \in 1..Len(queue) /\ queue'[j] = queue[j + 1]
      BY <1>2
    <3>2. i + 1 = j + 1
      BY <2>1, <3>1 DEF Once
    <3> QED
      BY <1>2, <3>2
  <2>2. ASSUME queue[1].from \in Callers, NEW j \in 1..Len(queue')
        PROVE  queue'[j].from # queue[1].from
    <3>1. j + 1 \in 1..Len(queue) /\ queue'[j] = queue[j + 1] /\ j + 1 # 1
      BY <1>2
    <3> QED
      BY <1>2, <2>2, <3>1 DEF Once
  <2>3. ASSUME NEW i \in 1..Len(queue'), NEW j \in 1..Len(jobs)
        PROVE  queue'[i].from # jobs[j].from
    <3>1. i + 1 \in 1..Len(queue) /\ queue'[i] = queue[i + 1]
      BY <1>2
    <3> QED
      BY <3>1 DEF Once
  <2>4. \A j \in 1..Len(jobs) : queue[1].from # jobs[j].from
    BY <1>2 DEF Once
  <2> QED
    BY <1>1, <1>3, <1>4, <2>1, <2>2, <2>3, <2>4 DEF Once
<1>9. Promises'
  <2>1. \A i \in 1..Len(queue') : Alive(queue[i])'
    BY <1>1, <1>2 DEF Promises, Alive, callers
  <2>2. Alive(stack[1].req)'
    BY <1>1, <1>2, <1>3, <1>4 DEF Promises, Alive, callers
  <2> QED
    BY <1>1, <1>4, <2>1, <2>2 DEF Promises, Alive, callers
<1>10. Ordered'
  <2>1. ASSUME NEW i \in 1..Len(queue'), NEW j \in 1..Len(queue'), i < j,
               queue'[i].via = "post", queue'[j].via = "post"
        PROVE  queue'[i].n < queue'[j].n
    <3>1. /\ i + 1 \in 1..Len(queue) /\ queue'[i] = queue[i + 1]
          /\ j + 1 \in 1..Len(queue) /\ queue'[j] = queue[j + 1]
      BY <1>2
    <3>2. i + 1 < j + 1
      BY <1>2, <2>1
    <3> QED
      BY <2>1, <3>1, <3>2 DEF Ordered
  <2>2. \A j \in 1..Len(queue') :
           queue[1].via = "post" /\ queue'[j].via = "post" => queue[1].n < queue'[j].n
    <3>1. \A j \in 1..Len(queue') : 1 < j + 1
      BY <1>2
    <3> QED
      BY <1>2, <3>1 DEF Ordered
  <2>3. /\ \A i \in 1..Len(queue') : queue'[i].via = "post" => queue'[i].n <= posted
        /\ queue[1].via = "post" => queue[1].n <= posted
    BY <1>2 DEF Ordered
  <2> QED
    BY <1>1, <1>3, <1>4, <2>1, <2>2, <2>3 DEF Ordered, callers
<1> QED
  BY <1>6, <1>7, <1>8, <1>9, <1>10

\* A promise is set: the caller's request is nowhere else.
LEMMA Answered ==
  ASSUME IInv, NEW r \in Reqs, Answer(r)
  PROVE  /\ \A c \in Callers : c # r.from => state'[c] = state[c]
         /\ r.from \in Callers => state'[r.from] = "ready"
         /\ state' \in [Callers -> {"idle", "waiting", "ready"}]
BY DEF Answer, IInv, TypeOK

LEMMA JobInv == ASSUME IInv, RunJob PROVE IInv'
<1> USE DEF IInv, Shape
<1>1. /\ phase = "jobs" /\ jobs # <<>> /\ jobs' = Tail(jobs)
      /\ UNCHANGED <<queue, quit, phase, stack, locked, count, posted>>
  BY DEF RunJob
<1>2. stack = <<>>
  BY <1>1 DEF Idle
<1>3. /\ jobs' \in Seq(Reqs) /\ Len(jobs') = Len(jobs) - 1 /\ Len(jobs) \in Nat \ {0}
      /\ \A i \in 1..Len(jobs') : i + 1 \in 1..Len(jobs) /\ jobs'[i] = jobs[i + 1]
      /\ Head(jobs) = jobs[1] /\ 1 \in 1..Len(jobs) /\ jobs[1] \in Reqs
  BY <1>1, Tailed
<1>4. /\ \A c \in Callers : c # jobs[1].from => state'[c] = state[c]
      /\ state' \in [Callers -> {"idle", "waiting", "ready"}]
  BY <1>3, Answered DEF RunJob
<1>5. TypeOK'
  <2>1. ASSUME NEW i \in 1..Len(jobs') PROVE jobs'[i].via = "job" /\ jobs'[i].from \in Callers
    BY <1>3, Kinds
  <2> QED
    BY <1>1, <1>3, <1>4, <2>1 DEF TypeOK
<1>6. Shape' /\ Idle' /\ Locking' /\ Ordered'
  BY <1>1, <1>3 DEF Idle, Locking, Ordered
<1>7. Once'
  <2>1. ASSUME NEW i \in 1..Len(jobs'), NEW j \in 1..Len(jobs'), jobs'[j].from = jobs'[i].from
        PROVE  i = j
    <3>1. /\ i + 1 \in 1..Len(jobs) /\ jobs'[i] = jobs[i + 1]
          /\ j + 1 \in 1..Len(jobs) /\ jobs'[j] = jobs[j + 1]
      BY <1>3
    <3>2. i + 1 = j + 1
      BY <2>1, <3>1 DEF Once
    <3> QED
      BY <1>3, <3>2
  <2>2. ASSUME NEW i \in 1..Len(queue), NEW j \in 1..Len(jobs') PROVE queue[i].from # jobs'[j].from
    <3>1. j + 1 \in 1..Len(jobs) /\ jobs'[j] = jobs[j + 1]
      BY <1>3
    <3> QED
      BY <3>1 DEF Once
  <2> QED
    BY <1>1, <1>2, <2>1, <2>2 DEF Once
<1>8. Promises'
  <2>1. ASSUME NEW i \in 1..Len(jobs') PROVE jobs'[i].from # jobs[1].from
    <3>1. i + 1 \in 1..Len(jobs) /\ jobs'[i] = jobs[i + 1] /\ i + 1 # 1
      BY <1>3
    <3> QED
      BY <1>3, <3>1 DEF Once
  <2>2. ASSUME NEW i \in 1..Len(jobs') PROVE Alive(jobs[i])'
    <3>1. i + 1 \in 1..Len(jobs) /\ jobs'[i] = jobs[i + 1]
      BY <1>3
    <3>2. Alive(jobs[i + 1])
      BY <3>1 DEF Promises
    <3>3. jobs'[i].from \in Callers => state'[jobs'[i].from] = state[jobs'[i].from]
      BY <1>4, <2>1
    <3> HIDE DEF IInv, Shape
    <3> QED
      BY <1>1, <3>1, <3>2, <3>3 DEF Alive
  <2>3. \A i \in 1..Len(queue) : queue[i].from # jobs[1].from
    BY <1>3 DEF Once
  <2>4. \A i \in 1..Len(queue) : Alive(queue[i])'
    BY <1>1, <1>4, <2>3 DEF Promises, Alive
  <2> QED
    BY <1>1, <1>2, <2>2, <2>4 DEF Promises, Alive
<1> QED
  BY <1>5, <1>6, <1>7, <1>8

LEMMA FinishInv == ASSUME IInv, Finish PROVE IInv'
<1> USE DEF IInv, Shape
<1>1. /\ stack # <<>> /\ ~locked /\ stack' = Front(stack) /\ stack[Len(stack)].at = "finish"
      /\ Len(stack) \in 1..Len(stack)
      /\ UNCHANGED <<queue, jobs, quit, phase, locked, count, posted>>
  BY DEF Finish, At, top
<1>2. /\ stack' \in Seq(Frames) /\ Len(stack') = Len(stack) - 1 /\ Len(stack) \in Nat \ {0}
      /\ \A i \in 1..Len(stack') : i \in 1..Len(stack) /\ i # Len(stack) /\ stack'[i] = stack[i]
  <2>1. /\ stack' \in Seq(Frames) /\ Len(stack') = Len(stack) - 1 /\ Len(stack) \in Nat \ {0}
        /\ \A i \in 1..Len(stack') : i \in 1..Len(stack) /\ stack'[i] = stack[i]
    BY <1>1, Fronted
  <2> QED
    BY <2>1
<1> DEFINE r == stack[Len(stack)].req
<1>3. r \in Reqs
  BY <1>1, Kinds
<1>4. /\ \A c \in Callers : c # r.from => state'[c] = state[c]
      /\ state' \in [Callers -> {"idle", "waiting", "ready"}]
  <2>1. Answer(r)
    BY DEF Finish, top
  <2> QED
    BY <1>3, <2>1, Answered
<1>5. r.from \in Callers => Len(stack) = 1
  <2>1. Len(stack) > 1 => r = Inline
    BY <1>1, Kinds
  <2> QED
    BY <1>2, <2>1, OwnRequests
<1>6. TypeOK'
  <2>1. Nested(stack')
    <3>1. ASSUME NEW i \in 1..Len(stack')
          PROVE  i \in 1..Len(stack) /\ i < Len(stack) /\ stack'[i] = stack[i]
      <4>1. i \in 1..Len(stack) /\ i # Len(stack) /\ stack'[i] = stack[i]
        BY <1>2
      <4> QED
        BY <1>2, <4>1
    <3>2. ASSUME NEW i \in 1..Len(stack')
          PROVE  (i > 1 => stack'[i].req = Inline) /\ stack'[i].at = "plugin"
      BY <3>1, Kinds
    <3>3. Len(stack') <= MaxDepth
      BY <1>2, Basics DEF TypeOK
    <3> QED
      BY <3>2, <3>3 DEF Nested
  <2>2. ASSUME NEW i \in 1..Len(stack')
        PROVE  stack'[i].req.via \in ViaSet /\ stack'[i].at \in {"locked", "dispatch", "plugin", "finish"}
    BY <1>2, Kinds
  <2> QED
    BY <1>1, <1>2, <1>4, <2>1, <2>2 DEF TypeOK, Nested
<1>7. Shape' /\ Idle' /\ Locking'
  <2>1. Idle'
    BY <1>1 DEF Idle
  <2>2. Locking'
    <3>1. \A i \in 1..Len(stack') : stack'[i].at # "locked"
      BY <1>1, <1>2, UnlockedFrames
    <3> HIDE DEF IInv, Shape
    <3> QED
      BY <1>1, <3>1 DEF Locking
  <2>3. /\ \A i \in 1..Len(queue') : queue'[i].via = "post" => queue'[i].from = "gui"
        /\ queue' \in Seq(Reqs) /\ jobs' \in Seq(Reqs)
    BY <1>1
  <2>4. \A i \in 1..Len(stack') : stack'[i].req.via = "post" => stack'[i].req.from = "gui"
    BY <1>2
  <2>5. Shape'
    <3> HIDE DEF IInv
    <3> QED
      BY <1>2, <2>3, <2>4
  <2> QED
    BY <2>1, <2>2, <2>5
<1>8. Once'
  <2>1. ASSUME NEW i \in 1..Len(stack'), stack'[i].req.from \in Callers
        PROVE  /\ \A j \in 1..Len(queue) : queue[j].from # stack'[i].req.from
               /\ \A j \in 1..Len(jobs) : jobs[j].from # stack'[i].req.from
    <3>1. i \in 1..Len(stack) /\ stack'[i] = stack[i]
      BY <1>2
    <3> QED
      BY <2>1, <3>1 DEF Once
  <2> QED
    BY <1>1, <2>1 DEF Once
<1>9. Promises'
  <2>1. CASE r.from \in Callers
    <3>1. \A i \in 1..Len(queue) : queue[i].from # r.from
      BY <1>1, <2>1 DEF Once
    <3>2. \A i \in 1..Len(jobs) : jobs[i].from # r.from
      BY <1>1, <2>1 DEF Once
    <3>3. \A i \in 1..Len(stack') : FALSE
      <4>1. Len(stack') = 0
        BY <1>2, <1>5, <2>1
      <4> HIDE DEF IInv, Shape
      <4> QED
        BY <4>1
    <3>4. \A i \in 1..Len(queue) : Alive(queue[i])'
      BY <1>1, <1>4, <3>1 DEF Promises, Alive
    <3>5. \A i \in 1..Len(jobs) : Alive(jobs[i])'
      BY <1>1, <1>4, <3>2 DEF Promises, Alive
    <3> QED
      BY <1>1, <3>3, <3>4, <3>5 DEF Promises, Alive
  <2>2. CASE r.from \notin Callers
    <3>1. \A c \in Callers : state'[c] = state[c]
      BY <1>4, <2>2
    <3>2. ASSUME NEW i \in 1..Len(stack') PROVE Alive(stack[i].req)'
      <4>1. i \in 1..Len(stack) /\ stack'[i] = stack[i]
        BY <1>2
      <4>2. Alive(stack[i].req)
        BY <4>1 DEF Promises
      <4>3. count' = count /\ stack[i].req.from \in Callers =>
               state'[stack[i].req.from] = state[stack[i].req.from]
        BY <3>1
      <4>4. count' = count
        BY <1>1
      <4> HIDE DEF IInv, Shape
      <4> QED
        BY <4>1, <4>2, <4>3, <4>4 DEF Alive
    <3>3. Promises /\ UNCHANGED <<queue, jobs, count>>
      BY <1>1
    <3> HIDE DEF IInv, Shape
    <3>4. \A i \in 1..Len(queue) : Alive(queue[i])'
      BY <3>1, <3>3 DEF Promises, Alive
    <3>5. \A i \in 1..Len(jobs) : Alive(jobs[i])'
      BY <3>1, <3>3 DEF Promises, Alive
    <3>6. \A i \in 1..Len(stack') : Alive(stack[i].req)'
      BY <3>2
    <3> QED
      BY <3>3, <3>4, <3>5, <3>6 DEF Promises, Alive
  <2> QED
    BY <2>1, <2>2
<1>10. Ordered'
  <2>1. Ordered /\ UNCHANGED <<queue, posted>>
    BY <1>1
  <2>2. \A i \in 1..Len(stack') : i \in 1..Len(stack) /\ stack'[i] = stack[i]
    BY <1>2
  <2> HIDE DEF IInv, Shape
  <2> QED
    BY <2>1, <2>2 DEF Ordered
<1> QED
  BY <1>6, <1>7, <1>8, <1>9, <1>10

\* IInv is inductive.
LEMMA NextIInv == IInv /\ [Next]_vars => IInv'
BY PushInv, BlockingInv, OnWorkerInv, QuietInv, StillInv, StartUpInv, EventInv, HandledInv,
   DispatchInv, InlineInv, ReturnsInv, TakeInv, JobInv, FinishInv DEF Next, Client, Worker

LEMMA Invariance == Spec => []IInv
BY InitIInv, NextIInv, PTL DEF Spec

-----------------------------------------------------------------------------
\* The types of queues, stack and callers.
THEOREM TypeCorrect == Spec => []TypeOK
BY Invariance, PTL DEF IInv

\* Whatever queue, jobs and worker hold is a request its caller still waits for,
\* so the promise on the caller's stack is there when it is set.
THEOREM PromisesAlwaysAlive == Spec => []PromiseAlive
<1>1. IInv => PromiseAlive
  BY DEF IInv, Shape, Promises, Alive, PromiseAlive, Outstanding, Unexecuted
<1> QED
  BY <1>1, Invariance, PTL

\* No callback runs with m_stateMutex held.
THEOREM CallbacksAlwaysUnlocked == Spec => []CallbacksUnlocked
<1>1. IInv => CallbacksUnlocked
  BY DEF IInv, Shape, Locking, CallbacksUnlocked
<1> QED
  BY <1>1, Invariance, PTL

-----------------------------------------------------------------------------
(* The channel implements RequestReply *)

\* A number is pending if a post in the queue or in the worker has it.
LEMMA Pending ==
  ASSUME Shape
  PROVE  \A n : n \in PendingPosts <=>
            \/ \E i \in 1..Len(queue) : queue[i].via = "post" /\ queue[i].n = n
            \/ \E i \in 1..Len(stack) : stack[i].req.via = "post" /\ stack[i].req.n = n
BY DEF Shape, PendingPosts, Unexecuted

\* Another command is pushed: it is pending with those that were.
LEMMA PushPosts ==
  ASSUME IInv, IInv', PushCommand PROVE Abstract!Post
<1> USE DEF IInv
<1>1. /\ queue' = Append(queue, Request("gui", posted', "post"))
      /\ posted' = posted + 1 /\ UNCHANGED <<stack, state>>
  BY DEF PushCommand
<1>2. /\ Request("gui", posted', "post").n = posted' /\ Request("gui", posted', "post").via = "post"
      /\ Request("gui", posted', "post") \in Reqs
  BY DEF PushCommand, Request, Reqs, TypeOK, ViaSet
<1>3. /\ Len(queue') = Len(queue) + 1 /\ Len(queue) \in Nat
      /\ \A i \in 1..Len(queue) : queue'[i] = queue[i]
      /\ queue'[Len(queue) + 1] = Request("gui", posted', "post")
  BY <1>1, <1>2, Appended DEF Shape
<1>4. \A i : i \in 1..Len(queue') <=> i \in 1..Len(queue) \/ i = Len(queue) + 1
  BY <1>3
<1>5. \A n : n \in PendingPosts' <=> n \in PendingPosts \/ n = posted'
  <2>1. \A n : n \in PendingPosts' <=>
          \/ \E i \in 1..Len(queue') : queue'[i].via = "post" /\ queue'[i].n = n
          \/ \E i \in 1..Len(stack) : stack[i].req.via = "post" /\ stack[i].req.n = n
    <3>1. \A n : n \in PendingPosts' <=>
            \/ \E i \in 1..Len(queue') : queue'[i].via = "post" /\ queue'[i].n = n
            \/ \E i \in 1..Len(stack') : stack'[i].req.via = "post" /\ stack'[i].req.n = n
      BY DEF Shape, PendingPosts, Unexecuted
    <3> QED
      BY <1>1, <3>1
  <2>2. \A n : (\E i \in 1..Len(queue') : queue'[i].via = "post" /\ queue'[i].n = n) <=>
          \/ \E i \in 1..Len(queue) : queue[i].via = "post" /\ queue[i].n = n
          \/ n = posted'
    BY <1>2, <1>3, <1>4
  <2> QED
    BY <2>1, <2>2, Pending
<1>6. PendingPosts' = PendingPosts \cup {posted'}
  BY <1>5
<1> QED
  BY <1>1, <1>6 DEF Abstract!Post

\* What is pending depends on nothing but queue and stack.
LEMMA SamePosts ==
  ASSUME IInv, IInv',
         \A n : (\/ \E i \in 1..Len(queue) : queue[i].via = "post" /\ queue[i].n = n
                \/ \E i \in 1..Len(stack) : stack[i].req.via = "post" /\ stack[i].req.n = n) <=>
               (\/ \E i \in 1..Len(queue') : queue'[i].via = "post" /\ queue'[i].n = n
                \/ \E i \in 1..Len(stack') : stack'[i].req.via = "post" /\ stack'[i].req.n = n)
  PROVE  PendingPosts' = PendingPosts
<1>1. \A n : n \in PendingPosts' <=>
          \/ \E i \in 1..Len(queue') : queue'[i].via = "post" /\ queue'[i].n = n
          \/ \E i \in 1..Len(stack') : stack'[i].req.via = "post" /\ stack'[i].req.n = n
  BY DEF IInv, Shape, PendingPosts, Unexecuted
<1>2. \A n : n \in PendingPosts' <=> n \in PendingPosts
  BY <1>1, Pending DEF IInv
<1> QED
  BY <1>2

LEMMA AskStep ==
  ASSUME IInv, IInv', NEW c \in Callers, PushCommandBlocking(c) \/ RunOnWorker(c)
  PROVE  Abstract!Ask(c)
<1>1. /\ state[c] = "idle" /\ state' = [state EXCEPT ![c] = "waiting"]
      /\ UNCHANGED <<stack, posted>>
  BY DEF PushCommandBlocking, RunOnWorker, Block
<1>2. CASE PushCommandBlocking(c)
  <2>1. queue' = Append(queue, Request(c, count'[c], "call"))
    BY <1>2 DEF PushCommandBlocking
  <2>2. /\ Request(c, count'[c], "call") \in Reqs /\ Request(c, count'[c], "call").via = "call"
    BY <1>2 DEF PushCommandBlocking, Block, Request, Reqs, IInv, TypeOK, ViaSet
  <2>3. /\ Len(queue') = Len(queue) + 1 /\ Len(queue) \in Nat
        /\ \A i \in 1..Len(queue) : queue'[i] = queue[i]
        /\ queue'[Len(queue) + 1] = Request(c, count'[c], "call")
    BY <2>1, <2>2, Appended DEF IInv, Shape
  <2>4. \A i : i \in 1..Len(queue') <=> i \in 1..Len(queue) \/ i = Len(queue) + 1
    BY <2>3
  <2>5. \A n : (\E i \in 1..Len(queue') : queue'[i].via = "post" /\ queue'[i].n = n) <=>
               (\E i \in 1..Len(queue) : queue[i].via = "post" /\ queue[i].n = n)
    BY <2>2, <2>3, <2>4
  <2>6. PendingPosts' = PendingPosts
    BY <1>1, <2>5, SamePosts
  <2> QED
    BY <1>1, <2>6 DEF Abstract!Ask, Abstract!queue
<1>3. CASE RunOnWorker(c)
  <2>1. PendingPosts' = PendingPosts
    BY <1>1, <1>3 DEF RunOnWorker, PendingPosts, Unexecuted
  <2> QED
    BY <1>1, <2>1 DEF Abstract!Ask, Abstract!queue
<1> QED
  BY <1>2, <1>3

LEMMA ReturnStep ==
  ASSUME NEW c \in Callers, GetResult(c) PROVE Abstract!Return(c)
<1>1. PendingPosts' = PendingPosts
  BY DEF GetResult, PendingPosts, Unexecuted
<1> QED
  BY <1>1 DEF GetResult, Abstract!Return, Abstract!queue

\* Setting a promise is the abstract execution of the request.
LEMMA AnswerStep ==
  ASSUME IInv, NEW r \in Reqs, r.from \in Callers, Alive(r), Answer(r),
         PendingPosts' = PendingPosts, posted' = posted
  PROVE  Abstract!Execute(r.from)
BY DEF Alive, Answer, Abstract!Execute, Abstract!queue

LEMMA JobStep == ASSUME IInv, RunJob PROVE \E c \in Callers : Abstract!Execute(c)
<1>1. Head(jobs) = jobs[1] /\ 1 \in 1..Len(jobs) /\ jobs[1] \in Reqs
  BY Tailed DEF RunJob, IInv, Shape
<1>2. jobs[1].from \in Callers /\ Alive(jobs[1])
  BY <1>1, Kinds DEF IInv, Promises
<1>3. PendingPosts' = PendingPosts /\ posted' = posted /\ Answer(jobs[1])
  BY <1>1 DEF RunJob, PendingPosts, Unexecuted
<1> QED
  BY <1>1, <1>2, <1>3, AnswerStep

LEMMA TakeStep == ASSUME IInv, IInv', TakeCommand PROVE UNCHANGED Abstract!vars
<1>1. /\ stack = <<>> /\ queue # <<>> /\ queue' = Tail(queue) /\ UNCHANGED callers
      /\ stack' = <<Frame(Head(queue), "dispatch")>>
  BY DEF TakeCommand
<1>2. /\ Len(queue') = Len(queue) - 1 /\ Len(queue) \in Nat \ {0}
      /\ \A i \in 1..Len(queue') : i + 1 \in 1..Len(queue) /\ queue'[i] = queue[i + 1]
      /\ Head(queue) = queue[1] /\ 1 \in 1..Len(queue)
  BY <1>1, Tailed DEF IInv, Shape
<1>3. Len(stack') = 1 /\ stack'[1].req = queue[1]
  BY <1>1, <1>2 DEF Frame
<1>4. ASSUME NEW n
      PROVE  (\E i \in 1..Len(queue) : queue[i].via = "post" /\ queue[i].n = n) <=>
             (\/ \E i \in 1..Len(queue') : queue'[i].via = "post" /\ queue'[i].n = n
              \/ queue[1].via = "post" /\ queue[1].n = n)
  <2>1. ASSUME NEW i \in 1..Len(queue), i # 1
        PROVE  i - 1 \in 1..Len(queue') /\ queue'[i - 1] = queue[i]
    <3>1. i - 1 \in 1..Len(queue') /\ (i - 1) + 1 = i
      BY <1>2, <2>1
    <3> QED
      BY <1>2, <3>1
  <2>2. ASSUME NEW i \in 1..Len(queue), queue[i].via = "post" /\ queue[i].n = n
        PROVE  \/ \E j \in 1..Len(queue') : queue'[j].via = "post" /\ queue'[j].n = n
               \/ queue[1].via = "post" /\ queue[1].n = n
    <3>1. CASE i = 1
      BY <2>2, <3>1
    <3>2. CASE i # 1
      BY <2>1, <2>2, <3>2
    <3> QED
      BY <3>1, <3>2
  <2>3. ASSUME NEW i \in 1..Len(queue'), queue'[i].via = "post" /\ queue'[i].n = n
        PROVE  \E j \in 1..Len(queue) : queue[j].via = "post" /\ queue[j].n = n
    BY <1>2, <2>3
  <2> QED
    BY <1>2, <2>2, <2>3
<1>5. PendingPosts' = PendingPosts
  BY <1>1, <1>3, <1>4, SamePosts
<1> QED
  BY <1>1, <1>5 DEF callers, Abstract!vars

LEMMA FinishStep ==
  ASSUME IInv, IInv', Finish
  PROVE  \/ UNCHANGED Abstract!vars
         \/ Abstract!ExecutePost
         \/ \E c \in Callers : Abstract!Execute(c)
<1>1. /\ stack # <<>> /\ stack' = Front(stack) /\ Answer(stack[Len(stack)].req)
      /\ Len(stack) \in 1..Len(stack)
      /\ UNCHANGED <<queue, posted>>
  BY DEF Finish, At, top, IInv, Shape
<1>2. /\ Len(stack') = Len(stack) - 1 /\ Len(stack) \in Nat \ {0}
      /\ \A i \in 1..Len(stack') : i \in 1..Len(stack) /\ stack'[i] = stack[i]
  BY <1>1, Fronted DEF IInv, Shape
<1> DEFINE r == stack[Len(stack)].req
<1>3. r \in Reqs /\ Alive(r) /\ (Len(stack) > 1 => r = Inline)
  BY <1>1, Kinds DEF IInv, Promises
<1>4. \A i \in 1..Len(stack) : i # Len(stack) => i \in 1..Len(stack')
  BY <1>2
<1>5. CASE r.via = "post"
  <2>1. Len(stack) = 1 /\ r.from = "gui"
    BY <1>1, <1>2, <1>3, <1>5, OwnRequests DEF IInv, Shape
  <2>2. state' = state
    BY <1>1, <2>1, Basics DEF Answer
  <2>3. \A n : n \in PendingPosts' <=>
           \E i \in 1..Len(queue) : queue[i].via = "post" /\ queue[i].n = n
    <3>1. \A i \in 1..Len(stack') : FALSE
      BY <1>2, <2>1
    <3> QED
      BY <1>1, <3>1 DEF IInv, Shape, PendingPosts, Unexecuted
  <2>4. \A n : n \in PendingPosts <=> n \in PendingPosts' \/ n = r.n
    BY <1>1, <1>5, <2>1, <2>3, Pending DEF IInv
  <2>5. \A n \in PendingPosts' : n \in Nat /\ r.n \in Nat /\ r.n < n
    BY <1>1, <1>5, <2>3, Numbers DEF IInv, Ordered
  <2>6. r.n \in PendingPosts /\ r.n \in Nat
    BY <1>1, <2>4, Numbers DEF IInv
  <2>7. /\ \A m \in PendingPosts : r.n <= m
        /\ PendingPosts' = PendingPosts \ {r.n}
    BY <2>4, <2>5, <2>6
  <2> QED
    BY <1>1, <2>2, <2>6, <2>7 DEF Abstract!ExecutePost
<1>6. CASE r.via # "post"
  <2>1. \A n : (\E i \in 1..Len(stack) : stack[i].req.via = "post" /\ stack[i].req.n = n) <=>
               (\E i \in 1..Len(stack') : stack'[i].req.via = "post" /\ stack'[i].req.n = n)
    BY <1>1, <1>2, <1>4, <1>6
  <2>2. PendingPosts' = PendingPosts
    BY <1>1, <2>1, SamePosts
  <2>3. CASE r.from \in Callers
    BY <1>1, <1>3, <2>2, <2>3, AnswerStep
  <2>4. CASE r.from \notin Callers
    BY <1>1, <2>2, <2>4 DEF Answer, Abstract!vars
  <2> QED
    BY <2>3, <2>4
<1> QED
  BY <1>5, <1>6

\* Steps on the stack that neither take nor answer a request.
LEMMA StackSteps ==
  ASSUME IInv, IInv', UNCHANGED <<queue, callers>>,
         \A i \in 1..Len(stack') :
            stack'[i].req.via = "post" => \E j \in 1..Len(stack) : stack[j].req = stack'[i].req,
         \A i \in 1..Len(stack) :
            stack[i].req.via = "post" => \E j \in 1..Len(stack') : stack'[j].req = stack[i].req
  PROVE  UNCHANGED Abstract!vars
<1>1. PendingPosts' = PendingPosts
  BY SamePosts
<1> QED
  BY <1>1 DEF callers, Abstract!vars

LEMMA GoToStep ==
  ASSUME IInv, IInv', stack # <<>>, UNCHANGED <<queue, callers>>,
         NEW where \in {"dispatch", "plugin", "finish"}, GoTo(where)
  PROVE  UNCHANGED Abstract!vars
<1>1. Len(stack') = Len(stack) /\ \A i \in 1..Len(stack) : stack'[i].req = stack[i].req
  BY GoneTo
<1> QED
  BY <1>1, StackSteps

LEMMA SameStep ==
  ASSUME IInv, IInv', UNCHANGED <<queue, stack, callers>> PROVE UNCHANGED Abstract!vars
BY StackSteps

\* The worker enters a plugin's callback or an event.
LEMMA StartUpStep == ASSUME IInv, IInv', StartUp PROVE UNCHANGED Abstract!vars
<1>1. CASE UNCHANGED stack
  BY <1>1, SameStep DEF StartUp
<1>2. CASE stack' = <<Frame(NoRequest, "plugin")>>
  <2>1. stack = <<>>
    BY DEF StartUp, IInv, Idle
  <2>2. Len(stack') = 1 /\ stack'[1].req.via # "post"
    BY <1>2, OwnRequests DEF Frame
  <2> QED
    BY <2>1, <2>2, StackSteps DEF StartUp
<1> QED
  BY <1>1, <1>2 DEF StartUp

LEMMA EventStep == ASSUME IInv, IInv', Event PROVE UNCHANGED Abstract!vars
<1>1. stack = <<>>
  BY DEF Event, IInv, Idle
<1>2. Len(stack') = 1 /\ stack'[1].req.via # "post"
  BY OwnRequests DEF Frame, Event
<1> QED
  BY <1>1, <1>2, StackSteps DEF Event

LEMMA HandledStep == ASSUME IInv, IInv', EventHandled PROVE UNCHANGED Abstract!vars
<1>1. stack # <<>> /\ stack[Len(stack)].at = "locked" /\ Len(stack) \in 1..Len(stack)
  BY DEF EventHandled, At, top, IInv, Shape
<1>2. Len(stack) = 1 /\ stack[1].req = NoRequest
  BY <1>1 DEF IInv, Locking
<1>3. CASE stack' = <<>>
  <2>1. \A i \in 1..Len(stack') : FALSE
    BY <1>3
  <2>2. \A i \in 1..Len(stack) : stack[i].req.via # "post"
    BY <1>2, OwnRequests
  <2> QED
    BY <2>1, <2>2, StackSteps DEF EventHandled
<1>4. CASE GoTo("plugin")
  BY <1>1, <1>4, GoToStep DEF EventHandled
<1> QED
  BY <1>3, <1>4 DEF EventHandled

LEMMA DispatchStep == ASSUME IInv, IInv', Dispatch PROVE UNCHANGED Abstract!vars
BY GoToStep DEF Dispatch, At

\* A plugin's inline command is in no queue.
LEMMA InlineStep == ASSUME IInv, IInv', RunCommandInline PROVE UNCHANGED Abstract!vars
<1>1. Frame(Inline, "dispatch") \in Frames /\ Frame(Inline, "dispatch").req = Inline
  BY OwnRequests DEF Frame, Frames
<1>2. /\ Len(stack') = Len(stack) + 1 /\ Len(stack) \in Nat
      /\ \A i \in 1..Len(stack) : stack'[i] = stack[i]
      /\ stack'[Len(stack) + 1] = Frame(Inline, "dispatch")
  BY <1>1, Appended DEF RunCommandInline, IInv, Shape
<1>3. ASSUME NEW i \in 1..Len(stack'), stack'[i].req.via = "post"
      PROVE  i \in 1..Len(stack) /\ stack'[i] = stack[i]
  <2>1. i \in 1..Len(stack) \/ i = Len(stack) + 1
    BY <1>2
  <2> QED
    BY <1>1, <1>2, <1>3, <2>1, OwnRequests
<1>4. \A i \in 1..Len(stack) : i \in 1..Len(stack')
  BY <1>2
<1> QED
  BY <1>2, <1>3, <1>4, StackSteps DEF RunCommandInline

LEMMA ReturnsStep == ASSUME IInv, IInv', PluginReturns PROVE UNCHANGED Abstract!vars
<1>1. /\ stack # <<>> /\ Len(stack) \in 1..Len(stack) /\ Len(stack) \in Nat
      /\ UNCHANGED <<queue, callers>>
  BY DEF PluginReturns, At, IInv, Shape
<1>2. CASE stack[Len(stack)].req.via = "event" /\ stack' = <<>>
  <2>1. \A i \in 1..Len(stack') : FALSE
    BY <1>2
  <2>2. Len(stack) > 1 => stack[Len(stack)].req = Inline
    BY <1>1, Kinds
  <2>3. stack[Len(stack)].req # Inline
    BY <1>2, OwnRequests
  <2>4. Len(stack) = 1
    <3> DEFINE n == Len(stack)
    <3>1. ~(n > 1) /\ n \in Nat /\ n # 0
      BY <1>1, <2>2, <2>3
    <3> HIDE DEF n
    <3>2. n = 1
      BY <3>1
    <3> QED
      BY <3>2 DEF n
  <2>5. \A i \in 1..Len(stack) : stack[i].req.via # "post"
    BY <1>2, <2>4
  <2> QED
    BY <1>1, <2>1, <2>5, StackSteps
<1>3. CASE GoTo("finish")
  BY <1>1, <1>3, GoToStep
<1> QED
  BY <1>2, <1>3 DEF PluginReturns, top

\* Each step of the channel is a step of RequestReply, or changes nothing it sees.
LEMMA StepRefines == IInv /\ IInv' /\ [Next]_vars => [Abstract!Next]_(Abstract!vars)
<1> SUFFICES ASSUME IInv, IInv', [Next]_vars PROVE Abstract!Next \/ UNCHANGED Abstract!vars
  OBVIOUS
<1>1. CASE PushCommand
  BY <1>1, PushPosts DEF Abstract!Next
<1>2. CASE Quit \/ NextPhase \/ UNCHANGED vars
  BY <1>2, SameStep DEF Quit, NextPhase, vars, callers
<1>3. ASSUME NEW c \in Callers, PushCommandBlocking(c) \/ RunOnWorker(c) \/ GetResult(c)
      PROVE  Abstract!Next
  BY <1>3, AskStep, ReturnStep DEF Abstract!Next
<1>4. CASE RunJob \/ Finish
  BY <1>4, JobStep, FinishStep DEF Abstract!Next
<1>5. CASE \/ StartUp \/ TakeCommand \/ Event \/ EventHandled \/ Dispatch
           \/ RunCommandInline \/ PluginReturns
  BY <1>5, StartUpStep, TakeStep, EventStep, HandledStep, DispatchStep, InlineStep, ReturnsStep
<1> QED
  BY <1>1, <1>2, <1>3, <1>4, <1>5 DEF Next, Client, Worker

LEMMA InitRefines == Init => Abstract!Init
<1> SUFFICES ASSUME Init PROVE Abstract!Init
  OBVIOUS
<1>1. \A n : n \notin PendingPosts
  BY DEF Init, PendingPosts, Unexecuted
<1>2. PendingPosts = {}
  BY <1>1
<1> QED
  BY <1>2 DEF Init, Abstract!Init

\* Requests and commands of the GUI reach the worker through two queues, the stack
\* and inline calls; seen from outside each is executed once, after it was made
\* and before its caller goes on, and the GUI's in the order they were pushed.
THEOREM ChannelExecutesInOrder == Spec => ExecutesInOrder
BY InitRefines, StepRefines, Invariance, PTL DEF Spec, ExecutesInOrder, Abstract!Spec
=============================================================================
