----------------------- MODULE PersistedOptionsProofs -----------------------
(***************************************************************************)
(* Settings come back, for every set of options, targets, paths and values *)
(* and whenever the user leaves: all of them, but for the options that the *)
(* worker never came to, the seeded codes that were taken off the list and *)
(* the lines of a value behind the first.                                  *)
(*                                                                         *)
(* Then of two modules that are no part of it and share nothing with it:   *)
(* the list of ignored exceptions, some of whose ranges are those options, *)
(* and the name under which a plugin's value is stored.                    *)
(***************************************************************************)
EXTENDS PersistedOptions, IgnoredExceptions, FiniteSetTheorems, SequenceTheorems, TLAPS

-----------------------------------------------------------------------------
(* The inductive invariant *)

Types ==
    /\ file \in Settings /\ store \in Settings /\ wanted \in Settings
    /\ run \in {"off", "starting", "up", "failed"} /\ lost \in SUBSET Options
    /\ host \in [options : SUBSET Options, path : SUBSET Entries]
    /\ mirror \in [options : SUBSET Options, target : Targets \cup {None}]
    /\ queue \in Seq(Commands)
    /\ gui \in [exe : Targets \cup {None}, remember : BOOLEAN]

\* The command at i sets o, and none behind it does.
Touches(i, o) == queue[i].verb = "option" /\ queue[i].option = o
Lasts(i, o) ==
    Touches(i, o) /\ \A j \in DOMAIN queue : Touches(j, o) => j <= i

\* What the user wants of an option is what its last command in the queue
\* says; without one, what the host has.
Pending ==
    \A o \in Options :
        /\ (\A i \in DOMAIN queue : ~Touches(i, o))
              => (o \in wanted.options <=> o \in host.options)
        /\ \A i \in DOMAIN queue :
              Lasts(i, o) => (o \in wanted.options <=> queue[i].on)

\* What the worker, the plugins and the GUI thread keep until the exit.
Kept ==
    /\ store.path = wanted.path /\ Head(store.value) = Head(wanted.value)
    /\ wanted.exe = IF mirror.target # None THEN mirror.target ELSE gui.exe

\* In the loop: the snapshot is the host's, the engine has the symbol path.
Mirrored ==
    /\ mirror.options = host.options
    /\ host.path = IF store.path = {} THEN DefaultPath ELSE store.path

\* Between runs the file has what is wanted and is not lost.
Written ==
    /\ (file.options \cup Seeded) \ lost = wanted.options \ lost
    /\ file.path = wanted.path /\ file.value = <<Head(wanted.value)>>
    /\ file.remember = wanted.remember
    /\ file.remember => file.exe = wanted.exe

IInv ==
    /\ Types
    /\ Len(file.value) = 1
    /\ run # "off" => lost = {} /\ Pending /\ Kept
    /\ run = "up" => Mirrored
    /\ run = "off" => Written

-----------------------------------------------------------------------------
(* Reapply has a command for every saved option and no other *)

LEMMA ReapplyIsExact ==
    ASSUME NEW S \in SUBSET Options
    PROVE  /\ Reapply(S) \in Seq({SetTo(o, TRUE) : o \in S})
           /\ \A o \in S : \E i \in DOMAIN Reapply(S) : Reapply(S)[i] = SetTo(o, TRUE)
PROOF
<1> DEFINE C == {SetTo(o, TRUE) : o \in S}
           n == Cardinality(C)
           G == [o \in S |-> SetTo(o, TRUE)]
<1>1. IsFiniteSet(C)
  <2>1. IsFiniteSet(S)
    BY FS_Subset, OptionsAssumption DEF OptionsAssumption
  <2>2. G \in Bijection(S, C)
    BY DEF Bijection, Injection, Surjection, IsInjective, SetTo
  <2> QED  BY <2>1, <2>2, FS_Bijection DEF ExistsBijection
<1>2. n \in Nat /\ ExistsBijection(1..n, C)
  BY <1>1, FS_CardinalityType
<1>3. \E f \in [1..n -> C] : IsInjective(f)
  BY <1>2 DEF ExistsBijection, Bijection, Injection
<1>4. Reapply(S) \in [1..n -> C] /\ IsInjective(Reapply(S))
  BY <1>3, Zenon DEF Reapply, SetToSeq
<1>5. Reapply(S) \in Injection(1..n, C)
  BY <1>4 DEF Injection
<1>6. Cardinality(1..n) = n /\ IsFiniteSet(1..n)
  BY <1>2, FS_Interval
<1>7. Reapply(S) \in Surjection(1..n, C)
  BY <1>1, <1>5, <1>6, FS_Injection
<1>8. Reapply(S) \in Seq(C)
  <2> HIDE DEF C, n
  <2> QED  BY <1>2, <1>4, SeqDef
<1>9. \A o \in S : \E i \in DOMAIN Reapply(S) : Reapply(S)[i] = SetTo(o, TRUE)
  <2> TAKE o \in S
  <2>1. SetTo(o, TRUE) \in C
    OBVIOUS
  <2> HIDE DEF C, n
  <2> QED  BY <2>1, <1>7 DEF Surjection
<1> QED  BY <1>8, <1>9

-----------------------------------------------------------------------------
(* The queue *)

\* A command put behind the others says what is wanted of its option, and
\* nothing about another.
LEMMA PendingAppend ==
    ASSUME queue \in Seq(Commands), NEW c \in Commands, Pending,
           host' = host, queue' = Append(queue, c),
           c.verb = "option" => wanted'.options = ApplyTo(wanted.options, c),
           c.verb # "option" => wanted'.options = wanted.options
    PROVE  Pending'
PROOF
<1>0. PICK n \in Nat : n = Len(queue) + 1
  OBVIOUS
<1>1. /\ n \in Nat /\ n >= 1
      /\ DOMAIN queue' = 1 .. n /\ DOMAIN queue = 1 .. n - 1
      /\ \A i \in 1 .. n - 1 : queue'[i] = queue[i]
      /\ queue'[n] = c
  BY <1>0
<1> SUFFICES ASSUME NEW o \in Options
             PROVE  /\ (\A i \in DOMAIN queue' : ~Touches(i, o)')
                          => (o \in wanted'.options <=> o \in host'.options)
                    /\ \A i \in DOMAIN queue' :
                          Lasts(i, o)' => (o \in wanted'.options <=> queue'[i].on)
  BY DEF Pending
<1>2. CASE c.verb = "option" /\ c.option = o
  <2>1. Touches(n, o)'
    BY <1>1, <1>2 DEF Touches
  <2>2. o \in wanted'.options <=> c.on
    BY <1>2 DEF ApplyTo
  <2>3. \A i \in DOMAIN queue' : Lasts(i, o)' => i = n
    BY <1>1, <2>1 DEF Lasts
  <2> QED  BY <1>1, <2>1, <2>2, <2>3
<1>3. CASE ~(c.verb = "option" /\ c.option = o)
  <2>1. ~Touches(n, o)'
    BY <1>1, <1>3 DEF Touches
  <2>2. \A i \in DOMAIN queue : Touches(i, o)' <=> Touches(i, o)
    BY <1>1 DEF Touches
  <2>3. o \in wanted'.options <=> o \in wanted.options
    BY <1>3 DEF ApplyTo
  <2>4. \A i \in DOMAIN queue' : Lasts(i, o)' => i \in DOMAIN queue /\ Lasts(i, o)
    BY <1>1, <2>1, <2>2 DEF Lasts
  <2> QED  BY <1>1, <2>1, <2>2, <2>3, <2>4 DEF Pending
<1> QED  BY <1>2, <1>3

\* What the worker takes from the queue it has done to the host.
LEMMA PendingTail ==
    ASSUME queue \in Seq(Commands), queue # <<>>, Pending,
           queue' = Tail(queue), wanted'.options = wanted.options,
           Head(queue).verb = "option"
              => host'.options = ApplyTo(host.options, Head(queue)),
           Head(queue).verb # "option" => host'.options = host.options
    PROVE  Pending'
PROOF
<1>1. /\ Len(queue) \in Nat /\ Len(queue) >= 1
      /\ DOMAIN queue' = 1 .. Len(queue) - 1 /\ DOMAIN queue = 1 .. Len(queue)
      /\ \A i \in 1 .. Len(queue) - 1 : queue'[i] = queue[i + 1]
      /\ Head(queue) = queue[1]
  OBVIOUS
<1> SUFFICES ASSUME NEW o \in Options
             PROVE  /\ (\A i \in DOMAIN queue' : ~Touches(i, o)')
                          => (o \in wanted'.options <=> o \in host'.options)
                    /\ \A i \in DOMAIN queue' :
                          Lasts(i, o)' => (o \in wanted'.options <=> queue'[i].on)
  BY DEF Pending
<1>2. \A i \in DOMAIN queue' : i + 1 \in DOMAIN queue /\ (Touches(i, o)' <=> Touches(i + 1, o))
  BY <1>1 DEF Touches
<1>3. ASSUME \A i \in DOMAIN queue' : ~Touches(i, o)'
      PROVE  o \in wanted'.options <=> o \in host'.options
  <2>1. \A i \in DOMAIN queue : i # 1 => ~Touches(i, o)
    <3> TAKE i \in DOMAIN queue
    <3> HAVE i # 1
    <3>1. i - 1 \in DOMAIN queue' /\ (i - 1) + 1 = i
      BY <1>1
    <3> QED  BY <3>1, <1>2, <1>3
  <2>2. CASE Touches(1, o)
    <3>1. Lasts(1, o) /\ 1 \in DOMAIN queue
      BY <1>1, <2>1, <2>2 DEF Lasts
    <3>2. o \in wanted.options <=> queue[1].on
      BY <3>1 DEF Pending
    <3> QED  BY <1>1, <2>2, <3>2 DEF Touches, ApplyTo
  <2>3. CASE ~Touches(1, o)
    <3>1. o \in wanted.options <=> o \in host.options
      BY <2>1, <2>3 DEF Pending
    <3> QED  BY <1>1, <2>3, <3>1 DEF Touches, ApplyTo
  <2> QED  BY <2>2, <2>3
<1>4. ASSUME NEW i \in DOMAIN queue', Lasts(i, o)'
      PROVE  o \in wanted'.options <=> queue'[i].on
  <2>1. Touches(i + 1, o) /\ i + 1 \in DOMAIN queue
    BY <1>2, <1>4 DEF Lasts
  <2>2. ASSUME NEW j \in DOMAIN queue, Touches(j, o)
        PROVE  j <= i + 1
    <3>1. CASE j = 1
      BY <1>1, <3>1
    <3>2. CASE j # 1
      <4>1. j - 1 \in DOMAIN queue' /\ (j - 1) + 1 = j
        BY <1>1, <3>2
      <4>2. Touches(j - 1, o)'
        BY <4>1, <1>2, <2>2
      <4>3. j - 1 <= i
        BY <4>1, <4>2, <1>4 DEF Lasts
      <4> QED  BY <4>3, <1>1
    <3> QED  BY <3>1, <3>2
  <2>3. Lasts(i + 1, o)
    BY <2>1, <2>2 DEF Lasts
  <2> QED  BY <1>1, <2>1, <2>3 DEF Pending
<1> QED  BY <1>3, <1>4

-----------------------------------------------------------------------------
(* The invariant *)

\* What a process that has just ended leaves is well typed.
LEMMA Blank ==
    /\ NoSettings \in Settings /\ Len(NoSettings.value) = 1
    /\ NoHost \in [options : SUBSET Options, path : SUBSET Entries]
    /\ NoMirror \in [options : SUBSET Options, target : Targets \cup {None}]
    /\ NoGui \in [exe : Targets \cup {None}, remember : BOOLEAN]
    /\ <<>> \in Seq(Commands)
PROOF
<1>1. <<None>> \in Seq(Lines) /\ <<None>> # <<>> /\ Len(<<None>>) = 1
  <2>1. None \in Lines
    BY OptionsAssumption DEF OptionsAssumption, None
  <2>2. \A x \in Lines : <<x>> \in Seq(Lines) /\ <<x>> # <<>> /\ Len(<<x>>) = 1
    OBVIOUS
  <2> QED  BY <2>1, <2>2
<1>2. NoSettings \in Settings /\ Len(NoSettings.value) = 1
  BY <1>1 DEF NoSettings, Settings
<1> QED  BY <1>2 DEF NoHost, NoMirror, NoGui

LEMMA InitIInv == Init => IInv
PROOF
<1> SUFFICES ASSUME Init PROVE IInv
  OBVIOUS
<1>1. /\ wanted \in Settings /\ wanted.options = Seeded
      /\ wanted.path = file.path /\ wanted.value = file.value
      /\ wanted.remember = file.remember /\ wanted.exe = file.exe
  BY Blank, OptionsAssumption DEF OptionsAssumption, Init, Settings
<1>2. Types
  BY <1>1, Blank DEF Init, Types
<1>3. file.value = <<Head(wanted.value)>>
  BY <1>1 DEF Init, NoSettings
<1>4. Written
  BY <1>1, <1>3 DEF Init, Written, NoSettings
<1> QED  BY <1>2, <1>4, Blank DEF Init, IInv

\* The file is read and written as a whole, so its type and the length of its
\* value come from those of the store.
LEMMA SavedIsRead ==
    ASSUME NEW s \in Settings
    PROVE  /\ Saved(s) \in Settings /\ Len(Saved(s).value) = 1
           /\ Saved(s).options = s.options /\ Saved(s).path = s.path
           /\ Saved(s).exe = s.exe /\ Saved(s).remember = s.remember
           /\ Saved(s).value = <<Head(s.value)>>
PROOF
<1>1. s.value \in Seq(Lines) /\ s.value # <<>>
  BY DEF Settings
<1>2. <<Head(s.value)>> \in Seq(Lines) \ {<<>>} /\ Len(<<Head(s.value)>>) = 1
  BY <1>1
<1> QED  BY <1>2 DEF Saved, Settings

LEMMA StartStep == IInv /\ Start => IInv'
PROOF
<1> SUFFICES ASSUME IInv, Start PROVE IInv'
  OBVIOUS
<1> USE DEF Start
<1>1. /\ Reapply(file.options) \in Seq({SetTo(o, TRUE) : o \in file.options})
      /\ \A o \in file.options :
            \E i \in DOMAIN Reapply(file.options) : Reapply(file.options)[i] = SetTo(o, TRUE)
  BY ReapplyIsExact DEF IInv, Types, Settings
<1>2. {SetTo(o, TRUE) : o \in file.options} \subseteq Commands
  <2>1. \A o \in file.options : SetTo(o, TRUE) \in [verb : {"option"}, option : Options, on : BOOLEAN]
    BY DEF IInv, Types, Settings, SetTo
  <2> QED  BY <2>1 DEF Commands
<1>3. Types'
  <2>1. queue' \in Seq(Commands)
    BY <1>1, <1>2, SeqMonotonic
  <2>2. gui' \in [exe : Targets \cup {None}, remember : BOOLEAN]
    BY DEF IInv, Types, Settings
  <2>3. host' \in [options : SUBSET Options, path : SUBSET Entries]
    BY OptionsAssumption DEF OptionsAssumption, NoHost
  <2>4. wanted' \in Settings
    BY <2>2, OptionsAssumption DEF OptionsAssumption, IInv, Types, Settings
  <2> QED  BY <2>1, <2>2, <2>3, <2>4 DEF IInv, Types, Settings, NoMirror
<1>4. /\ wanted'.options = file.options \cup Seeded
      /\ wanted'.path = wanted.path
      /\ wanted'.value = wanted.value /\ wanted'.exe = gui'.exe
  BY DEF IInv, Types, Settings, Written
<1>5. Kept'
  BY <1>4 DEF IInv, Written, Kept, NoMirror
<1>6. Pending'
  <2> SUFFICES ASSUME NEW o \in Options
               PROVE  /\ (\A i \in DOMAIN queue' : ~Touches(i, o)')
                            => (o \in wanted'.options <=> o \in host'.options)
                      /\ \A i \in DOMAIN queue' :
                            Lasts(i, o)' => (o \in wanted'.options <=> queue'[i].on)
    BY DEF Pending
  <2>1. wanted'.options = file.options \cup Seeded /\ host'.options = Seeded
    BY <1>4 DEF IInv, Written, NoHost
  <2>2. ASSUME \A i \in DOMAIN queue' : ~Touches(i, o)'
        PROVE  o \notin file.options
    <3>1. \A i \in DOMAIN queue' : queue'[i] # SetTo(o, TRUE)
      BY <2>2 DEF Touches, SetTo
    <3> QED  BY <1>1, <3>1
  <2>3. ASSUME NEW i \in DOMAIN queue', Lasts(i, o)'
        PROVE  o \in file.options /\ queue'[i].on
    <3>1. queue'[i] \in {SetTo(x, TRUE) : x \in file.options}
      <4> DEFINE C == {SetTo(x, TRUE) : x \in file.options}
      <4>1. queue' \in Seq(C) /\ i \in DOMAIN queue'
        BY <1>1, <2>3
      <4> HIDE DEF C
      <4>2. queue'[i] \in C
        BY <4>1
      <4> QED  BY <4>2 DEF C
    <3>2. PICK x \in file.options : queue'[i] = SetTo(x, TRUE)
      BY <3>1
    <3>3. x = o
      BY <2>3, <3>2 DEF Lasts, Touches, SetTo
    <3> QED  BY <3>2, <3>3 DEF SetTo
  <2> QED  BY <2>1, <2>2, <2>3
<1> QED  BY <1>3, <1>4, <1>5, <1>6 DEF IInv

LEMMA ExitStep == IInv /\ Exit => IInv'
PROOF
<1> SUFFICES ASSUME IInv, Exit PROVE IInv'
  OBVIOUS
<1>1. run # "off" /\ Pending /\ Kept /\ Types /\ (run = "up" => Mirrored)
  BY DEF Exit, Ends, IInv
<1>2. PICK v \in ClosingValues :
        /\ file' = Saved([Final EXCEPT !.value = v])
        /\ wanted' = [wanted EXCEPT !.value = v, !.remember = gui.remember]
        /\ lost' = (Unreached \ Seeded) \cup (Seeded \ wanted.options)
  BY DEF Exit, Leave
<1>3. v \in Seq(Lines) \ {<<>>}
  BY <1>1, OptionsAssumption DEF OptionsAssumption, ClosingValues, Types, Settings
<1> DEFINE s == [Final EXCEPT !.value = v]
<1>4. /\ s \in Settings /\ s.value = v /\ s.options = mirror.options /\ s.path = store.path
      /\ s.remember = gui.remember
      /\ gui.remember => s.exe = IF mirror.target # None THEN mirror.target ELSE gui.exe
  BY <1>1, <1>3 DEF Final, Types, Settings
<1>5. /\ file' \in Settings /\ Len(file'.value) = 1
      /\ file'.options = mirror.options /\ file'.path = store.path
      /\ file'.exe = s.exe /\ file'.remember = gui.remember /\ file'.value = <<Head(v)>>
  BY <1>2, <1>4, SavedIsRead
<1>6. /\ wanted' \in Settings /\ wanted'.options = wanted.options /\ wanted'.path = wanted.path
      /\ wanted'.exe = wanted.exe /\ wanted'.remember = gui.remember /\ wanted'.value = v
  BY <1>1, <1>2, <1>3 DEF Types, Settings
<1>7. \A o \in Options \ lost' : o \in wanted.options <=> o \in mirror.options \cup Seeded
  <2> TAKE o \in Options \ lost'
  <2>1. CASE o \in Seeded
    BY <1>2, <2>1
  <2>2. CASE o \notin Seeded
    <3>1. run = "up" /\ \A i \in DOMAIN queue : ~Touches(i, o)
      BY <1>2, <2>2 DEF Unreached, Touches
    <3>2. o \in wanted.options <=> o \in host.options
      BY <1>1, <3>1 DEF Pending
    <3> QED  BY <1>1, <2>2, <3>1, <3>2 DEF Mirrored
  <2> QED  BY <2>1, <2>2
<1>8. lost' \in SUBSET Options
  BY <1>2, OptionsAssumption DEF OptionsAssumption, Unreached
<1>9. Written'
  <2>1. (file'.options \cup Seeded) \ lost' = wanted'.options \ lost'
    BY <1>1, <1>5, <1>6, <1>7, <1>8, OptionsAssumption DEF OptionsAssumption, Types, Settings
  <2> QED  BY <1>1, <1>4, <1>5, <1>6, <2>1 DEF Written, Kept
<1>10. Types'
  BY <1>5, <1>6, <1>8, Blank DEF Exit, Ends, Types
<1> QED  BY <1>5, <1>9, <1>10 DEF IInv, Exit, Ends

LEMMA CrashStep == IInv /\ Crash => IInv'
PROOF
<1> SUFFICES ASSUME IInv, Crash PROVE IInv'
  OBVIOUS
<1>1. /\ wanted' \in Settings /\ wanted'.options = file.options \cup Seeded
      /\ wanted'.path = file.path /\ wanted'.exe = file.exe
      /\ wanted'.remember = file.remember /\ wanted'.value = file.value
  BY OptionsAssumption DEF OptionsAssumption, Crash, IInv, Types, Settings
<1>2. Types'
  BY <1>1, Blank DEF Crash, Ends, IInv, Types
<1>3. file.value = <<Head(file.value)>>
  BY DEF IInv, Types, Settings
<1> QED  BY <1>1, <1>2, <1>3 DEF IInv, Crash, Ends, Written

LEMMA ExecuteStep == IInv /\ Execute => IInv'
PROOF
<1> SUFFICES ASSUME IInv, Execute PROVE IInv'
  OBVIOUS
<1> DEFINE c == Head(queue)
<1>1. c \in Commands /\ Tail(queue) \in Seq(Commands) /\ queue \in Seq(Commands)
  BY DEF Execute, IInv, Types
<1>2. /\ run = "up" /\ run' = run /\ queue # <<>> /\ queue' = Tail(queue)
      /\ file' = file /\ gui' = gui /\ lost' = lost
      /\ Types /\ Pending /\ Kept /\ Mirrored
  BY DEF Execute, IInv
<1> HIDE DEF c
<1>3. CASE ApplyOption(c)
  <2>1. c.option \in Options
    BY <1>1, <1>3 DEF ApplyOption, Commands
  <2>2. /\ host' \in [options : SUBSET Options, path : SUBSET Entries]
        /\ host'.options = ApplyTo(host.options, c) /\ host'.path = host.path
        /\ mirror'.options = host'.options /\ mirror'.target = mirror.target
        /\ mirror' \in [options : SUBSET Options, target : Targets \cup {None}]
    BY <1>2, <1>3, <2>1 DEF ApplyOption, ApplyTo, Types
  <2>3. store' = store /\ wanted' = wanted /\ c.verb = "option"
    BY <1>3 DEF ApplyOption
  <2>4. Pending'
    BY <1>1, <1>2, <2>2, <2>3, PendingTail DEF c
  <2>5. Types'
    BY <1>1, <1>2, <2>2, <2>3 DEF Types
  <2>6. Kept' /\ Mirrored'
    BY <1>2, <2>2, <2>3 DEF Kept, Mirrored
  <2> QED  BY <1>2, <2>3, <2>4, <2>5, <2>6 DEF IInv
<1>4. CASE ApplyPath(c)
  <2> DEFINE path == IF c.verb = "symadd" THEN host.path \cup c.path ELSE c.path
  <2>1. path \in SUBSET Entries /\ path # {} /\ c.verb # "option"
    BY <1>1, <1>2, <1>4, OptionsAssumption DEF OptionsAssumption, ApplyPath, Commands, Types
  <2>2. /\ host' = [host EXCEPT !.path = path] /\ store' = [store EXCEPT !.path = path]
        /\ wanted' = [wanted EXCEPT !.path = path] /\ mirror' = mirror
    BY <1>4 DEF ApplyPath
  <2> HIDE DEF path
  <2>3. /\ host' \in [options : SUBSET Options, path : SUBSET Entries]
        /\ host'.options = host.options /\ host'.path = path
    BY <1>2, <2>1, <2>2 DEF Types
  <2>4. /\ store' \in Settings /\ store'.path = path /\ store'.value = store.value
    BY <1>2, <2>1, <2>2 DEF Types, Settings
  <2>5. /\ wanted' \in Settings /\ wanted'.path = path /\ wanted'.value = wanted.value
        /\ wanted'.options = wanted.options /\ wanted'.exe = wanted.exe
    BY <1>2, <2>1, <2>2 DEF Types, Settings
  <2>6. Pending'
    BY <1>1, <1>2, <2>1, <2>3, <2>5, PendingTail DEF c
  <2>7. Types'
    BY <1>1, <1>2, <2>2, <2>3, <2>4, <2>5 DEF Types
  <2>8. Kept' /\ Mirrored'
    BY <1>2, <2>1, <2>2, <2>3, <2>4, <2>5 DEF Kept, Mirrored
  <2> QED  BY <1>2, <2>4, <2>5, <2>6, <2>7, <2>8 DEF IInv
<1>5. CASE ApplyLaunch(c)
  <2>1. c.verb = "launch" /\ c.target \in Targets /\ store' = store /\ host' = host
    BY <1>1, <1>5 DEF ApplyLaunch, Commands
  <2>2. /\ mirror' \in [options : SUBSET Options, target : Targets \cup {None}]
        /\ mirror'.options = mirror.options
        /\ wanted' \in Settings
        /\ wanted'.options = wanted.options /\ wanted'.path = wanted.path
        /\ wanted'.value = wanted.value
        /\ wanted'.exe = IF mirror'.target # None THEN mirror'.target ELSE gui.exe
    <3>1. CASE UNCHANGED <<mirror, wanted>>
      BY <1>2, <3>1 DEF Types, Kept
    <3>2. CASE /\ mirror' = [mirror EXCEPT !.target = c.target]
               /\ wanted' = [wanted EXCEPT !.exe = c.target]
      BY <1>2, <2>1, <3>2, OptionsAssumption DEF OptionsAssumption, Types, Settings, None
    <3> QED  BY <1>5, <3>1, <3>2 DEF ApplyLaunch
  <2>3. Pending'
    BY <1>1, <1>2, <2>1, <2>2, PendingTail DEF c
  <2>4. Types'
    BY <1>1, <1>2, <2>1, <2>2 DEF Types
  <2>5. Kept' /\ Mirrored'
    BY <1>2, <2>1, <2>2 DEF Kept, Mirrored
  <2> QED  BY <1>2, <2>1, <2>2, <2>3, <2>4, <2>5 DEF IInv
<1> QED  BY <1>3, <1>4, <1>5 DEF Execute, c

LEMMA PushStep ==
    ASSUME IInv, SetOption \/ TypeCommand \/ OpenDialog
    PROVE  IInv'
PROOF
<1>1. run # "off" /\ run' = run /\ host' = host /\ mirror' = mirror /\ lost' = lost
  BY DEF SetOption, TypeCommand, OpenDialog, Push
<1>2. /\ Types /\ Pending /\ Kept /\ (run = "up" => Mirrored)
      /\ lost = {} /\ Len(file.value) = 1
  BY <1>1 DEF IInv
<1>3. CASE SetOption
  <2>1. PICK c \in [verb : {"option"}, option : Options, on : BOOLEAN] :
          /\ queue' = Append(queue, c)
          /\ wanted' = [wanted EXCEPT !.options = ApplyTo(@, c)]
    BY <1>3 DEF SetOption, Push
  <2>2. file' = file /\ store' = store /\ gui' = gui
    BY <1>3 DEF SetOption
  <2>3. c \in Commands /\ c.option \in Options
    BY DEF Commands
  <2>4. /\ wanted' \in Settings /\ wanted'.options = ApplyTo(wanted.options, c)
        /\ wanted'.path = wanted.path /\ wanted'.value = wanted.value
        /\ wanted'.exe = wanted.exe
    BY <1>2, <2>1, <2>3 DEF Types, Settings, ApplyTo
  <2>5. Pending'
    BY <1>1, <1>2, <2>1, <2>3, <2>4, PendingAppend DEF Types
  <2>6. Types'
    BY <1>1, <1>2, <2>1, <2>2, <2>3, <2>4, AppendProperties DEF Types
  <2>7. Kept' /\ (run = "up" => Mirrored')
    BY <1>1, <1>2, <2>2, <2>4 DEF Kept, Mirrored
  <2> QED  BY <1>1, <1>2, <2>2, <2>5, <2>6, <2>7 DEF IInv
<1>4. CASE TypeCommand
  <2>1. PICK c \in Commands : c.verb # "option" /\ queue' = Append(queue, c)
    BY <1>4 DEF TypeCommand, Push
  <2>2. file' = file /\ store' = store /\ gui' = gui /\ wanted' = wanted
    BY <1>4 DEF TypeCommand
  <2>3. Pending'
    BY <1>1, <1>2, <2>1, <2>2, PendingAppend DEF Types
  <2>4. Types'
    BY <1>1, <1>2, <2>1, <2>2, AppendProperties DEF Types
  <2>5. Kept' /\ (run = "up" => Mirrored')
    BY <1>1, <1>2, <2>2 DEF Kept, Mirrored
  <2> QED  BY <1>1, <1>2, <2>2, <2>3, <2>4, <2>5 DEF IInv
<1>5. CASE OpenDialog
  <2>1. PICK t \in Targets :
          /\ queue' = Append(queue, [verb |-> "launch", target |-> t])
          /\ gui' = [gui EXCEPT !.exe = t]
          /\ store' = IF gui.remember THEN [store EXCEPT !.exe = t] ELSE store
          /\ wanted' = [wanted EXCEPT !.exe = IF mirror.target = None THEN t ELSE @]
    BY <1>5 DEF OpenDialog, Push
  <2>2. [verb |-> "launch", target |-> t] \in Commands
    BY DEF Commands
  <2>3. /\ gui' \in [exe : Targets \cup {None}, remember : BOOLEAN] /\ gui'.exe = t
    BY <1>2, <2>1 DEF Types
  <2>4. /\ store' \in Settings /\ store'.path = store.path /\ store'.value = store.value
    BY <1>2, <2>1 DEF Types, Settings
  <2>5. /\ wanted' \in Settings /\ wanted'.options = wanted.options
        /\ wanted'.path = wanted.path /\ wanted'.value = wanted.value
        /\ wanted'.exe = IF mirror.target = None THEN t ELSE wanted.exe
    BY <1>2, <2>1 DEF Types, Settings
  <2>6. file' \in Settings /\ Len(file'.value) = 1
    BY <1>2, <1>5, <2>4, SavedIsRead DEF OpenDialog, Types
  <2>7. Pending'
    BY <1>1, <1>2, <2>1, <2>2, <2>5, PendingAppend DEF Types
  <2>8. Types'
    BY <1>1, <1>2, <2>1, <2>2, <2>3, <2>4, <2>5, <2>6, AppendProperties DEF Types
  <2>9. Kept' /\ (run = "up" => Mirrored')
    BY <1>1, <1>2, <2>3, <2>4, <2>5 DEF Kept, Mirrored
  <2> QED  BY <1>1, <1>2, <2>4, <2>5, <2>6, <2>7, <2>8, <2>9 DEF IInv
<1> QED  BY <1>3, <1>4, <1>5

LEMMA OtherSteps ==
    ASSUME IInv,
           WorkerUp \/ WorkerFails \/ ToggleRemember \/ PluginStores \/ UNCHANGED vars
    PROVE  IInv'
PROOF
<1>1. CASE WorkerUp
  <2>1. /\ host' \in [options : SUBSET Options, path : SUBSET Entries]
        /\ host'.options = host.options
        /\ host'.path = IF store.path = {} THEN DefaultPath ELSE store.path
        /\ mirror' \in [options : SUBSET Options, target : Targets \cup {None}]
        /\ mirror'.options = host.options /\ mirror'.target = mirror.target
    BY <1>1, OptionsAssumption DEF OptionsAssumption, WorkerUp, IInv, Types, Settings
  <2> QED  BY <1>1, <2>1 DEF WorkerUp, IInv, Types, Pending, Touches, Lasts, Kept, Mirrored
<1>2. CASE WorkerFails
  BY <1>2 DEF WorkerFails, IInv, Types, Pending, Touches, Lasts, Kept
<1>3. CASE ToggleRemember
  <2>1. /\ gui' \in [exe : Targets \cup {None}, remember : BOOLEAN] /\ gui'.exe = gui.exe
    BY <1>3 DEF ToggleRemember, IInv, Types
  <2> QED  BY <1>3, <2>1 DEF ToggleRemember, IInv, Types, Pending, Touches, Lasts, Kept, Mirrored
<1>4. CASE PluginStores
  <2>1. PICK v \in Values : /\ store' = [store EXCEPT !.value = v]
                            /\ wanted' = [wanted EXCEPT !.value = v]
    BY <1>4 DEF PluginStores
  <2>2. v \in Seq(Lines) \ {<<>>}
    BY OptionsAssumption DEF OptionsAssumption
  <2>3. /\ store' \in Settings /\ store'.path = store.path /\ store'.value = v
        /\ wanted' \in Settings /\ wanted'.options = wanted.options
        /\ wanted'.path = wanted.path /\ wanted'.value = v /\ wanted'.exe = wanted.exe
    BY <2>1, <2>2 DEF IInv, Types, Settings
  <2> QED  BY <1>4, <2>2, <2>3 DEF PluginStores, IInv, Types, Pending, Touches, Lasts, Kept, Mirrored
<1>5. CASE UNCHANGED vars
  BY <1>5 DEF vars, IInv, Types, Pending, Touches, Lasts, Kept, Mirrored, Written
<1> QED  BY <1>1, <1>2, <1>3, <1>4, <1>5

-----------------------------------------------------------------------------
LEMMA IInvShows == IInv => SettingsComeBack
PROOF
<1> SUFFICES ASSUME IInv PROVE SettingsComeBack
  OBVIOUS
<1>1. ASSUME run = "up", queue = <<>>
      PROVE  /\ host.options = wanted.options
             /\ host.path = IF wanted.path = {} THEN DefaultPath ELSE wanted.path
  <2>1. \A o \in Options : o \in wanted.options <=> o \in host.options
    BY <1>1 DEF IInv, Pending
  <2> QED  BY <1>1, <2>1 DEF IInv, Types, Settings, Kept, Mirrored
<1>2. run # "off" => Head(store.value) = Head(wanted.value)
  BY DEF IInv, Kept
<1> QED  BY <1>1, <1>2 DEF IInv, Written, SettingsComeBack

\* What was set comes back, with any options, targets, paths and values and
\* whenever the window is closed, but for what is named: the options whose commands
\* the worker never ran, the seeded codes that were taken off the list, the lines of
\* a plugin's value behind the first.  g_settings, the snapshot that main saves, and
\* the commands with which it re-applies it (settings.cpp, gui_main.cpp).
THEOREM SettingsAlwaysComeBack == Spec => []SettingsComeBack
PROOF
<1>1. Init => IInv
  BY InitIInv
<1>2. IInv /\ [Next]_vars => IInv'
  BY StartStep, PushStep, ExecuteStep, ExitStep, CrashStep, OtherSteps DEF Next
<1>3. IInv => SettingsComeBack
  BY IInvShows
<1> QED  BY <1>1, <1>2, <1>3, PTL DEF Spec

-----------------------------------------------------------------------------
(* The list of ignored exceptions *)

Unlike(s) == \A i, j \in DOMAIN s : s[i] = s[j] => i = j

\* What a sequence without repetitions is when the element at i is taken out.
LEMMA Removed ==
    ASSUME NEW S, NEW s \in Seq(S), NEW i \in DOMAIN s, Unlike(s)
    PROVE  /\ RemoveAt(s, i) \in Seq(S)
           /\ Unlike(RemoveAt(s, i))
           /\ ToSet(RemoveAt(s, i)) = ToSet(s) \ {s[i]}
<1> DEFINE t == RemoveAt(s, i)
<1>1. t \in Seq(S) /\ Len(t) = Len(s) - 1
  BY DEF RemoveAt
<1>2. \A k \in 1..Len(t) : t[k] = IF k < i THEN s[k] ELSE s[k + 1]
  <2> DEFINE u == SubSeq(s, 1, i - 1)
             v == SubSeq(s, i + 1, Len(s))
  <2>1. u \in Seq(S) /\ Len(u) = i - 1 /\ \A k \in 1..(i - 1) : u[k] = s[k]
    OBVIOUS
  <2>2. v \in Seq(S) /\ Len(v) = Len(s) - i /\ \A k \in 1..(Len(s) - i) : v[k] = s[i + k]
    OBVIOUS
  <2>3. t = u \o v
    BY DEF RemoveAt
  <2> HIDE DEF u, v, t
  <2>4. \A k \in 1..(Len(u) + Len(v)) : t[k] = IF k <= Len(u) THEN u[k] ELSE v[k - Len(u)]
    BY <2>1, <2>2, <2>3, ConcatProperties
  <2>5. Len(s) \in Nat /\ i \in 1..Len(s)
    OBVIOUS
  <2>6. \A k \in 1..(Len(s) - 1) : t[k] = IF k <= i - 1 THEN s[k] ELSE v[k - (i - 1)]
    <3>1. Len(u) = i - 1 /\ Len(u) + Len(v) = Len(s) - 1
      BY <2>1, <2>2, <2>5
    <3>2. \A k \in 1..(i - 1) : u[k] = s[k]
      BY <2>1
    <3>3. ASSUME NEW k \in 1..(Len(s) - 1) PROVE t[k] = IF k <= i - 1 THEN s[k] ELSE v[k - (i - 1)]
      <4>1. t[k] = IF k <= i - 1 THEN u[k] ELSE v[k - (i - 1)]
        BY <2>4, <3>1
      <4>2. k <= i - 1 => u[k] = s[k]
        BY <2>5, <3>2
      <4> QED
        BY <4>1, <4>2
    <3> QED
      BY <3>3
  <2>7. \A k \in i..(Len(s) - 1) : v[k - (i - 1)] = s[k + 1]
    BY <2>2, <2>5
  <2> QED
    BY <1>1, <2>5, <2>6, <2>7
<1> HIDE DEF t
<1>3. DOMAIN t = 1..Len(t) /\ DOMAIN s = 1..Len(s) /\ Len(s) \in Nat
  BY <1>1
<1>4. Unlike(t)
  <2>1. \A k \in DOMAIN t : \E m \in DOMAIN s : t[k] = s[m] /\ m = IF k < i THEN k ELSE k + 1
    BY <1>1, <1>2, <1>3
  <2>2. \A k, l \in DOMAIN t :
            t[k] = t[l] => (IF k < i THEN k ELSE k + 1) = (IF l < i THEN l ELSE l + 1)
    BY <2>1 DEF Unlike
  <2> QED
    BY <1>1, <1>3, <2>2 DEF Unlike
<1>5. \A k \in DOMAIN t : t[k] \in ToSet(s) \ {s[i]}
  BY <1>1, <1>2, <1>3 DEF Unlike, ToSet
<1>6. ASSUME NEW k \in DOMAIN s, s[k] # s[i] PROVE s[k] \in ToSet(t)
  <2>1. CASE k < i
    <3>1. k \in DOMAIN t /\ t[k] = s[k]
      BY <1>1, <1>2, <1>3, <2>1
    <3> QED
      BY <3>1 DEF ToSet
  <2>2. CASE k > i
    <3>1. k - 1 \in DOMAIN t /\ t[k - 1] = s[k]
      BY <1>1, <1>2, <1>3, <2>2
    <3> QED
      BY <3>1 DEF ToSet
  <2> QED
    BY <1>3, <1>6, <2>1, <2>2
<1>7. ToSet(t) = ToSet(s) \ {s[i]}
  BY <1>5, <1>6 DEF ToSet
<1> QED
  BY <1>1, <1>4, <1>7 DEF t

\* What it is when a new element is added.
LEMMA Added ==
    ASSUME NEW S, NEW s \in Seq(S), NEW x \in S, Unlike(s), ~\E i \in DOMAIN s : s[i] = x
    PROVE  /\ Append(s, x) \in Seq(S)
           /\ Unlike(Append(s, x))
           /\ ToSet(Append(s, x)) = ToSet(s) \cup {x}
<1> DEFINE t == Append(s, x)
<1>1. t \in Seq(S) /\ DOMAIN t = 1..(Len(s) + 1) /\ DOMAIN s = 1..Len(s) /\ Len(s) \in Nat
  OBVIOUS
<1>2. t[Len(s) + 1] = x /\ \A i \in 1..Len(s) : t[i] = s[i]
  OBVIOUS
<1> HIDE DEF t
<1>3. Unlike(t)
  BY <1>1, <1>2 DEF Unlike
<1>4. ToSet(t) \subseteq ToSet(s) \cup {x}
  BY <1>1, <1>2 DEF ToSet
<1>5. x \in ToSet(t)
  BY <1>1, <1>2 DEF ToSet
<1>6. ToSet(s) \subseteq ToSet(t)
  BY <1>1, <1>2 DEF ToSet
<1> QED
  BY <1>1, <1>3, <1>4, <1>5, <1>6 DEF t

\* What the three verbs make of the list.
LEMMA ExcEdits ==
    ASSUME TypeOK
    PROVE  /\ \A r \in Bounds :
                 LET new == AddIgnoredExceptionRange(r)
                 IN  /\ new \in Seq(Row) /\ Unlike(new)
                     /\ ToSet(new) = ToSet(rows) \cup {Swapped(r)}
                     /\ \A i \in DOMAIN rows : i \in DOMAIN new /\ new[i] = rows[i]
           /\ \A i \in Nat :
                 LET new == RemoveIgnoredExceptionAt(i)
                 IN  /\ new \in Seq(Row) /\ Unlike(new)
                     /\ i \in DOMAIN rows => ToSet(new) = ToSet(rows) \ {rows[i]}
           /\ \A c \in Codes :
                 LET new == RemoveIgnoredException(c)
                 IN  /\ new \in Seq(Row) /\ Unlike(new)
                     /\ ToSet(new) = ToSet(rows) \ {Only(c)}
<1>1. rows \in Seq(Row) /\ Unlike(rows)
  BY DEF TypeOK, Unlike
<1>2. ASSUME NEW r \in Bounds
      PROVE  LET new == AddIgnoredExceptionRange(r)
             IN  /\ new \in Seq(Row) /\ Unlike(new)
                 /\ ToSet(new) = ToSet(rows) \cup {Swapped(r)}
                 /\ \A i \in DOMAIN rows : i \in DOMAIN new /\ new[i] = rows[i]
  <2>1. Swapped(r) \in Row
    BY CodesAssumption DEF CodesAssumption, Swapped, Row, Bounds, Codes
  <2>2. CASE Has(rows, Swapped(r))
    BY <1>1, <2>2 DEF AddIgnoredExceptionRange, Has, ToSet
  <2>3. CASE ~Has(rows, Swapped(r))
    BY <1>1, <2>1, <2>3, Added DEF AddIgnoredExceptionRange, Has
  <2> QED
    BY <2>2, <2>3
<1>3. ASSUME NEW i \in Nat
      PROVE  LET new == RemoveIgnoredExceptionAt(i)
             IN  /\ new \in Seq(Row) /\ Unlike(new)
                 /\ i \in DOMAIN rows => ToSet(new) = ToSet(rows) \ {rows[i]}
  BY <1>1, Removed DEF RemoveIgnoredExceptionAt
<1>4. ASSUME NEW c \in Codes
      PROVE  LET new == RemoveIgnoredException(c)
             IN  /\ new \in Seq(Row) /\ Unlike(new)
                 /\ ToSet(new) = ToSet(rows) \ {Only(c)}
  <2>1. CASE Has(rows, Only(c))
    <3> DEFINE k == CHOOSE i \in DOMAIN rows : rows[i] = Only(c)
    <3>1. k \in DOMAIN rows /\ rows[k] = Only(c)
      BY <2>1 DEF Has
    <3>2. RemoveIgnoredException(c) = RemoveAt(rows, k)
      BY <2>1 DEF RemoveIgnoredException
    <3> HIDE DEF k
    <3> QED
      BY <1>1, <3>1, <3>2, Removed
  <2>2. CASE ~Has(rows, Only(c))
    BY <1>1, <2>2 DEF RemoveIgnoredException, Has, ToSet
  <2> QED
    BY <2>1, <2>2
<1> QED
  BY <1>2, <1>3, <1>4

\* A removal by row that waits and is not late still names the row it was meant
\* for, and nothing is taken out before it.
RemovalsAreCurrent ==
    \A k \in DOMAIN waiting :
        waiting[k].verb = "rmexc" /\ ~waiting[k].late =>
            /\ waiting[k].index \in DOMAIN rows
            /\ rows[waiting[k].index] = waiting[k].range
            /\ \A j \in 1..(k - 1) : waiting[j].verb = "ignoreexc"

ExcInv == TypeOK /\ RemovalsAreCurrent

\* Head and tail of a sequence.
LEMMA HeadAndTail ==
    ASSUME NEW S, NEW s \in Seq(S), s # <<>>
    PROVE  /\ Len(s) \in Nat \ {0} /\ Head(s) = s[1] /\ s[1] \in S
           /\ Tail(s) \in Seq(S) /\ Len(Tail(s)) = Len(s) - 1
           /\ \A k \in 1..(Len(s) - 1) : Tail(s)[k] = s[k + 1]
  OBVIOUS

\* What its head has been taken from is neither what it was nor longer.
LEMMA TailIsShorter ==
    ASSUME NEW S, NEW s \in Seq(S), s # <<>>, NEW x
    PROVE  Tail(s) # s /\ Tail(s) # Append(s, x)
<1> DEFINE t == Tail(s)
           a == Append(s, x)
<1>1. Len(t) = Len(s) - 1 /\ Len(s) \in Nat \ {0}
  BY HeadAndTail
<1>2. Len(a) = Len(s) + 1
  OBVIOUS
<1> HIDE DEF t, a
<1>3. Len(t) # Len(s) /\ Len(t) # Len(a)
  BY <1>1, <1>2
<1>4. t # s /\ t # a
  BY <1>3
<1> QED
  BY <1>4 DEF t, a

\* Every command is of one of three kinds.
LEMMA ExcCommands ==
    ASSUME NEW cmd \in Edits
    PROVE  /\ cmd.verb = "ignoreexc" => cmd.range \in Bounds
           /\ cmd.verb = "catchexc" =>
                 cmd.range.lo \in Codes /\ cmd.range = Only(cmd.range.lo)
           /\ cmd.verb = "rmexc" =>
                 cmd.range \in Row /\ cmd.index \in Nat /\ cmd.late \in BOOLEAN
           /\ cmd.verb \in {"ignoreexc", "catchexc", "rmexc"}
  BY DEF Edits, Add, Catch, Only

\* What a command makes of the list and of what waits.
LEMMA ExecuteTypes ==
    ASSUME TypeOK, ExecuteEdit
    PROVE  TypeOK'
<1> DEFINE cmd == Head(waiting)
<1>1. /\ waiting # <<>> /\ waiting' = Tail(waiting) /\ cmd \in Edits
      /\ waiting' \in Seq(Edits) /\ Len(waiting') <= MaxQueue
  BY HeadAndTail, CodesAssumption DEF CodesAssumption, TypeOK, ExecuteEdit
<1>2. rows' \in Seq(Row) /\ Unlike(rows')
  <2>1. CASE cmd.verb = "ignoreexc"
    <3>1. cmd.range \in Bounds /\ rows' = AddIgnoredExceptionRange(cmd.range)
      BY <1>1, <2>1, ExcCommands DEF ExecuteEdit
    <3> QED
      BY <3>1, ExcEdits
  <2>2. CASE cmd.verb = "catchexc"
    <3>1. cmd.range.lo \in Codes /\ rows' = RemoveIgnoredException(cmd.range.lo)
      BY <1>1, <2>2, ExcCommands DEF ExecuteEdit
    <3> QED
      BY <3>1, ExcEdits
  <2>3. CASE cmd.verb = "rmexc"
    <3>1. cmd.index \in Nat /\ rows' = RemoveIgnoredExceptionAt(cmd.index)
      BY <1>1, <2>3, ExcCommands DEF ExecuteEdit
    <3> QED
      BY <3>1, ExcEdits
  <2> QED
    BY <1>1, <2>1, <2>2, <2>3, ExcCommands
<1> QED
  BY <1>1, <1>2 DEF TypeOK, ExecuteEdit, Unlike

\* A command of the list's is appended to those that wait.
LEMMA SendTypes ==
    ASSUME TypeOK, NEW cmd \in Edits, Send(cmd)
    PROVE  TypeOK'
<1>1. waiting' \in Seq(Edits) /\ Len(waiting') = Len(waiting) + 1
      /\ Len(waiting) < MaxQueue /\ Len(waiting) \in Nat
  BY DEF TypeOK, Send
<1>2. Len(waiting') <= MaxQueue
  BY <1>1, CodesAssumption DEF CodesAssumption
<1> QED
  BY <1>1, <1>2 DEF TypeOK, Send

\* The commands the verbs and the page send.  With no removal in between, the row
\* of the page is the row of the list.
LEMMA SentCommands ==
    ASSUME TypeOK
    PROVE  /\ SendIgnore \/ ClickIgnore =>
                 \E cmd \in Edits : cmd.verb = "ignoreexc" /\ Send(cmd)
           /\ SendCatch =>
                 \E cmd \in Edits : cmd.verb = "catchexc" /\ Send(cmd)
           /\ ClickRemove =>
                 \E cmd \in Edits :
                     /\ cmd.verb = "rmexc" /\ Send(cmd)
                     /\ ~cmd.late =>
                           /\ cmd.index \in DOMAIN rows /\ cmd.range = rows[cmd.index]
                           /\ \A k \in DOMAIN waiting : waiting[k].verb = "ignoreexc"
<1>1. ASSUME NEW r \in Bounds
      PROVE  Add(r) \in Edits /\ Add(r).verb = "ignoreexc"
  BY DEF Edits, Add
<1>2. SendIgnore => \E cmd \in Edits : cmd.verb = "ignoreexc" /\ Send(cmd)
  BY <1>1 DEF SendIgnore
<1>3. ClickIgnore => \E cmd \in Edits : cmd.verb = "ignoreexc" /\ Send(cmd)
  <2>1. \A i \in DOMAIN page.seen : Only(page.seen[i]) \in Bounds
    BY DEF TypeOK, Only, Bounds
  <2> QED
    BY <1>1, <2>1 DEF ClickIgnore
<1>4. SendCatch => \E cmd \in Edits : cmd.verb = "catchexc" /\ Send(cmd)
  <2>1. \A c \in Codes :
            Catch(c) \in Edits /\ Catch(c).verb = "catchexc"
    BY DEF Edits, Catch
  <2> QED
    BY <2>1 DEF SendCatch
<1>5. ASSUME ClickRemove
      PROVE  \E cmd \in Edits :
                /\ cmd.verb = "rmexc" /\ Send(cmd)
                /\ ~cmd.late =>
                      /\ cmd.index \in DOMAIN rows /\ cmd.range = rows[cmd.index]
                      /\ \A k \in DOMAIN waiting : waiting[k].verb = "ignoreexc"
  <2>0. RemovalBetween \in BOOLEAN
    BY DEF RemovalBetween
  <2>1. PICK i \in DOMAIN page.rows : Send(RemoveRow(i, RemovalBetween))
    BY <1>5 DEF ClickRemove
  <2>2. page.rows \in Seq(Row) /\ rows \in Seq(Row) /\ page.rows[i] \in Row /\ i \in Nat
    BY <2>1 DEF TypeOK
  <2>3. RemoveRow(i, RemovalBetween) \in Edits
    BY <2>0, <2>2 DEF Edits, RemoveRow
  <2>4. ASSUME ~RemovalBetween
        PROVE  /\ i \in DOMAIN rows /\ page.rows[i] = rows[i]
               /\ \A k \in DOMAIN waiting : waiting[k].verb = "ignoreexc"
    <3>1. Len(page.rows) <= Len(rows)
          /\ SubSeq(page.rows, 1, Len(page.rows)) = SubSeq(rows, 1, Len(page.rows))
      BY <2>4 DEF RemovalBetween, IsPrefix
    <3>2. SubSeq(page.rows, 1, Len(page.rows)) = page.rows
      BY <2>2
    <3>3. i \in 1..Len(page.rows) /\ SubSeq(rows, 1, Len(page.rows))[i] = rows[i]
      BY <2>1, <2>2, <3>1
    <3> QED
      BY <2>2, <2>4, <3>1, <3>2, <3>3 DEF RemovalBetween
  <2> QED
    BY <2>1, <2>3, <2>4 DEF RemoveRow
<1> QED
  BY <1>2, <1>3, <1>4, <1>5

LEMMA ListInitInv == ListInit => ExcInv
<1> SUFFICES ASSUME ListInit PROVE ExcInv
  OBVIOUS
<1>1. Only(SeededCode) \in Row
  BY CodesAssumption DEF CodesAssumption, Only, Row, Bounds, Codes
<1>2. rows = <<Only(SeededCode)>> /\ DOMAIN rows = {1} /\ DOMAIN waiting = {}
  BY DEF ListInit
<1>3. TypeOK
  <2>1. rows \in Seq(Row) /\ \A i, j \in DOMAIN rows : rows[i] = rows[j] => i = j
    BY <1>1, <1>2
  <2>2. waiting \in Seq(Edits) /\ Len(waiting) <= MaxQueue
    BY CodesAssumption DEF CodesAssumption, ListInit
  <2>3. seen \in Seq(Codes) /\ page = [rows |-> rows, seen |-> seen]
    BY DEF ListInit
  <2>4. seen \in Seq(Codes) /\ page \in [rows : Seq(Row), seen : Seq(Codes)]
    BY <2>1, <2>3 DEF ListInit
  <2> QED
    BY <2>1, <2>2, <2>4 DEF ListInit, TypeOK
<1> QED
  BY <1>2, <1>3 DEF ExcInv, RemovalsAreCurrent

LEMMA ExcNextTypes ==
    ASSUME TypeOK, [ListNext]_listVars
    PROVE  TypeOK'
<1>1. ASSUME NEW c \in Codes, Raise(c) PROVE TypeOK'
  <2>1. seen' \in Seq(Codes)
    BY <1>1 DEF Raise, RecordSeenException, TypeOK
  <2>2. stopped' \in BOOLEAN /\ passed' \in BOOLEAN
    BY <1>1 DEF Raise, IsExceptionIgnored
  <2> QED
    BY <1>1, <2>1, <2>2 DEF Raise, TypeOK
<1>2. CASE Go \/ GoPassException
  BY <1>2 DEF Go, GoPassException, TypeOK
<1>3. CASE SendIgnore \/ ClickIgnore
  BY <1>3, SentCommands, SendTypes
<1>4. CASE SendCatch
  BY <1>4, SentCommands, SendTypes
<1>5. CASE ClickRemove
  BY <1>5, SentCommands, SendTypes
<1>6. CASE ExecuteEdit
  BY <1>6, ExecuteTypes
<1>7. CASE UNCHANGED listVars
  BY <1>7 DEF listVars, TypeOK
<1>8. CASE DrawPage
  BY <1>8 DEF DrawPage, TypeOK
<1> QED
  BY <1>1, <1>2, <1>3, <1>4, <1>5, <1>6, <1>7, <1>8 DEF ListNext

\* A command that takes no row out is queued behind the others, or runs first.
LEMMA ExcNextInv ==
    ASSUME ExcInv, [ListNext]_listVars
    PROVE  ExcInv'
<1>1. TypeOK /\ TypeOK'
  BY ExcNextTypes DEF ExcInv
<1>2. ASSUME UNCHANGED <<rows, waiting>> PROVE ExcInv'
  BY <1>1, <1>2 DEF ExcInv, RemovalsAreCurrent
<1>3. ASSUME NEW cmd \in Edits, Send(cmd),
             cmd.verb = "rmexc" /\ ~cmd.late =>
                /\ cmd.index \in DOMAIN rows /\ cmd.range = rows[cmd.index]
                /\ \A k \in DOMAIN waiting : waiting[k].verb = "ignoreexc"
      PROVE  ExcInv'
  <2>1. waiting' = Append(waiting, cmd) /\ rows' = rows
    BY <1>3 DEF Send
  <2>2. waiting \in Seq(Edits)
    BY <1>1 DEF TypeOK
  <2>3. /\ Len(waiting) \in Nat /\ DOMAIN waiting = 1..Len(waiting)
        /\ DOMAIN waiting' = 1..(Len(waiting) + 1)
        /\ waiting'[Len(waiting) + 1] = cmd
        /\ \A k \in 1..Len(waiting) : waiting'[k] = waiting[k]
    BY <2>1, <2>2
  <2>4. RemovalsAreCurrent'
    BY <1>3, <2>1, <2>3 DEF ExcInv, RemovalsAreCurrent
  <2> QED
    BY <1>1, <2>4 DEF ExcInv
<1>4. CASE ExecuteEdit
  <2> DEFINE cmd == Head(waiting)
  <2>1. /\ waiting # <<>> /\ waiting \in Seq(Edits) /\ waiting' = Tail(waiting)
    BY <1>1, <1>4 DEF TypeOK, ExecuteEdit
  <2>2. /\ cmd \in Edits /\ cmd = waiting[1] /\ 1 \in DOMAIN waiting
        /\ \A k \in DOMAIN waiting' :
              k + 1 \in DOMAIN waiting /\ waiting'[k] = waiting[k + 1] /\ k \in Nat \ {0}
    BY <2>1, HeadAndTail
  <2> HIDE DEF cmd
  <2>3. CASE cmd.verb = "ignoreexc"
    <3>1. cmd.range \in Bounds /\ rows' = AddIgnoredExceptionRange(cmd.range)
      BY <1>4, <2>2, <2>3, ExcCommands DEF ExecuteEdit, cmd
    <3>2. \A i \in DOMAIN rows : i \in DOMAIN rows' /\ rows'[i] = rows[i]
      BY <1>1, <3>1, ExcEdits
    <3>3. RemovalsAreCurrent'
      <4>1. SUFFICES ASSUME NEW k \in DOMAIN waiting',
                            waiting'[k].verb = "rmexc", ~waiting'[k].late
                     PROVE  /\ waiting'[k].index \in DOMAIN rows'
                            /\ rows'[waiting'[k].index] = waiting'[k].range
                            /\ \A j \in 1..(k - 1) : waiting'[j].verb = "ignoreexc"
        BY DEF RemovalsAreCurrent
      <4>2. k + 1 \in DOMAIN waiting /\ waiting[k + 1] = waiting'[k] /\ k \in Nat
        BY <2>2
      <4>3. /\ waiting'[k].index \in DOMAIN rows /\ rows[waiting'[k].index] = waiting'[k].range
            /\ \A j \in 1..k : waiting[j].verb = "ignoreexc"
        BY <4>1, <4>2 DEF ExcInv, RemovalsAreCurrent
      <4>4. \A j \in 1..(k - 1) : j \in DOMAIN waiting' /\ j + 1 \in 1..k
        BY <2>1, <4>1, HeadAndTail
      <4>5. \A j \in 1..(k - 1) : waiting'[j] = waiting[j + 1]
        BY <2>2, <4>4
      <4> QED
        BY <3>2, <4>3, <4>4, <4>5
    <3> QED
      BY <1>1, <3>3 DEF ExcInv
  \* Behind a removal every removal by row is late.
  <2>4. CASE cmd.verb # "ignoreexc"
    <3>1. ASSUME NEW k \in DOMAIN waiting'
          PROVE  ~(waiting'[k].verb = "rmexc" /\ ~waiting'[k].late)
      BY <2>2, <2>4 DEF ExcInv, RemovalsAreCurrent
    <3> QED
      BY <1>1, <3>1 DEF ExcInv, RemovalsAreCurrent
  <2> QED
    BY <2>3, <2>4
<1>5. CASE SendIgnore \/ ClickIgnore \/ SendCatch
  BY <1>1, <1>3, <1>5, SentCommands
<1>6. CASE ClickRemove
  BY <1>1, <1>3, <1>6, SentCommands
<1>7. CASE UNCHANGED listVars
  BY <1>2, <1>7 DEF listVars
<1>8. CASE Go \/ GoPassException \/ DrawPage \/ \E c \in Codes : Raise(c)
  BY <1>2, <1>8 DEF Go, GoPassException, DrawPage, Raise
<1> QED
  BY <1>4, <1>5, <1>6, <1>7, <1>8 DEF ListNext

\* Types, for every number of codes, bound of the queue and pace of the user:
\* every row of m_ignoredExceptions is a range, and none is there twice.
THEOREM ExceptionListTypes == ListSpec => []TypeOK
<1>1. ListInit => TypeOK
  BY ListInitInv DEF ExcInv
<1>2. TypeOK /\ [ListNext]_listVars => TypeOK'
  BY ExcNextTypes
<1> QED
  BY <1>1, <1>2, PTL DEF ListSpec

\* A click on Remove takes away the range at which it was made, and no other,
\* however many commands wait, for every user: unless a removal waited or was done
\* between the frame and the click (the rmexc of cmddispatch.cpp, which is told a
\* row's number only).
THEOREM RemovalTakesWhatWasMeant == ListSpec => RemovesWhatWasMeant
<1>1. ListInit => ExcInv
  BY ListInitInv
<1>2. ExcInv /\ [ListNext]_listVars => ExcInv'
  BY ExcNextInv
<1> DEFINE cmd == Head(waiting)
           Meant == waiting # <<>> /\ waiting' = Tail(waiting)
                      => (cmd.verb = "rmexc" /\ ~cmd.late
                            => ToSet(rows') = ToSet(rows) \ {cmd.range})
<1>3. ASSUME ExcInv, [ListNext]_listVars PROVE [Meant]_listVars
  <2> SUFFICES ASSUME ListNext, waiting # <<>>, waiting' = Tail(waiting),
                      cmd.verb = "rmexc", ~cmd.late
               PROVE  ToSet(rows') = ToSet(rows) \ {cmd.range}
    BY <1>3
  <2>1. TypeOK /\ waiting \in Seq(Edits)
    BY <1>3 DEF ExcInv, TypeOK
  <2>2. waiting' # waiting /\ \A c : waiting' # Append(waiting, c)
    BY <2>1, TailIsShorter
  <2>3. ExecuteEdit
    <3>1. \A c : ~Send(c)
      BY <2>2 DEF Send
    <3> QED
      BY <2>2, <3>1 DEF ListNext, Raise, Go, GoPassException, DrawPage, SendIgnore,
                        SendCatch, ClickIgnore, ClickRemove
  <2>4. cmd = waiting[1] /\ 1 \in DOMAIN waiting /\ cmd \in Edits
    BY <2>1, HeadAndTail
  <2> HIDE DEF cmd
  <2>5. cmd.index \in DOMAIN rows /\ rows[cmd.index] = cmd.range
    BY <1>3, <2>4 DEF ExcInv, RemovalsAreCurrent
  <2>6. cmd.index \in Nat /\ rows' = RemoveIgnoredExceptionAt(cmd.index)
    BY <2>3, <2>4, ExcCommands DEF ExecuteEdit, cmd
  <2> QED
    BY <2>1, <2>5, <2>6, ExcEdits
<1> QED
  BY <1>1, <1>2, <1>3, PTL DEF ListSpec, RemovesWhatWasMeant

-----------------------------------------------------------------------------
(* Whose setting a plugin stores, while no two threads are in plugins *)

CONSTANTS Plugins, Threads, MaxDepth
VARIABLES current, scopes, owner, overlapped

Calls == INSTANCE PluginScope

\* The thread that is in a plugin, if one is: each scope restores the name of the
\* plugin that called, and the name parked is that of the innermost call.
Nested(t) ==
    /\ \A i \in DOMAIN scopes[t] :
          scopes[t][i].prev = IF i = 1 THEN Calls!NoPlugin ELSE scopes[t][i - 1].plugin
    /\ current = IF scopes[t] = <<>> THEN Calls!NoPlugin ELSE Calls!Running(t)

Others(t) == \A u \in Threads \ {t} : scopes[u] = <<>>

\* Without an overlap one thread at most is in plugins.
ScopeInv ==
    /\ Calls!TypeOK
    /\ ~overlapped => /\ Calls!SettingsApart
                      /\ Calls!NobodyLeftNamed
                      /\ \A t \in Threads : scopes[t] # <<>> => Nested(t) /\ Others(t)

\* All but the last element of a sequence.
LEMMA FrontIs ==
    ASSUME NEW S, NEW s \in Seq(S), s # <<>>
    PROVE  /\ Front(s) \in Seq(S) /\ Len(Front(s)) = Len(s) - 1
           /\ \A i \in 1..(Len(s) - 1) : Front(s)[i] = s[i]
<1> DEFINE n == Len(s) - 1
<1>1. Len(s) \in Nat \ {0} /\ Front(s) = SubSeq(s, 1, n)
  BY DEF Front
<1>2. \A i \in 1..n : i \in 1..Len(s) /\ s[i] \in S
  BY <1>1
<1>3. n \in Int /\ 1 \in Int /\ n >= 0
  BY <1>1
<1> HIDE DEF n
<1>4. /\ SubSeq(s, 1, n) \in Seq(S)
      /\ Len(SubSeq(s, 1, n)) = IF 1 <= n THEN n - 1 + 1 ELSE 0
      /\ \A i \in 1..(n - 1 + 1) : SubSeq(s, 1, n)[i] = s[1 + i - 1]
  BY <1>2, <1>3, SubSeqProperties
<1>5. Len(SubSeq(s, 1, n)) = n /\ \A i \in 1..n : SubSeq(s, 1, n)[i] = s[i]
  BY <1>3, <1>4
<1> QED
  BY <1>1, <1>4, <1>5 DEF n

LEMMA ScopeInit == Calls!Init => ScopeInv
<1> SUFFICES ASSUME Calls!Init PROVE ScopeInv
  OBVIOUS
<1>1. /\ current = Calls!NoPlugin /\ owner = [p \in Plugins \cup {Calls!NoPlugin} |-> p]
      /\ scopes = [t \in Threads |-> <<>>] /\ overlapped = FALSE
  BY DEF Calls!Init
<1>2. scopes \in [Threads -> Seq([plugin : Plugins, prev : Plugins \cup {Calls!NoPlugin}])]
  <2> DEFINE Frames == [plugin : Plugins, prev : Plugins \cup {Calls!NoPlugin}]
  <2>1. <<>> \in Seq(Frames)
    OBVIOUS
  <2> HIDE DEF Frames
  <2>2. scopes \in [Threads -> Seq(Frames)]
    BY <1>1, <2>1
  <2> QED
    BY <2>2 DEF Frames
<1>3. Calls!TypeOK /\ Calls!SettingsApart
  BY <1>1, <1>2 DEF Calls!TypeOK, Calls!SettingsApart
<1>4. Calls!NobodyLeftNamed /\ \A t \in Threads : scopes[t] = <<>>
  BY <1>1 DEF Calls!NobodyLeftNamed
<1> QED
  BY <1>3, <1>4 DEF ScopeInv

\* The types, whatever overlaps.
LEMMA ScopeTypes ==
    ASSUME Calls!TypeOK, [Calls!Next]_(Calls!vars)
    PROVE  Calls!TypeOK'
<1> DEFINE Frames == [plugin : Plugins, prev : Plugins \cup {Calls!NoPlugin}]
<1>0. /\ current \in Plugins \cup {Calls!NoPlugin} /\ scopes \in [Threads -> Seq(Frames)]
      /\ owner \in [Plugins \cup {Calls!NoPlugin} -> Plugins \cup {Calls!NoPlugin}]
      /\ overlapped \in BOOLEAN
  BY DEF Calls!TypeOK
<1>1. ASSUME NEW t \in Threads, scopes[t] # <<>>
      PROVE  /\ scopes[t][Len(scopes[t])] \in Frames
             /\ Calls!Front(scopes[t]) \in Seq(Frames)
  <2>1. scopes[t] \in Seq(Frames)
    BY <1>0
  <2>2. Calls!Front(scopes[t]) = Front(scopes[t])
    BY DEF Calls!Front, Front
  <2> HIDE DEF Frames
  <2>3. scopes[t][Len(scopes[t])] \in Frames
    BY <1>1, <2>1
  <2> QED
    BY <1>1, <2>1, <2>2, <2>3, FrontIs
<1>2. ASSUME NEW t \in Threads, Calls!Exit(t) PROVE Calls!TypeOK'
  <2>1. current' \in Plugins \cup {Calls!NoPlugin}
    BY <1>1, <1>2 DEF Calls!Exit
  <2>2. scopes' \in [Threads -> Seq(Frames)]
    BY <1>0, <1>1, <1>2 DEF Calls!Exit
  <2> QED
    BY <1>0, <1>2, <2>1, <2>2 DEF Calls!Exit, Calls!TypeOK
<1>3. ASSUME NEW t \in Threads, Calls!SetSetting(t) PROVE Calls!TypeOK'
  <2>1. Calls!Running(t) \in Plugins
    BY <1>1, <1>3 DEF Calls!SetSetting, Calls!Running
  <2> QED
    BY <1>0, <1>3, <2>1 DEF Calls!SetSetting, Calls!TypeOK
<1>4. ASSUME NEW t \in Threads, NEW p \in Plugins, Calls!Enter(t, p) PROVE Calls!TypeOK'
  <2>1. Calls!Scope(p, current) \in Frames
    BY <1>0 DEF Calls!Scope
  <2>2. scopes[t] \in Seq(Frames)
    BY <1>0
  <2>3. Append(scopes[t], Calls!Scope(p, current)) \in Seq(Frames)
    <3> HIDE DEF Frames
    <3> QED
      BY <2>1, <2>2
  <2>4. scopes' \in [Threads -> Seq(Frames)]
    BY <1>0, <1>4, <2>3 DEF Calls!Enter
  <2> QED
    BY <1>0, <1>4, <2>4 DEF Calls!Enter, Calls!TypeOK
<1>5. CASE UNCHANGED Calls!vars
  BY <1>0, <1>5 DEF Calls!vars, Calls!TypeOK
<1> QED
  BY <1>2, <1>3, <1>4, <1>5 DEF Calls!Next

\* A step of a thread while the others are in no plugin.
LEMMA ScopeStep ==
    ASSUME ScopeInv, ~overlapped, NEW thread \in Threads, Others(thread), Nested(thread),
           \/ Calls!Exit(thread) \/ Calls!SetSetting(thread)
           \/ \E p \in Plugins : Calls!Enter(thread, p)
    PROVE  Calls!SettingsApart' /\ Nested(thread)' /\ Others(thread)'
<1> DEFINE stack == scopes[thread]
           n == Len(stack)
           Frames == [plugin : Plugins, prev : Plugins \cup {Calls!NoPlugin}]
<1>1. /\ stack \in Seq(Frames) /\ n \in Nat /\ DOMAIN stack = 1..n
      /\ (stack = <<>> <=> n = 0)
      /\ \A i \in 1..n : stack[i].prev = IF i = 1 THEN Calls!NoPlugin ELSE stack[i - 1].plugin
      /\ current = IF n = 0 THEN Calls!NoPlugin ELSE stack[n].plugin
  <2>1. stack \in Seq(Frames)
    BY DEF ScopeInv, Calls!TypeOK
  <2> HIDE DEF Frames
  <2> QED
    BY <2>1 DEF Nested, Calls!Running
<1>2. Calls!SettingsApart /\ scopes \in [Threads -> Seq(Frames)]
  BY DEF ScopeInv, Calls!TypeOK
<1>3. CASE Calls!Exit(thread)
  <2> DEFINE rest == Calls!Front(stack)
  <2>1. /\ n # 0 /\ scopes' = [scopes EXCEPT ![thread] = rest] /\ owner' = owner
        /\ current' = stack[n].prev
    BY <1>1, <1>3 DEF Calls!Exit
  <2>2. scopes'[thread] = rest /\ \A u \in Threads \ {thread} : scopes'[u] = scopes[u]
    BY <1>2, <2>1
  <2>3. /\ rest \in Seq(Frames) /\ Len(rest) = n - 1
        /\ \A i \in 1..(n - 1) : rest[i] = stack[i]
    <3>1. rest = Front(stack)
      BY DEF Calls!Front, Front
    <3>2. stack \in Seq(Frames) /\ stack # <<>>
      BY <1>1, <2>1
    <3>3. n = Len(stack)
      OBVIOUS
    <3> HIDE DEF rest, stack, n, Frames
    <3> QED
      BY <3>1, <3>2, <3>3, FrontIs
  <2> HIDE DEF rest, stack, n, Frames
  <2>4. current' = IF n - 1 = 0 THEN Calls!NoPlugin ELSE stack[n - 1].plugin
    BY <1>1, <2>1
  <2>5. Nested(thread)'
    <3>1. DOMAIN rest = 1..(n - 1) /\ (rest = <<>> <=> n - 1 = 0)
      BY <1>1, <2>1, <2>3
    <3>2. \A i \in 1..(n - 1) : rest[i].prev = IF i = 1 THEN Calls!NoPlugin ELSE rest[i - 1].plugin
      BY <1>1, <2>3
    <3>3. current' = IF rest = <<>> THEN Calls!NoPlugin ELSE rest[Len(rest)].plugin
      BY <1>1, <2>1, <2>3, <2>4, <3>1
    <3> QED
      BY <2>2, <3>1, <3>2, <3>3 DEF Nested, Calls!Running
  <2> QED
    BY <1>2, <2>1, <2>2, <2>5 DEF Calls!SettingsApart, Others
<1>4. CASE Calls!SetSetting(thread)
  <2>1. owner' = [owner EXCEPT ![current] = current] /\ UNCHANGED <<current, scopes>>
    BY <1>1, <1>4 DEF Calls!SetSetting, Calls!Running
  <2>2. owner' = owner
    BY <1>2, <2>1 DEF ScopeInv, Calls!TypeOK, Calls!SettingsApart
  <2> QED
    BY <1>2, <2>1, <2>2 DEF Nested, Others, Calls!SettingsApart, Calls!Running
<1>5. ASSUME NEW p \in Plugins, Calls!Enter(thread, p)
      PROVE  Calls!SettingsApart' /\ Nested(thread)' /\ Others(thread)'
  <2> DEFINE frame == Calls!Scope(p, current)
  <2>1. /\ scopes' = [scopes EXCEPT ![thread] = Append(@, frame)]
        /\ owner' = owner /\ current' = p
    BY <1>5 DEF Calls!Enter
  <2>2. frame \in Frames /\ frame.plugin = p /\ frame.prev = current
    BY DEF Calls!Scope, ScopeInv, Calls!TypeOK
  <2>3. scopes'[thread] = Append(stack, frame)
        /\ \A u \in Threads \ {thread} : scopes'[u] = scopes[u]
    BY <1>2, <2>1
  <2> HIDE DEF frame
  <2>4. /\ Append(stack, frame) \in Seq(Frames) /\ Len(Append(stack, frame)) = n + 1
        /\ Append(stack, frame)[n + 1] = frame
        /\ \A i \in 1..n : Append(stack, frame)[i] = stack[i]
    BY <1>1, <2>2
  <2>5. Nested(thread)'
    <3> DEFINE more == Append(stack, frame)
    <3>0. more \in Seq(Frames) /\ Len(more) = n + 1 /\ n \in Nat
      BY <1>1, <2>4
    <3>1. DOMAIN more = 1..(n + 1) /\ more # <<>>
      <4> HIDE DEF more, stack, n, Frames
      <4> QED
        BY <3>0
    <3> HIDE DEF more, stack, n, Frames
    <3>2. \A i \in 1..(n + 1) : more[i].prev = IF i = 1 THEN Calls!NoPlugin ELSE more[i - 1].plugin
      BY <1>1, <2>2, <2>4 DEF more
    <3>3. more[Len(more)].plugin = p
      BY <2>2, <2>4 DEF more
    <3> QED
      BY <2>1, <2>3, <3>1, <3>2, <3>3 DEF Nested, Calls!Running, more
  <2> QED
    BY <1>2, <2>1, <2>3, <2>5 DEF Calls!SettingsApart, Others
<1> QED
  BY <1>3, <1>4, <1>5

LEMMA ScopeNext ==
    ASSUME ScopeInv, [Calls!Next]_(Calls!vars)
    PROVE  ScopeInv'
<1>1. Calls!TypeOK'
  BY ScopeTypes DEF ScopeInv
<1>2. ASSUME NEW thread \in Threads, ~overlapped',
             \/ Calls!Exit(thread) \/ Calls!SetSetting(thread)
             \/ \E p \in Plugins : Calls!Enter(thread, p)
      PROVE  ScopeInv'
  <2>1. ~overlapped
    BY <1>2 DEF Calls!Exit, Calls!SetSetting, Calls!Enter
  <2>2. Others(thread)
    BY <1>2, <2>1 DEF Calls!Exit, Calls!SetSetting, Calls!Enter, ScopeInv, Others
  <2>3. Nested(thread)
    <3>1. CASE scopes[thread] # <<>>
      BY <2>1, <3>1 DEF ScopeInv
    <3>2. CASE scopes[thread] = <<>>
      BY <2>1, <2>2, <3>2 DEF ScopeInv, Nested, Others, Calls!NobodyLeftNamed
    <3> QED
      BY <3>1, <3>2
  <2>4. Calls!SettingsApart' /\ Nested(thread)' /\ Others(thread)'
    BY <1>2, <2>1, <2>2, <2>3, ScopeStep
  <2>5. Calls!NobodyLeftNamed'
    BY <2>4 DEF Nested, Calls!NobodyLeftNamed
  <2> QED
    BY <1>1, <2>4, <2>5 DEF ScopeInv, Others
<1>3. CASE overlapped'
  BY <1>1, <1>3 DEF ScopeInv
<1>4. CASE UNCHANGED Calls!vars
  BY <1>1, <1>4 DEF Calls!vars, ScopeInv, Nested, Others, Calls!SettingsApart,
                    Calls!NobodyLeftNamed, Calls!Running
<1> QED
  BY <1>2, <1>3, <1>4 DEF Calls!Next

\* Whatever threads call plugins, and however deep plugins are called from plugins'
\* inline commands: as long as no two threads have been in plugins at once, what is
\* stored is stored under the name of the plugin whose code stores it, and no name
\* stays parked when the last call has returned (PluginScope, PluginSettingKey).
THEOREM SettingsApartButForOverlap == Calls!Spec => []Calls!OnlyOverlapMisnames
<1>1. Calls!Init => ScopeInv
  BY ScopeInit
<1>2. ScopeInv /\ [Calls!Next]_(Calls!vars) => ScopeInv'
  BY ScopeNext
<1>3. ScopeInv => Calls!OnlyOverlapMisnames
  BY DEF ScopeInv, Calls!OnlyOverlapMisnames
<1> QED
  BY <1>1, <1>2, <1>3, PTL DEF Calls!Spec
=============================================================================
