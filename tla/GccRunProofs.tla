---------------------------- MODULE GccRunProofs ----------------------------
(***************************************************************************)
(* Proofs about GccRun, for any number of callers, calls and lines.        *)
(***************************************************************************)
EXTENDS GccRun, TLAPS

-----------------------------------------------------------------------------
(* The inductive invariant, caller by caller.                              *)

Busy(c)  == ~At(c, "idle")
Alone(c) == Busy(c) /\ Mine(c) \notin overlapped

\* What every call can rely on: the names it has set are names, there is a
\* program while it is read and judged, and lines are counted once.
Sound(c) ==
    /\ Busy(c) => Mine(c) # None
    /\ th[c].pc \notin {"idle", "create", "write", "name"} => cppName # None
    /\ th[c].pc \notin {"idle", "create", "write", "name", "stem"} => executableName # None
    /\ th[c].pc = "gxx" => th[c].cpp # None /\ th[c].exe # None
    /\ th[c].pc \in {"loop", "read", "judge"} =>
           prog[c].state # "none" /\ prog[c].by # None
    /\ prog[c].unread + (IF prog[c].part THEN 1 ELSE 0) <= prog[c].printed

\* What a call that overlaps no other can rely on: fields, files and program
\* are its own.
OnTrack(c) ==
    Alone(c) =>
        /\ th[c].pc # "create" => file = Mine(c)
        /\ th[c].pc \notin {"create", "write", "name"} => cppName = Mine(c)
        /\ th[c].pc \notin {"create", "write", "name", "stem"} => executableName = Mine(c)
        /\ th[c].pc \notin {"create", "write", "forget"} =>
               src[Mine(c)].by = Mine(c)
        /\ th[c].pc = "gxx" => th[c].cpp = Mine(c) /\ th[c].exe = Mine(c)
        /\ th[c].pc \in {"launch", "loop", "read", "judge", "deleteExe"} =>
               bin[Mine(c)] = Mine(c)
        /\ th[c].pc \in {"loop", "read"} => prog[c].by = Mine(c)

OwnOutput(c) == Mine(c) \notin overlapped => th[c].from \subseteq {Mine(c)}

\* Nothing is left of call f but a source that g++ rejected.
NoExe(f)    == bin[f] = None
NoSource(f) == src[f] # Missing => src[f].by = f /\ ~src[f].ok

\* As long as no calls have overlapped, all the disk holds beyond that
\* belongs to the call under way.
OnlyMine(c) ==
    (overlapped = {} /\ Busy(c)) =>
        \A f \in Files :
            /\ \/ NoExe(f)
               \/ /\ f = Mine(c)
                  /\ th[c].pc \in {"launch", "loop", "read", "judge", "deleteExe"}
            /\ NoSource(f) \/ (f = Mine(c) /\ th[c].pc \notin {"create", "forget"})

CallInv(c) == Sound(c) /\ OnTrack(c) /\ OwnOutput(c) /\ OnlyMine(c)

\* A call that overlaps no other is the only one under way.
AloneIsOnly == \A c, d \in Callers : Alone(c) /\ Busy(d) => d = c

IInv ==
    /\ TypeOK
    /\ AloneIsOnly
    /\ NoLeftovers
    /\ \A c \in Callers : CallInv(c)

LEMMA InitIInv == Init => IInv
<1> SUFFICES ASSUME Init PROVE IInv
  OBVIOUS
<1>1. NoCall \in Caller /\ NoProcess \in Process /\ Missing \in Source /\ 0 \in 0 .. MaxCalls
  BY GccAssumption
  DEF NoCall, Caller, NoProcess, Process, Missing, Source, Pcs, Verdicts, Files
<1>2. TypeOK
  BY <1>1 DEF Init, TypeOK
<1>3. \A c \in Callers : /\ th[c].pc = "idle" /\ th[c].from = {}
                         /\ prog[c].unread = 0 /\ ~prog[c].part /\ prog[c].printed = 0
  BY DEF Init, NoCall, NoProcess
<1>4. \A f \in Files : NoExe(f) /\ NoSource(f)
  BY DEF Init, NoExe, NoSource
<1>5. AloneIsOnly
  BY <1>3 DEF AloneIsOnly, Alone, Busy, At
<1>6. NoLeftovers
  BY <1>4 DEF NoLeftovers, NoExe, NoSource
<1>7. ASSUME NEW c \in Callers PROVE CallInv(c)
  BY <1>3 DEF CallInv, Sound, OnTrack, OwnOutput, OnlyMine, Alone, Busy, At
<1> QED
  BY <1>2, <1>5, <1>6, <1>7 DEF IInv

-----------------------------------------------------------------------------
(* What the parts of the steps do to the calling threads.                  *)

\* k differs from h at c only, where it is r.
IsUpdate(k, h, c, r) ==
    /\ k \in [Callers -> Caller]
    /\ k[c] = r
    /\ \A d \in Callers : d # c => k[d] = h[d]

LEMMA UpdateEffect ==
    ASSUME NEW h \in [Callers -> Caller], NEW c \in Callers, NEW r \in Caller
    PROVE  IsUpdate([h EXCEPT ![c] = r], h, c, r)
BY DEF IsUpdate

LEMMA GotoEffect ==
    ASSUME TypeOK, NEW c \in Callers, NEW p \in Pcs, Goto(c, p)
    PROVE  /\ th' \in [Callers -> Caller]
           /\ \A d \in Callers : d # c => th'[d] = th[d]
           /\ th'[c].pc = p
           /\ th'[c].call = th[c].call /\ th'[c].from = th[c].from
           /\ th'[c].cpp = th[c].cpp /\ th'[c].exe = th[c].exe
<1> DEFINE r == [th[c] EXCEPT !.pc = p]
<1>1. th \in [Callers -> Caller] /\ th[c] \in Caller
  BY DEF TypeOK
<1>2. /\ r \in Caller
      /\ r.pc = p
      /\ r.call = th[c].call /\ r.from = th[c].from
      /\ r.cpp = th[c].cpp /\ r.exe = th[c].exe
  BY <1>1 DEF Caller
<1>3. th' = [th EXCEPT ![c] = r]
  BY DEF Goto
<1> HIDE DEF r
<1> QED
  BY <1>1, <1>2, <1>3, UpdateEffect DEF IsUpdate

LEMMA ReturnEffect ==
    ASSUME TypeOK, NEW c \in Callers, NEW v \in Verdicts, Return(c, v)
    PROVE  /\ th' \in [Callers -> Caller]
           /\ \A d \in Callers : d # c => th'[d] = th[d]
           /\ th'[c].pc = "idle"
           /\ th'[c].call = th[c].call /\ th'[c].from = th[c].from
<1> DEFINE p == [NoCall EXCEPT !.call = Mine(c)]
           q == [p EXCEPT !.verdict = v]
           r == [q EXCEPT !.from = th[c].from]
<1>1. th \in [Callers -> Caller] /\ th[c] \in Caller
  BY DEF TypeOK
<1>2. Mine(c) \in Files \cup {None} /\ th[c].from \in SUBSET Files
  BY <1>1 DEF Mine, Caller
<1>3. p \in Caller /\ p.pc = "idle" /\ p.call = Mine(c)
  <2>1. NoCall \in Caller /\ NoCall.pc = "idle"
    BY DEF NoCall, Caller, Pcs, Verdicts, Files
  <2> QED
    BY <1>2, <2>1 DEF Caller
<1>4. th' = [th EXCEPT ![c] = r]
  BY DEF Return
<1> HIDE DEF p
<1>5. q \in Caller /\ q.pc = "idle" /\ q.call = Mine(c)
  BY <1>3 DEF Caller
<1> HIDE DEF q
<1>6. r \in Caller /\ r.pc = "idle" /\ r.call = Mine(c) /\ r.from = th[c].from
  BY <1>2, <1>5 DEF Caller
<1> HIDE DEF r
<1> QED
  BY <1>1, <1>4, <1>6, UpdateEffect DEF IsUpdate, Mine

\* What a step of the call under way at c has to establish.
LEMMA Preserve ==
    ASSUME IInv, TypeOK', NEW c \in Callers, Busy(c),
           UNCHANGED hist,
           \A d \in Callers : d # c => th'[d] = th[d] /\ prog'[d] = prog[d],
           th'[c].call = th[c].call,
           cppName # None => cppName' # None,
           executableName # None => executableName' # None,
           CallInv(c)',
           overlapped = {} /\ ~Busy(c)' => \A f \in Files : NoExe(f)' /\ NoSource(f)'
    PROVE  IInv'
<1>1. overlapped' = overlapped
  BY DEF hist
<1>2. \A d \in Callers : d # c => ~Alone(d)
  BY DEF IInv, AloneIsOnly
<1>3. Mine(c) \notin overlapped => \A d \in Callers : d # c => ~Busy(d)
  BY DEF IInv, AloneIsOnly, Alone
<1>4. \A d \in Callers : d # c => (Busy(d)' <=> Busy(d)) /\ (Alone(d)' <=> Alone(d))
  BY <1>1 DEF Busy, Alone, At, Mine
<1>5. Alone(c)' => Mine(c) \notin overlapped
  BY <1>1 DEF Alone, Mine
<1>6. AloneIsOnly'
  BY <1>2, <1>3, <1>4, <1>5 DEF AloneIsOnly
<1>7. NoLeftovers'
  BY <1>1 DEF NoLeftovers, NoExe, NoSource, Busy
<1>8. ASSUME NEW d \in Callers, d # c
      PROVE  CallInv(d)'
  <2>1. CallInv(d)
    BY DEF IInv
  <2>2. Sound(d)'
    BY <1>8, <2>1 DEF CallInv, Sound, Busy, At, Mine
  <2>3. OnTrack(d)'
    BY <1>2, <1>4, <1>8 DEF OnTrack
  <2>4. OwnOutput(d)'
    BY <1>1, <1>8, <2>1 DEF CallInv, OwnOutput, Mine
  <2>5. OnlyMine(d)'
    BY <1>1, <1>3, <1>4, <1>8 DEF OnlyMine
  <2> QED
    BY <2>2, <2>3, <2>4, <2>5 DEF CallInv
<1> QED
  BY <1>6, <1>7, <1>8 DEF IInv

\* The files and fields have their types.
DiskTyped ==
    /\ {file, cppName, executableName} \subseteq Files \cup {None}
    /\ src \in [Files -> Source]
    /\ bin \in [Files -> Files \cup {None}]

\* Steps after which the call is still under way.
LEMMA ByStep ==
    ASSUME IInv, NEW c \in Callers, Busy(c), Busy(c)',
           th' \in [Callers -> Caller],
           \A d \in Callers : d # c => th'[d] = th[d] /\ prog'[d] = prog[d],
           th'[c].call = th[c].call,
           UNCHANGED hist, DiskTyped', prog' \in [Callers -> Process],
           cppName # None => cppName' # None,
           executableName # None => executableName' # None,
           CallInv(c)'
    PROVE  IInv'
<1>1. TypeOK'
  BY DEF IInv, TypeOK, DiskTyped, hist
<1> QED
  BY <1>1, Preserve

\* Steps that only go on to p.
LEMMA ByGoto ==
    ASSUME IInv, NEW c \in Callers, Busy(c), NEW p \in Pcs \ {"idle"}, Goto(c, p),
           UNCHANGED hist, DiskTyped',
           prog' \in [Callers -> Process],
           \A d \in Callers : d # c => prog'[d] = prog[d],
           cppName # None => cppName' # None,
           executableName # None => executableName' # None,
           Sound(c)', OnTrack(c)', OnlyMine(c)'
    PROVE  IInv'
<1>1. /\ th' \in [Callers -> Caller]
      /\ \A d \in Callers : d # c => th'[d] = th[d]
      /\ th'[c].pc = p
      /\ th'[c].call = th[c].call /\ th'[c].from = th[c].from
  BY GotoEffect DEF IInv
<1>2. OwnOutput(c)'
  BY <1>1 DEF IInv, CallInv, OwnOutput, Mine, hist
<1>3. Busy(c)'
  BY <1>1 DEF Busy, At
<1> QED
  BY <1>1, <1>2, <1>3, ByStep DEF CallInv

\* Steps that end the call.
LEMMA ByReturn ==
    ASSUME IInv, NEW c \in Callers, Busy(c), NEW v \in Verdicts, Return(c, v),
           UNCHANGED <<prog, hist>>, DiskTyped',
           cppName # None => cppName' # None,
           executableName # None => executableName' # None,
           overlapped = {} => \A f \in Files : NoExe(f)' /\ NoSource(f)'
    PROVE  IInv'
<1>1. /\ th' \in [Callers -> Caller]
      /\ \A d \in Callers : d # c => th'[d] = th[d]
      /\ th'[c].pc = "idle"
      /\ th'[c].call = th[c].call /\ th'[c].from = th[c].from
  BY ReturnEffect DEF IInv
<1>2. TypeOK'
  BY <1>1 DEF IInv, TypeOK, DiskTyped, hist
<1>3. OwnOutput(c)'
  BY <1>1 DEF IInv, CallInv, OwnOutput, Mine, hist
<1>4. ~Busy(c)' /\ ~Alone(c)'
  BY <1>1 DEF Alone, Busy, At
<1>5. Sound(c)'
  BY <1>1 DEF IInv, CallInv, Sound, Busy, At
<1>6. OnTrack(c)' /\ OnlyMine(c)'
  BY <1>4 DEF OnTrack, OnlyMine
<1> QED
  BY <1>1, <1>2, <1>3, <1>5, <1>6, Preserve DEF CallInv

\* What a step of the call under way at c starts from.
LEMMA CallFacts ==
    ASSUME IInv, NEW c \in Callers, Busy(c)
    PROVE  /\ TypeOK /\ DiskTyped
           /\ th[c] \in Caller /\ prog[c] \in Process
           /\ Mine(c) \in Files
           /\ Sound(c) /\ OnTrack(c) /\ OwnOutput(c) /\ OnlyMine(c)
<1>1. TypeOK /\ CallInv(c)
  BY DEF IInv
<1>2. DiskTyped /\ th[c] \in Caller /\ prog[c] \in Process
  BY <1>1 DEF TypeOK, DiskTyped
<1>3. Mine(c) \in Files
  BY <1>1, <1>2 DEF CallInv, Sound, Mine, Caller
<1> QED
  BY <1>1, <1>2, <1>3 DEF CallInv

-----------------------------------------------------------------------------
(* The steps of a call.                                                    *)

LEMMA CreateStep ==
    ASSUME IInv, NEW c \in Callers, Create(c), UNCHANGED hist
    PROVE  IInv'
<1>1. /\ th[c].pc = "create" /\ Busy(c)
      /\ file' = Mine(c)
      /\ src' = [src EXCEPT ![Mine(c)] = Blank]
      /\ Goto(c, "write")
      /\ UNCHANGED <<cppName, executableName, bin, prog>>
  BY DEF Create, At, Busy
<1>2. /\ TypeOK /\ DiskTyped /\ Mine(c) \in Files
      /\ Sound(c) /\ OnTrack(c) /\ OnlyMine(c)
  BY <1>1, CallFacts
<1>3. "write" \in Pcs \ {"idle"}
  BY DEF Pcs
<1>4. th'[c].pc = "write" /\ th'[c].call = th[c].call
  BY <1>1, <1>2, <1>3, GotoEffect
<1>5. DiskTyped'
  BY <1>1, <1>2 DEF DiskTyped, Source, Blank
<1>6. \A f \in Files : f # Mine(c) => src'[f] = src[f]
  BY <1>1, <1>2 DEF DiskTyped
<1>7. Sound(c)'
  BY <1>1, <1>2, <1>4 DEF Sound, Busy, At, Mine
<1>8. OnTrack(c)'
  BY <1>1, <1>4 DEF OnTrack, Mine
<1>9. OnlyMine(c)'
  BY <1>1, <1>2, <1>4, <1>6 DEF OnlyMine, Busy, At, Mine, NoExe, NoSource, hist
<1>10. prog' \in [Callers -> Process]
  BY <1>1, <1>2 DEF TypeOK
<1> QED
  BY <1>1, <1>3, <1>5, <1>7, <1>8, <1>9, <1>10, ByGoto

LEMMA WriteStep ==
    ASSUME IInv, NEW c \in Callers, Write(c), UNCHANGED hist
    PROVE  IInv'
<1>1. /\ th[c].pc = "write" /\ Busy(c) /\ file # None
      /\ src' = [src EXCEPT ![file] = [by |-> Mine(c), ok |-> th[c].ok]]
      /\ Goto(c, "name")
      /\ UNCHANGED <<file, cppName, executableName, bin, prog>>
  BY DEF Write, At, Busy, fields
<1>2. /\ TypeOK /\ DiskTyped /\ Mine(c) \in Files /\ th[c] \in Caller
      /\ Sound(c) /\ OnTrack(c) /\ OnlyMine(c)
  BY <1>1, CallFacts
<1>3. "name" \in Pcs \ {"idle"}
  BY DEF Pcs
<1>4. th'[c].pc = "name" /\ th'[c].call = th[c].call
  BY <1>1, <1>2, <1>3, GotoEffect
<1> DEFINE r == [by |-> Mine(c), ok |-> th[c].ok]
<1>5. r \in Source /\ r.by = Mine(c)
  BY <1>2 DEF Source, Caller
<1> HIDE DEF r
<1>6. src \in [Files -> Source] /\ file \in Files
  BY <1>1, <1>2 DEF DiskTyped
<1>7. /\ src' \in [Files -> Source] /\ src'[file] = r
      /\ \A f \in Files : f # file => src'[f] = src[f]
  BY <1>1, <1>5, <1>6 DEF r
<1>8. DiskTyped'
  BY <1>1, <1>2, <1>7 DEF DiskTyped
<1>9. Sound(c)'
  BY <1>1, <1>2, <1>4 DEF Sound, Busy, At, Mine
<1>10. Alone(c)' => file = Mine(c)
  BY <1>1, <1>2, <1>4 DEF OnTrack, Alone, Mine, hist
<1>11. OnTrack(c)'
  BY <1>1, <1>4, <1>5, <1>7, <1>10 DEF OnTrack, Mine
<1>12. OnlyMine(c)'
  <2>1. overlapped = {} => file = Mine(c)
    BY <1>1, <1>2 DEF OnTrack, Alone
  <2> QED
    BY <1>1, <1>2, <1>4, <1>7, <2>1 DEF OnlyMine, Busy, At, Mine, NoExe, NoSource, hist
<1>13. prog' \in [Callers -> Process]
  BY <1>1, <1>2 DEF TypeOK
<1> QED
  BY <1>1, <1>3, <1>8, <1>9, <1>11, <1>12, <1>13, ByGoto

\* The fields are set one after the other to the file the call has made.
LEMMA NameStep ==
    ASSUME IInv, NEW c \in Callers, NameSource(c) \/ NameExecutable(c), UNCHANGED hist
    PROVE  IInv'
<1>1. /\ th[c].pc \in {"name", "stem"} /\ Busy(c) /\ file # None
      /\ th[c].pc = "name" => /\ cppName' = file /\ executableName' = executableName
                              /\ Goto(c, "stem")
      /\ th[c].pc = "stem" => /\ executableName' = file /\ cppName' = cppName
                              /\ Goto(c, "check")
      /\ UNCHANGED <<file, src, bin, prog>>
  BY DEF NameSource, NameExecutable, At, Busy, disk
<1>2. /\ TypeOK /\ DiskTyped /\ Mine(c) \in Files
      /\ Sound(c) /\ OnTrack(c) /\ OnlyMine(c)
  BY <1>1, CallFacts
<1> DEFINE p == IF th[c].pc = "name" THEN "stem" ELSE "check"
<1>3. p \in Pcs \ {"idle"} /\ Goto(c, p)
  BY <1>1 DEF Pcs
<1>4. th'[c].pc = p /\ th'[c].call = th[c].call
  BY <1>2, <1>3, GotoEffect
<1>5. DiskTyped'
  BY <1>1, <1>2 DEF DiskTyped
<1>6. Sound(c)'
  BY <1>1, <1>2, <1>4 DEF Sound, Busy, At, Mine
<1>7. OnTrack(c)'
  BY <1>1, <1>2, <1>4 DEF OnTrack, Alone, Busy, At, Mine, hist
<1>8. OnlyMine(c)'
  BY <1>1, <1>2, <1>4 DEF OnlyMine, Busy, At, Mine, NoExe, NoSource, hist
<1>9. prog' \in [Callers -> Process]
  BY <1>1, <1>2 DEF TypeOK
<1> HIDE DEF p
<1>10. /\ cppName # None => cppName' # None
       /\ executableName # None => executableName' # None
  BY <1>1
<1> QED
  BY <1>1, <1>3, <1>5, <1>6, <1>7, <1>8, <1>9, <1>10, ByGoto

\* A call that overlaps no other finds its file there.
LEMMA CheckFileStep ==
    ASSUME IInv, NEW c \in Callers, CheckFile(c), UNCHANGED hist
    PROVE  IInv'
<1>1. /\ th[c].pc = "check" /\ Busy(c)
      /\ IF src[file] = Missing THEN Return(c, "alert") ELSE Goto(c, "spawn")
      /\ UNCHANGED <<file, cppName, executableName, src, bin, prog, hist>>
  BY DEF CheckFile, At, Busy, fields, disk
<1>2. /\ TypeOK /\ DiskTyped /\ Mine(c) \in Files
      /\ Sound(c) /\ OnTrack(c) /\ OnlyMine(c)
  BY <1>1, CallFacts
<1>3. DiskTyped'
  BY <1>1, <1>2 DEF DiskTyped
<1>4. CASE src[file] = Missing
  <2>1. overlapped # {}
    <3>1. src[file] = Missing /\ Missing.by = None
      BY <1>4 DEF Missing
    <3>2. Mine(c) # None
      BY <1>2, GccAssumption DEF Files
    <3> QED
      BY <1>1, <1>2, <3>1, <3>2 DEF OnTrack, Alone
  <2>2. "alert" \in Verdicts
    BY DEF Verdicts
  <2> QED
    BY <1>1, <1>3, <1>4, <2>1, <2>2, ByReturn
<1>5. CASE src[file] # Missing
  <2>1. "spawn" \in Pcs \ {"idle"} /\ Goto(c, "spawn")
    BY <1>1, <1>5 DEF Pcs
  <2>2. th'[c].pc = "spawn" /\ th'[c].call = th[c].call
    BY <1>2, <2>1, GotoEffect
  <2>3. Sound(c)'
    BY <1>1, <1>2, <2>2 DEF Sound, Busy, At, Mine
  <2>4. OnTrack(c)'
    BY <1>1, <1>2, <2>2 DEF OnTrack, Alone, Busy, At, Mine, hist
  <2>5. OnlyMine(c)'
    BY <1>1, <1>2, <2>2 DEF OnlyMine, Busy, At, Mine, NoExe, NoSource, hist
  <2>6. prog' \in [Callers -> Process]
    BY <1>1, <1>2 DEF TypeOK
  <2> QED
    BY <1>1, <1>3, <2>1, <2>3, <2>4, <2>5, <2>6, ByGoto
<1> QED
  BY <1>4, <1>5

\* Only a call that overlaps another one finds that it has no file.
LEMMA NullPointerStep ==
    ASSUME IInv, NEW c \in Callers, NullPointer(c), UNCHANGED hist
    PROVE  IInv'
<1>1. /\ th[c].pc \in {"write", "name", "stem", "check"} /\ Busy(c) /\ file = None
      /\ Return(c, "exception")
      /\ UNCHANGED <<file, cppName, executableName, src, bin, prog, hist>>
  BY DEF NullPointer, At, Busy, fields, disk
<1>2. DiskTyped /\ Mine(c) \in Files /\ OnTrack(c)
  BY <1>1, CallFacts
<1>3. DiskTyped' /\ "exception" \in Verdicts
  BY <1>1, <1>2 DEF DiskTyped, Verdicts
<1>4. overlapped # {}
  BY <1>1, <1>2, GccAssumption DEF OnTrack, Alone, Files
<1> QED
  BY <1>1, <1>3, <1>4, ByReturn

LEMMA SpawnStep ==
    ASSUME IInv, NEW c \in Callers, Spawn(c), UNCHANGED hist
    PROVE  IInv'
<1>1. /\ th[c].pc = "spawn" /\ Busy(c)
      /\ th' = [th EXCEPT ![c].pc = "gxx", ![c].cpp = cppName, ![c].exe = executableName]
      /\ UNCHANGED <<file, cppName, executableName, src, bin, prog, hist>>
  BY DEF Spawn, At, Busy, fields, disk
<1>2. /\ TypeOK /\ DiskTyped /\ Mine(c) \in Files /\ th[c] \in Caller
      /\ Sound(c) /\ OnTrack(c) /\ OwnOutput(c) /\ OnlyMine(c)
  BY <1>1, CallFacts
<1> DEFINE p == [th[c] EXCEPT !.pc = "gxx"]
           q == [p EXCEPT !.cpp = cppName]
           r == [q EXCEPT !.exe = executableName]
<1>3. cppName \in Files \cup {None} /\ executableName \in Files \cup {None}
  BY <1>2 DEF DiskTyped
<1>4. p \in Caller /\ p.pc = "gxx" /\ p.call = th[c].call /\ p.from = th[c].from
  BY <1>2 DEF Caller, Pcs
<1>5. th' = [th EXCEPT ![c] = r]
  <2>1. th \in [Callers -> Caller]
    BY <1>2 DEF TypeOK
  <2> QED
    BY <1>1, <2>1
<1> HIDE DEF p
<1>6. /\ q \in Caller /\ q.pc = "gxx" /\ q.call = th[c].call /\ q.from = th[c].from
      /\ q.cpp = cppName
  BY <1>3, <1>4 DEF Caller
<1> HIDE DEF q
<1>7. /\ r \in Caller /\ r.pc = "gxx" /\ r.call = th[c].call /\ r.from = th[c].from
      /\ r.cpp = cppName /\ r.exe = executableName
  BY <1>3, <1>6 DEF Caller
<1> HIDE DEF r
<1>8. IsUpdate(th', th, c, r)
  BY <1>2, <1>5, <1>7, UpdateEffect DEF TypeOK
<1>9. /\ th' \in [Callers -> Caller]
      /\ \A d \in Callers : d # c => th'[d] = th[d] /\ prog'[d] = prog[d]
      /\ th'[c].pc = "gxx" /\ th'[c].call = th[c].call /\ th'[c].from = th[c].from
      /\ th'[c].cpp = cppName /\ th'[c].exe = executableName
  BY <1>1, <1>7, <1>8 DEF IsUpdate
<1>10. DiskTyped' /\ prog' \in [Callers -> Process] /\ Busy(c)'
  BY <1>1, <1>2, <1>9 DEF DiskTyped, TypeOK, Busy, At
<1>11. Sound(c)'
  BY <1>1, <1>2, <1>9 DEF Sound, Busy, At, Mine
<1>12. OnTrack(c)'
  BY <1>1, <1>2, <1>9 DEF OnTrack, Alone, Busy, At, Mine, hist
<1>13. OwnOutput(c)' /\ OnlyMine(c)'
  BY <1>1, <1>2, <1>9 DEF OwnOutput, OnlyMine, Busy, At, Mine, NoExe, NoSource, hist
<1> QED
  BY <1>1, <1>9, <1>10, <1>11, <1>12, <1>13, ByStep DEF CallInv

\* g++ leaves a source it rejects, and nothing else, on disk.
LEMMA GxxStep ==
    ASSUME IInv, NEW c \in Callers, Gxx(c), UNCHANGED hist
    PROVE  IInv'
<1> DEFINE s == src[th[c].cpp]
<1>1. /\ th[c].pc = "gxx" /\ Busy(c)
      /\ IF s.by # None /\ s.ok
         THEN bin' = [bin EXCEPT ![th[c].exe] = s.by] /\ Goto(c, "launch")
         ELSE Return(c, "compileError") /\ UNCHANGED bin
      /\ UNCHANGED <<file, cppName, executableName, src, prog, hist>>
  BY DEF Gxx, At, Busy, fields
<1>2. /\ TypeOK /\ DiskTyped /\ Mine(c) \in Files /\ th[c] \in Caller
      /\ Sound(c) /\ OnTrack(c) /\ OnlyMine(c)
  BY <1>1, CallFacts
<1>3. th[c].cpp \in Files /\ th[c].exe \in Files
  BY <1>1, <1>2 DEF Sound, Caller
<1>4. s \in Source
  BY <1>2, <1>3 DEF DiskTyped
<1>5. Mine(c) \notin overlapped => th[c].cpp = Mine(c) /\ th[c].exe = Mine(c) /\ s.by = Mine(c)
  BY <1>1, <1>2 DEF OnTrack, Alone
<1> HIDE DEF s
<1>6. CASE s.by # None /\ s.ok
  <2>1. bin' = [bin EXCEPT ![th[c].exe] = s.by] /\ "launch" \in Pcs \ {"idle"}
        /\ Goto(c, "launch")
    BY <1>1, <1>6 DEF Pcs
  <2>2. th'[c].pc = "launch" /\ th'[c].call = th[c].call
    BY <1>2, <2>1, GotoEffect
  <2>3. /\ bin' \in [Files -> Files \cup {None}] /\ bin'[th[c].exe] = s.by
        /\ \A f \in Files : f # th[c].exe => bin'[f] = bin[f]
    BY <1>2, <1>3, <1>4, <2>1 DEF DiskTyped, Source
  <2>4. DiskTyped' /\ prog' \in [Callers -> Process]
    BY <1>1, <1>2, <2>3 DEF DiskTyped, TypeOK
  <2>5. Sound(c)'
    BY <1>1, <1>2, <2>2 DEF Sound, Busy, At, Mine
  <2>6. OnTrack(c)'
    BY <1>1, <1>2, <1>5, <2>2, <2>3 DEF OnTrack, Alone, Busy, At, Mine, hist
  <2>7. OnlyMine(c)'
    BY <1>1, <1>2, <1>5, <2>2, <2>3 DEF OnlyMine, Busy, At, Mine, NoExe, NoSource, hist
  <2> QED
    BY <1>1, <2>1, <2>4, <2>5, <2>6, <2>7, <1>2, ByGoto DEF TypeOK
<1>7. CASE ~(s.by # None /\ s.ok)
  <2>1. Return(c, "compileError") /\ bin' = bin /\ "compileError" \in Verdicts
    BY <1>1, <1>7 DEF Verdicts
  <2>2. DiskTyped'
    BY <1>1, <1>2, <2>1 DEF DiskTyped
  <2>3. ASSUME overlapped = {}, NEW f \in Files PROVE NoExe(f)' /\ NoSource(f)'
    <3>1. th[c].cpp = Mine(c) /\ s.by = Mine(c) /\ Mine(c) # None
      BY <1>2, <1>5, <2>3, GccAssumption DEF Files
    <3>2. NoSource(Mine(c))
      BY <1>7, <3>1 DEF NoSource, s
    <3>3. NoExe(f) /\ (NoSource(f) \/ f = Mine(c))
      BY <1>1, <1>2, <2>3 DEF OnlyMine
    <3> QED
      BY <1>1, <2>1, <3>2, <3>3 DEF NoExe, NoSource
  <2> QED
    BY <1>1, <2>1, <2>2, <2>3, ByReturn
<1> QED
  BY <1>6, <1>7

LEMMA NoProcessFacts ==
    /\ NoProcess \in Process
    /\ NoProcess.unread = 0 /\ ~NoProcess.part /\ NoProcess.printed = 0
<1>1. 0 \in 0 .. MaxLines
  BY GccAssumption
<1> QED
  BY <1>1 DEF NoProcess, Process

LEMMA LaunchStep ==
    ASSUME IInv, NEW c \in Callers, Launch(c), UNCHANGED hist
    PROVE  IInv'
<1> DEFINE b == bin[executableName]
           r == [NoProcess EXCEPT !.state = "running", !.by = b]
<1>1. /\ th[c].pc = "launch" /\ Busy(c)
      /\ IF b # None THEN prog' = [prog EXCEPT ![c] = r] /\ Goto(c, "loop")
                     ELSE Return(c, "alert") /\ UNCHANGED prog
      /\ UNCHANGED <<file, cppName, executableName, src, bin, hist>>
  BY DEF Launch, At, Busy, fields, disk
<1>2. /\ TypeOK /\ DiskTyped /\ Mine(c) \in Files /\ Mine(c) # None
      /\ Sound(c) /\ OnTrack(c) /\ OnlyMine(c)
  BY <1>1, CallFacts, GccAssumption DEF Files
<1>3. b \in Files \cup {None}
  BY <1>1, <1>2 DEF DiskTyped, Sound
<1>4. Mine(c) \notin overlapped => b = Mine(c)
  BY <1>1, <1>2 DEF OnTrack, Alone
<1>5. /\ r \in Process /\ r.state = "running" /\ r.by = b
      /\ r.unread = 0 /\ ~r.part /\ r.printed = 0
  <2> HIDE DEF b
  <2> DEFINE q == [NoProcess EXCEPT !.state = "running"]
  <2>1. /\ q \in Process /\ q.state = "running"
        /\ q.unread = 0 /\ ~q.part /\ q.printed = 0
    BY NoProcessFacts DEF Process
  <2> HIDE DEF q
  <2>2. LET t == [q EXCEPT !.by = b]
        IN  /\ t \in Process /\ t.state = "running" /\ t.by = b
            /\ t.unread = 0 /\ ~t.part /\ t.printed = 0
    BY <1>3, <2>1 DEF Process
  <2> QED
    BY <2>2 DEF q
<1>6. DiskTyped'
  BY <1>1, <1>2 DEF DiskTyped
<1> HIDE DEF b, r
<1>7. CASE b # None
  <2>1. prog' = [prog EXCEPT ![c] = r] /\ "loop" \in Pcs \ {"idle"} /\ Goto(c, "loop")
    BY <1>1, <1>7 DEF Pcs
  <2>2. th'[c].pc = "loop" /\ th'[c].call = th[c].call
    BY <1>2, <2>1, GotoEffect
  <2>3. /\ prog' \in [Callers -> Process] /\ prog'[c] = r
        /\ \A d \in Callers : d # c => prog'[d] = prog[d]
    BY <1>2, <1>5, <2>1 DEF TypeOK
  <2>4. Sound(c)'
    BY <1>1, <1>2, <1>5, <1>7, <2>2, <2>3 DEF Sound, Busy, At, Mine
  <2>5. OnTrack(c)'
    BY <1>1, <1>2, <1>4, <1>5, <2>2, <2>3 DEF OnTrack, Alone, Busy, At, Mine, hist
  <2>6. OnlyMine(c)'
    BY <1>1, <1>2, <2>2 DEF OnlyMine, Busy, At, Mine, NoExe, NoSource, hist
  <2> QED
    BY <1>1, <1>6, <2>1, <2>3, <2>4, <2>5, <2>6, ByGoto
<1>8. CASE b = None
  <2>1. Return(c, "alert") /\ prog' = prog /\ "alert" \in Verdicts
    BY <1>1, <1>8 DEF Verdicts
  <2>2. overlapped # {}
    BY <1>2, <1>4, <1>8
  <2> QED
    BY <1>1, <1>6, <2>1, <2>2, ByReturn
<1> QED
  BY <1>7, <1>8

\* The time is looked at and the output polled.
LEMMA LoopStep ==
    ASSUME IInv, NEW c \in Callers, Loop(c), UNCHANGED hist
    PROVE  IInv'
<1> DEFINE p == IF Ready(prog[c]) THEN "read" ELSE "loop"
<1>1. /\ th[c].pc = "loop" /\ Busy(c)
      /\ IF th[c].over THEN Goto(c, "judge")
         ELSE th' = [th EXCEPT ![c].pc = p, ![c].over = th[c].late]
      /\ UNCHANGED <<file, cppName, executableName, src, bin, prog, hist>>
  BY DEF Loop, At, Busy, fields, disk
<1>2. /\ TypeOK /\ DiskTyped /\ Mine(c) \in Files /\ th[c] \in Caller
      /\ Sound(c) /\ OnTrack(c) /\ OwnOutput(c) /\ OnlyMine(c)
  BY <1>1, CallFacts
<1>3. DiskTyped' /\ prog' \in [Callers -> Process]
  BY <1>1, <1>2 DEF DiskTyped, TypeOK
<1>4. p \in {"read", "loop"} /\ p \in Pcs
  BY DEF Pcs
<1> HIDE DEF p
<1>5. CASE th[c].over
  <2>1. "judge" \in Pcs \ {"idle"} /\ Goto(c, "judge")
    BY <1>1, <1>5 DEF Pcs
  <2>2. th'[c].pc = "judge" /\ th'[c].call = th[c].call
    BY <1>2, <2>1, GotoEffect
  <2>3. Sound(c)'
    BY <1>1, <1>2, <2>2 DEF Sound, Busy, At, Mine
  <2>4. OnTrack(c)'
    BY <1>1, <1>2, <2>2 DEF OnTrack, Alone, Busy, At, Mine, hist
  <2>5. OnlyMine(c)'
    BY <1>1, <1>2, <2>2 DEF OnlyMine, Busy, At, Mine, NoExe, NoSource, hist
  <2> QED
    BY <1>1, <1>3, <2>1, <2>3, <2>4, <2>5, ByGoto
<1>6. CASE ~th[c].over
  <2> DEFINE q == [th[c] EXCEPT !.pc = p]
             r == [q EXCEPT !.over = th[c].late]
  <2>1. q \in Caller /\ q.pc = p /\ q.call = th[c].call /\ q.from = th[c].from
    BY <1>2, <1>4 DEF Caller
  <2>2. th' = [th EXCEPT ![c] = r]
    <3>1. th \in [Callers -> Caller]
      BY <1>2 DEF TypeOK
    <3> QED
      BY <1>1, <1>6, <3>1
  <2>3. th[c].late \in BOOLEAN
    BY <1>2 DEF Caller
  <2> HIDE DEF q
  <2>4. r \in Caller /\ r.pc = p /\ r.call = th[c].call /\ r.from = th[c].from
    BY <2>1, <2>3 DEF Caller
  <2> HIDE DEF r
  <2>5. IsUpdate(th', th, c, r)
    BY <1>2, <2>2, <2>4, UpdateEffect DEF TypeOK
  <2>6. /\ th' \in [Callers -> Caller]
        /\ \A d \in Callers : d # c => th'[d] = th[d] /\ prog'[d] = prog[d]
        /\ th'[c].pc = p /\ th'[c].call = th[c].call /\ th'[c].from = th[c].from
    BY <1>1, <2>4, <2>5 DEF IsUpdate
  <2>7. Sound(c)' /\ Busy(c)'
    BY <1>1, <1>2, <1>4, <2>6 DEF Sound, Busy, At, Mine
  <2>8. OnTrack(c)'
    BY <1>1, <1>2, <1>4, <2>6 DEF OnTrack, Alone, Busy, At, Mine, hist
  <2>9. OwnOutput(c)' /\ OnlyMine(c)'
    BY <1>1, <1>2, <1>4, <2>6
    DEF OwnOutput, OnlyMine, Busy, At, Mine, NoExe, NoSource, hist
  <2> QED
    BY <1>1, <1>3, <2>6, <2>7, <2>8, <2>9, ByStep DEF CallInv
<1> QED
  BY <1>5, <1>6

\* What is read comes from the program the call has started.
LEMMA ReadStep ==
    ASSUME IInv, NEW c \in Callers, Read(c), UNCHANGED hist
    PROVE  IInv'
<1>1. /\ th[c].pc = "read" /\ Busy(c)
      /\ prog' = [prog EXCEPT ![c] = Rest(prog[c])]
      /\ th' = [th EXCEPT ![c].pc = "loop", ![c].from = @ \cup {prog[c].by}]
      /\ UNCHANGED <<file, cppName, executableName, src, bin, hist>>
  BY DEF Read, At, Busy, fields, disk
<1>2. /\ TypeOK /\ DiskTyped /\ Mine(c) \in Files /\ th[c] \in Caller /\ prog[c] \in Process
      /\ Sound(c) /\ OnTrack(c) /\ OwnOutput(c) /\ OnlyMine(c)
  BY <1>1, CallFacts
<1> DEFINE q == [th[c] EXCEPT !.pc = "loop"]
           r == [q EXCEPT !.from = th[c].from \cup {prog[c].by}]
<1>3. prog[c].by \in Files
  BY <1>1, <1>2 DEF Sound, Process
<1>4. q \in Caller /\ q.pc = "loop" /\ q.call = th[c].call
  BY <1>2 DEF Caller, Pcs
<1>5. th' = [th EXCEPT ![c] = r]
  <2>1. th \in [Callers -> Caller]
    BY <1>2 DEF TypeOK
  <2> QED
    BY <1>1, <2>1
<1>6. th[c].from \cup {prog[c].by} \in SUBSET Files
  BY <1>2, <1>3 DEF Caller
<1> HIDE DEF q
<1>7. /\ r \in Caller /\ r.pc = "loop" /\ r.call = th[c].call
      /\ r.from = th[c].from \cup {prog[c].by}
  BY <1>4, <1>6 DEF Caller
<1> HIDE DEF r
<1>8. IsUpdate(th', th, c, r)
  BY <1>2, <1>5, <1>7, UpdateEffect DEF TypeOK
<1> DEFINE s == Rest(prog[c])
<1>9. /\ s \in Process /\ s.state = prog[c].state /\ s.by = prog[c].by
      /\ s.printed = prog[c].printed
      /\ s.unread + (IF s.part THEN 1 ELSE 0) <= s.printed
  <2>1. prog[c].unread + (IF prog[c].part THEN 1 ELSE 0) <= prog[c].printed
    BY <1>2 DEF Sound
  <2>2. CASE prog[c].unread > 0
    <3>1. s = [prog[c] EXCEPT !.unread = @ - 1]
      BY <2>2 DEF Rest
    <3>2. prog[c].unread - 1 \in 0 .. MaxLines
      BY <1>2, <2>2, GccAssumption DEF Process
    <3>3. /\ s \in Process /\ s.state = prog[c].state /\ s.by = prog[c].by
          /\ s.printed = prog[c].printed /\ s.part = prog[c].part
          /\ s.unread = prog[c].unread - 1
      <4> HIDE DEF s
      <4> QED
        BY <1>2, <3>1, <3>2 DEF Process
    <3> QED
      BY <1>2, <2>1, <3>3 DEF Process
  <2>3. CASE ~(prog[c].unread > 0)
    <3>1. s = [prog[c] EXCEPT !.part = FALSE]
      BY <2>3 DEF Rest
    <3>2. /\ s \in Process /\ s.state = prog[c].state /\ s.by = prog[c].by
          /\ s.printed = prog[c].printed /\ ~s.part /\ s.unread = prog[c].unread
      <4> HIDE DEF s
      <4> QED
        BY <1>2, <3>1 DEF Process
    <3> QED
      BY <1>2, <2>1, <3>2 DEF Process
  <2> QED
    BY <2>2, <2>3
<1> HIDE DEF s
<1>10. /\ prog' \in [Callers -> Process] /\ prog'[c] = s
       /\ \A d \in Callers : d # c => prog'[d] = prog[d]
  BY <1>1, <1>2, <1>9 DEF TypeOK, s
<1>11. /\ th' \in [Callers -> Caller]
       /\ \A d \in Callers : d # c => th'[d] = th[d] /\ prog'[d] = prog[d]
       /\ th'[c].pc = "loop" /\ th'[c].call = th[c].call
       /\ th'[c].from = th[c].from \cup {prog[c].by}
  BY <1>7, <1>8, <1>10 DEF IsUpdate
<1>12. DiskTyped'
  BY <1>1, <1>2 DEF DiskTyped
<1>13. Sound(c)' /\ Busy(c)'
  BY <1>1, <1>2, <1>9, <1>10, <1>11 DEF Sound, Busy, At, Mine
<1>14. OnTrack(c)'
  BY <1>1, <1>2, <1>9, <1>10, <1>11 DEF OnTrack, Alone, Busy, At, Mine, hist
<1>15. OwnOutput(c)'
  BY <1>1, <1>2, <1>11 DEF OwnOutput, OnTrack, Alone, Mine, hist
<1>16. OnlyMine(c)'
  BY <1>1, <1>2, <1>11 DEF OnlyMine, Busy, At, Mine, NoExe, NoSource, hist
<1> QED
  BY <1>1, <1>10, <1>11, <1>12, <1>13, <1>14, <1>15, <1>16, ByStep DEF CallInv

\* The output of a program that did not end is replaced.
LEMMA JudgeStep ==
    ASSUME IInv, NEW c \in Callers, Judge(c), UNCHANGED hist
    PROVE  IInv'
<1> DEFINE v == CASE prog[c].state = "exited"  -> "ok"
                  [] prog[c].state = "failed"  -> "runError"
                  [] prog[c].state = "running" -> "timeout"
           f == IF v = "timeout" THEN {} ELSE th[c].from
           p == [th[c] EXCEPT !.pc = "deleteExe"]
           q == [p EXCEPT !.verdict = v]
           r == [q EXCEPT !.from = f]
<1>1. /\ th[c].pc = "judge" /\ Busy(c)
      /\ th' = [th EXCEPT ![c].pc = "deleteExe", ![c].verdict = v,
                          ![c].from = IF v = "timeout" THEN {} ELSE @]
      /\ UNCHANGED <<file, cppName, executableName, src, bin, prog, hist>>
  BY DEF Judge, At, Busy, fields, disk
<1>2. /\ TypeOK /\ DiskTyped /\ Mine(c) \in Files /\ th[c] \in Caller /\ prog[c] \in Process
      /\ Sound(c) /\ OnTrack(c) /\ OwnOutput(c) /\ OnlyMine(c)
  BY <1>1, CallFacts
<1>3. v \in Verdicts
  <2>1. prog[c].state \in {"exited", "failed", "running"}
    BY <1>1, <1>2 DEF Sound, Process
  <2> QED
    BY <2>1 DEF Verdicts
<1> HIDE DEF v
<1>4. p \in Caller /\ p.pc = "deleteExe" /\ p.call = th[c].call /\ p.from = th[c].from
  BY <1>2 DEF Caller, Pcs
<1>5. th' = [th EXCEPT ![c] = r]
  <2>1. th \in [Callers -> Caller]
    BY <1>2 DEF TypeOK
  <2> QED
    BY <1>1, <2>1
<1>6. f \subseteq th[c].from /\ f \in SUBSET Files
  BY <1>2 DEF Caller
<1> HIDE DEF p, f
<1>7. q \in Caller /\ q.pc = "deleteExe" /\ q.call = th[c].call
  BY <1>3, <1>4 DEF Caller
<1> HIDE DEF q
<1>8. r \in Caller /\ r.pc = "deleteExe" /\ r.call = th[c].call /\ r.from = f
  BY <1>6, <1>7 DEF Caller
<1> HIDE DEF r
<1>9. IsUpdate(th', th, c, r)
  BY <1>2, <1>5, <1>8, UpdateEffect DEF TypeOK
<1>10. /\ th' \in [Callers -> Caller]
       /\ \A d \in Callers : d # c => th'[d] = th[d] /\ prog'[d] = prog[d]
       /\ th'[c].pc = "deleteExe" /\ th'[c].call = th[c].call
       /\ th'[c].from \subseteq th[c].from
  BY <1>1, <1>6, <1>8, <1>9 DEF IsUpdate
<1>11. DiskTyped' /\ prog' \in [Callers -> Process]
  BY <1>1, <1>2 DEF DiskTyped, TypeOK
<1>12. Sound(c)' /\ Busy(c)'
  BY <1>1, <1>2, <1>10 DEF Sound, Busy, At, Mine
<1>13. OnTrack(c)'
  BY <1>1, <1>2, <1>10 DEF OnTrack, Alone, Busy, At, Mine, hist
<1>14. OwnOutput(c)' /\ OnlyMine(c)'
  BY <1>1, <1>2, <1>10 DEF OwnOutput, OnlyMine, Busy, At, Mine, NoExe, NoSource, hist
<1> QED
  BY <1>1, <1>10, <1>11, <1>12, <1>13, <1>14, ByStep DEF CallInv

\* The executable goes, and no other is on disk if no calls have overlapped.
LEMMA DeleteExeStep ==
    ASSUME IInv, NEW c \in Callers, DeleteExe(c), UNCHANGED hist
    PROVE  IInv'
<1>1. /\ th[c].pc = "deleteExe" /\ Busy(c)
      /\ prog' = [prog EXCEPT ![c] = NoProcess]
      /\ bin' = [bin EXCEPT ![executableName] = None]
      /\ Goto(c, "findSrc")
      /\ UNCHANGED <<file, cppName, executableName, src, hist>>
  BY DEF DeleteExe, Deleted, At, Busy, fields
<1>2. /\ TypeOK /\ DiskTyped /\ Mine(c) \in Files
      /\ Sound(c) /\ OnTrack(c) /\ OnlyMine(c)
  BY <1>1, CallFacts
<1>3. "findSrc" \in Pcs \ {"idle"}
  BY DEF Pcs
<1>4. th'[c].pc = "findSrc" /\ th'[c].call = th[c].call
  BY <1>1, <1>2, <1>3, GotoEffect
<1>5. executableName \in Files
  BY <1>1, <1>2 DEF DiskTyped, Sound
<1>6. /\ bin' \in [Files -> Files \cup {None}] /\ bin'[executableName] = None
      /\ \A f \in Files : f # executableName => bin'[f] = bin[f]
  BY <1>1, <1>2, <1>5 DEF DiskTyped
<1>7. DiskTyped'
  BY <1>1, <1>2, <1>6 DEF DiskTyped
<1>8. /\ prog' \in [Callers -> Process] /\ prog'[c] = NoProcess
      /\ \A d \in Callers : d # c => prog'[d] = prog[d]
  BY <1>1, <1>2, NoProcessFacts DEF TypeOK
<1>9. Sound(c)'
  BY <1>1, <1>2, <1>4, <1>8, NoProcessFacts DEF Sound, Busy, At, Mine
<1>10. OnTrack(c)'
  BY <1>1, <1>2, <1>4 DEF OnTrack, Alone, Busy, At, Mine, hist
<1>11. OnlyMine(c)'
  <2>1. overlapped = {} => executableName = Mine(c)
    BY <1>1, <1>2 DEF OnTrack, Alone
  <2> QED
    BY <1>1, <1>2, <1>4, <1>6, <2>1 DEF OnlyMine, Busy, At, Mine, NoExe, NoSource, hist
<1> QED
  BY <1>1, <1>3, <1>7, <1>8, <1>9, <1>10, <1>11, ByGoto

LEMMA FindSrcStep ==
    ASSUME IInv, NEW c \in Callers, FindSrc(c), UNCHANGED hist
    PROVE  IInv'
<1>1. /\ th[c].pc = "findSrc" /\ Busy(c)
      /\ IF SourceThere THEN Goto(c, "deleteSrc") ELSE Return(c, th[c].verdict)
      /\ UNCHANGED <<file, cppName, executableName, src, bin, prog, hist>>
  BY DEF FindSrc, At, Busy, fields, disk
<1>2. /\ TypeOK /\ DiskTyped /\ Mine(c) \in Files /\ Mine(c) # None /\ th[c] \in Caller
      /\ Sound(c) /\ OnTrack(c) /\ OnlyMine(c)
  BY <1>1, CallFacts, GccAssumption DEF Files
<1>3. DiskTyped' /\ prog' \in [Callers -> Process]
  BY <1>1, <1>2 DEF DiskTyped, TypeOK
<1>4. CASE SourceThere
  <2>1. "deleteSrc" \in Pcs \ {"idle"} /\ Goto(c, "deleteSrc")
    BY <1>1, <1>4 DEF Pcs
  <2>2. th'[c].pc = "deleteSrc" /\ th'[c].call = th[c].call
    BY <1>2, <2>1, GotoEffect
  <2>3. Sound(c)'
    BY <1>1, <1>2, <2>2 DEF Sound, Busy, At, Mine
  <2>4. OnTrack(c)'
    BY <1>1, <1>2, <2>2 DEF OnTrack, Alone, Busy, At, Mine, hist
  <2>5. OnlyMine(c)'
    BY <1>1, <1>2, <2>2 DEF OnlyMine, Busy, At, Mine, NoExe, NoSource, hist
  <2> QED
    BY <1>1, <1>3, <2>1, <2>3, <2>4, <2>5, ByGoto
<1>5. CASE ~SourceThere
  <2>1. Return(c, th[c].verdict) /\ th[c].verdict \in Verdicts
    BY <1>1, <1>2, <1>5 DEF Caller
  <2>2. overlapped # {}
    BY <1>1, <1>2, <1>5 DEF SourceThere, OnTrack, Alone, Missing
  <2> QED
    BY <1>1, <1>3, <2>1, <2>2, ByReturn
<1> QED
  BY <1>4, <1>5

LEMMA DeleteSrcStep ==
    ASSUME IInv, NEW c \in Callers, DeleteSrc(c), UNCHANGED hist
    PROVE  IInv'
<1>1. /\ th[c].pc = "deleteSrc" /\ Busy(c)
      /\ IF SourceThere
         THEN src' = [src EXCEPT ![file] = Missing] /\ Goto(c, "forget")
         ELSE Return(c, th[c].verdict) /\ UNCHANGED src
      /\ UNCHANGED <<file, cppName, executableName, bin, prog, hist>>
  BY DEF DeleteSrc, At, Busy, fields
<1>2. /\ TypeOK /\ DiskTyped /\ Mine(c) \in Files /\ Mine(c) # None /\ th[c] \in Caller
      /\ Sound(c) /\ OnTrack(c) /\ OnlyMine(c)
  BY <1>1, CallFacts, GccAssumption DEF Files
<1>3. prog' \in [Callers -> Process]
  BY <1>1, <1>2 DEF TypeOK
<1>4. CASE SourceThere
  <2>1. /\ src' = [src EXCEPT ![file] = Missing]
        /\ "forget" \in Pcs \ {"idle"} /\ Goto(c, "forget")
    BY <1>1, <1>4 DEF Pcs
  <2>2. th'[c].pc = "forget" /\ th'[c].call = th[c].call
    BY <1>2, <2>1, GotoEffect
  <2>3. Missing \in Source /\ file \in Files
    BY <1>2, <1>4 DEF Missing, Source, SourceThere, DiskTyped
  <2>4. /\ src' \in [Files -> Source] /\ src'[file] = Missing
        /\ \A f \in Files : f # file => src'[f] = src[f]
    BY <1>2, <2>1, <2>3 DEF DiskTyped
  <2>5. DiskTyped'
    BY <1>1, <1>2, <2>4 DEF DiskTyped
  <2>6. Sound(c)'
    BY <1>1, <1>2, <2>2 DEF Sound, Busy, At, Mine
  <2>7. OnTrack(c)'
    BY <1>1, <1>2, <2>2 DEF OnTrack, Alone, Busy, At, Mine, hist
  <2>8. OnlyMine(c)'
    <3>1. overlapped = {} => file = Mine(c)
      BY <1>1, <1>2 DEF OnTrack, Alone
    <3> QED
      BY <1>1, <1>2, <2>2, <2>4, <3>1 DEF OnlyMine, Busy, At, Mine, NoExe, NoSource, hist
  <2> QED
    BY <1>1, <1>3, <2>1, <2>5, <2>6, <2>7, <2>8, ByGoto
<1>5. CASE ~SourceThere
  <2>1. Return(c, th[c].verdict) /\ src' = src /\ th[c].verdict \in Verdicts
    BY <1>1, <1>2, <1>5 DEF Caller
  <2>2. DiskTyped'
    BY <1>1, <1>2, <2>1 DEF DiskTyped
  <2>3. overlapped # {}
    BY <1>1, <1>2, <1>5 DEF SourceThere, OnTrack, Alone, Missing
  <2> QED
    BY <1>1, <2>1, <2>2, <2>3, ByReturn
<1> QED
  BY <1>4, <1>5

LEMMA ForgetSrcStep ==
    ASSUME IInv, NEW c \in Callers, ForgetSrc(c), UNCHANGED hist
    PROVE  IInv'
<1>1. /\ th[c].pc = "forget" /\ Busy(c) /\ file' = None
      /\ Return(c, th[c].verdict)
      /\ UNCHANGED <<cppName, executableName, src, bin, prog, hist>>
  BY DEF ForgetSrc, At, Busy, disk
<1>2. DiskTyped /\ th[c] \in Caller /\ OnlyMine(c)
  BY <1>1, CallFacts
<1>3. th[c].verdict \in Verdicts
  BY <1>2 DEF Caller
<1>4. DiskTyped'
  BY <1>1, <1>2 DEF DiskTyped
<1>5. overlapped = {} => \A f \in Files : NoExe(f)' /\ NoSource(f)'
  BY <1>1, <1>2 DEF OnlyMine, NoExe, NoSource
<1> QED
  BY <1>1, <1>3, <1>4, <1>5, ByReturn

LEMMA ExpireStep ==
    ASSUME IInv, NEW c \in Callers, Expire(c)
    PROVE  IInv'
<1> DEFINE r == [th[c] EXCEPT !.late = TRUE]
<1>1. /\ th[c].pc \in {"loop", "read"} /\ Busy(c)
      /\ th' = [th EXCEPT ![c].late = TRUE]
      /\ UNCHANGED <<file, cppName, executableName, src, bin, prog, hist>>
  BY DEF Expire, At, Busy, fields, disk
<1>2. /\ TypeOK /\ DiskTyped /\ Mine(c) \in Files /\ th[c] \in Caller
      /\ Sound(c) /\ OnTrack(c) /\ OwnOutput(c) /\ OnlyMine(c)
  BY <1>1, CallFacts
<1>3. th' = [th EXCEPT ![c] = r]
  BY <1>1
<1>4. /\ r \in Caller /\ r.pc = th[c].pc /\ r.call = th[c].call /\ r.from = th[c].from
  BY <1>2 DEF Caller
<1> HIDE DEF r
<1>5. IsUpdate(th', th, c, r)
  BY <1>2, <1>3, <1>4, UpdateEffect DEF TypeOK
<1>6. /\ th' \in [Callers -> Caller]
      /\ \A d \in Callers : d # c => th'[d] = th[d] /\ prog'[d] = prog[d]
      /\ th'[c].pc = th[c].pc /\ th'[c].call = th[c].call /\ th'[c].from = th[c].from
  BY <1>1, <1>4, <1>5 DEF IsUpdate
<1>7. DiskTyped' /\ prog' \in [Callers -> Process]
  BY <1>1, <1>2 DEF DiskTyped, TypeOK
<1>8. Sound(c)' /\ Busy(c)'
  BY <1>1, <1>2, <1>6 DEF Sound, Busy, At, Mine
<1>9. OnTrack(c)'
  BY <1>1, <1>2, <1>6 DEF OnTrack, Alone, Busy, At, Mine, hist
<1>10. OwnOutput(c)' /\ OnlyMine(c)'
  BY <1>1, <1>2, <1>6 DEF OwnOutput, OnlyMine, Busy, At, Mine, NoExe, NoSource, hist
<1> QED
  BY <1>1, <1>6, <1>7, <1>8, <1>9, <1>10, ByStep DEF CallInv

-----------------------------------------------------------------------------
(* The beginning of a call.                                                *)

LEMMA CallStep ==
    ASSUME IInv, NEW c \in Callers, Call(c)
    PROVE  IInv'
<1> DEFINE busy == {d \in Callers : Busy(d)}
           more == {calls + 1} \cup {Mine(d) : d \in busy}
<1>1. /\ ~Busy(c) /\ calls < MaxCalls /\ calls' = calls + 1
      /\ overlapped' = overlapped \cup (IF busy = {} THEN {} ELSE more)
      /\ UNCHANGED <<file, cppName, executableName, src, bin, prog>>
  BY DEF Call, Busy, fields, disk
<1>2. TypeOK /\ AloneIsOnly /\ NoLeftovers /\ (\A d \in Callers : CallInv(d))
  BY DEF IInv
<1>3. PICK ok \in BOOLEAN : th' = [th EXCEPT ![c] = Begun(th[c], ok)]
  BY DEF Call
<1> DEFINE r == Begun(th[c], ok)
<1>4. calls' \in 0 .. MaxCalls /\ calls + 1 \in Files /\ calls + 1 # None
  BY <1>1, <1>2, GccAssumption DEF TypeOK, Files
<1>5. r \in Caller /\ r.pc = "create" /\ r.call = calls + 1 /\ r.from = {}
  <2> DEFINE p == [NoCall EXCEPT !.pc = "create"]
             q == [p EXCEPT !.call = calls + 1]
             t == [q EXCEPT !.ok = ok]
  <2>1. p \in Caller /\ p.pc = "create" /\ p.from = {}
    BY DEF NoCall, Caller, Pcs, Verdicts, Files
  <2> HIDE DEF p
  <2>2. q \in Caller /\ q.pc = "create" /\ q.call = calls + 1 /\ q.from = {}
    BY <1>4, <2>1 DEF Caller
  <2> HIDE DEF q
  <2>3. t \in Caller /\ t.pc = "create" /\ t.call = calls + 1 /\ t.from = {}
    BY <2>2 DEF Caller
  <2> QED
    BY <2>3 DEF Begun, q, p
<1> HIDE DEF r
<1>6. IsUpdate(th', th, c, r)
  BY <1>2, <1>3, <1>5, UpdateEffect DEF TypeOK, r
<1>7. /\ th' \in [Callers -> Caller]
      /\ \A d \in Callers : d # c => th'[d] = th[d]
      /\ th'[c].pc = "create" /\ th'[c].call = calls + 1 /\ th'[c].from = {}
  BY <1>5, <1>6 DEF IsUpdate
<1>8. \A d \in busy : Mine(d) \in Files
  BY CallFacts
<1>9. more \subseteq Files
  BY <1>4, <1>8
<1>10. /\ overlapped \subseteq overlapped' /\ overlapped' \subseteq Files
       /\ busy # {} => /\ calls + 1 \in overlapped'
                       /\ \A d \in busy : Mine(d) \in overlapped'
  BY <1>1, <1>2, <1>9 DEF TypeOK
<1> HIDE DEF more
<1>11. TypeOK'
  BY <1>1, <1>2, <1>4, <1>7, <1>10 DEF TypeOK
<1>12. /\ \A d \in Callers : d # c => (Busy(d)' <=> Busy(d))
       /\ Busy(c)'
       /\ \A d \in Callers : d # c => ~Alone(d)'
       /\ Alone(c)' => busy = {}
  BY <1>7, <1>10 DEF Busy, Alone, At, Mine
<1>13. AloneIsOnly'
  BY <1>12 DEF AloneIsOnly
<1>14. NoLeftovers'
  BY <1>12 DEF NoLeftovers, Busy
<1>15. CallInv(c)'
  <2>1. CallInv(c)
    BY <1>2
  <2>2. Sound(c)'
    BY <1>1, <1>4, <1>7, <2>1 DEF CallInv, Sound, Busy, At, Mine
  <2>3. OnTrack(c)'
    BY <1>7 DEF OnTrack
  <2>4. OwnOutput(c)'
    BY <1>7 DEF OwnOutput
  <2>5. OnlyMine(c)'
    <3>1. overlapped' = {} => \A f \in Files : NoExe(f) /\ NoSource(f)
      BY <1>2, <1>10 DEF NoLeftovers, NoExe, NoSource, Busy
    <3> QED
      BY <1>1, <3>1 DEF OnlyMine, NoExe, NoSource
  <2> QED
    BY <2>2, <2>3, <2>4, <2>5 DEF CallInv
<1>16. ASSUME NEW d \in Callers, d # c
       PROVE  CallInv(d)'
  <2>1. CallInv(d)
    BY <1>2
  <2>2. Sound(d)'
    BY <1>1, <1>7, <1>16, <2>1 DEF CallInv, Sound, Busy, At, Mine
  <2>3. OnTrack(d)'
    BY <1>12, <1>16 DEF OnTrack
  <2>4. OwnOutput(d)'
    BY <1>7, <1>10, <1>16, <2>1 DEF CallInv, OwnOutput, Mine
  <2>5. OnlyMine(d)'
    BY <1>10, <1>12, <1>16 DEF OnlyMine
  <2> QED
    BY <2>2, <2>3, <2>4, <2>5 DEF CallInv
<1> QED
  BY <1>11, <1>13, <1>14, <1>15, <1>16 DEF IInv

-----------------------------------------------------------------------------
(* The steps of a program: they leave everything else alone.               *)

LEMMA ProgramStep ==
    ASSUME IInv, NEW c \in Callers, NEW r \in Process,
           UNCHANGED <<fields, disk, th, hist>>,
           prog' = [prog EXCEPT ![c] = r],
           r.state # "none", r.by = prog[c].by,
           r.unread + (IF r.part THEN 1 ELSE 0) <= r.printed
    PROVE  IInv'
<1>1. UNCHANGED <<file, cppName, executableName, src, bin, th, calls, overlapped>>
  BY DEF fields, disk, hist
<1>2. /\ prog' \in [Callers -> Process] /\ prog'[c] = r
      /\ \A d \in Callers : d # c => prog'[d] = prog[d]
  BY DEF IInv, TypeOK
<1>3. TypeOK' /\ AloneIsOnly' /\ NoLeftovers'
  BY <1>1, <1>2 DEF IInv, TypeOK, AloneIsOnly, NoLeftovers, Alone, Busy, At, Mine
<1>4. ASSUME NEW d \in Callers PROVE CallInv(d)'
  <2>1. CallInv(d)
    BY DEF IInv
  <2>2. Sound(d)'
    BY <1>1, <1>2, <2>1 DEF CallInv, Sound, Busy, At, Mine
  <2>3. OnTrack(d)'
    BY <1>1, <1>2, <2>1 DEF CallInv, OnTrack, Alone, Busy, At, Mine
  <2>4. OwnOutput(d)' /\ OnlyMine(d)'
    BY <1>1, <2>1 DEF CallInv, OwnOutput, OnlyMine, Busy, At, Mine, NoExe, NoSource
  <2> QED
    BY <2>2, <2>3, <2>4 DEF CallInv
<1> QED
  BY <1>3, <1>4 DEF IInv

LEMMA LineStep ==
    ASSUME IInv, NEW c \in Callers, BeginLine(c) \/ EndLine(c)
    PROVE  IInv'
<1>1. /\ prog[c].state = "running" /\ UNCHANGED <<fields, disk, th, hist>>
      /\ prog \in [Callers -> Process] /\ prog[c] \in Process /\ Sound(c)
  BY DEF BeginLine, EndLine, Program, IInv, TypeOK, CallInv
<1>2. CASE BeginLine(c)
  <2> DEFINE q == [prog[c] EXCEPT !.part = TRUE]
             r == [q EXCEPT !.printed = prog[c].printed + 1]
  <2>1. prog' = [prog EXCEPT ![c] = r]
    BY <1>1, <1>2 DEF BeginLine
  <2>2. prog[c].printed + 1 \in 0 .. MaxLines
    BY <1>1, <1>2, GccAssumption DEF BeginLine, Process
  <2>3. /\ q \in Process /\ q.state = "running" /\ q.by = prog[c].by
        /\ q.unread = prog[c].unread /\ q.part
    BY <1>1 DEF Process
  <2> HIDE DEF q
  <2>4. /\ r \in Process /\ r.state = "running" /\ r.by = prog[c].by
        /\ r.unread = prog[c].unread /\ r.part /\ r.printed = prog[c].printed + 1
    BY <2>2, <2>3 DEF Process
  <2> HIDE DEF r
  <2>5. r.unread + (IF r.part THEN 1 ELSE 0) <= r.printed
    BY <1>1, <1>2, <2>4 DEF BeginLine, Sound, Process
  <2> QED
    BY <1>1, <2>1, <2>4, <2>5, ProgramStep
<1>3. CASE EndLine(c)
  <2> DEFINE q == [prog[c] EXCEPT !.part = FALSE]
             r == [q EXCEPT !.unread = prog[c].unread + 1]
  <2>1. prog' = [prog EXCEPT ![c] = r]
    BY <1>1, <1>3 DEF EndLine
  <2>2. prog[c].unread + 1 <= prog[c].printed
    BY <1>1, <1>3 DEF EndLine, Sound
  <2>3. prog[c].unread + 1 \in 0 .. MaxLines
    BY <1>1, <2>2, GccAssumption DEF Process
  <2>4. /\ q \in Process /\ q.state = "running" /\ q.by = prog[c].by
        /\ q.printed = prog[c].printed /\ ~q.part
    BY <1>1 DEF Process
  <2> HIDE DEF q
  <2>5. /\ r \in Process /\ r.state = "running" /\ r.by = prog[c].by
        /\ r.unread = prog[c].unread + 1 /\ ~r.part /\ r.printed = prog[c].printed
    BY <2>3, <2>4 DEF Process
  <2> HIDE DEF r
  <2>6. r.unread + (IF r.part THEN 1 ELSE 0) <= r.printed
    BY <1>1, <2>2, <2>5 DEF Process
  <2> QED
    BY <1>1, <2>1, <2>5, <2>6, ProgramStep
<1> QED
  BY <1>2, <1>3

LEMMA EndStep ==
    ASSUME IInv, NEW c \in Callers, End(c)
    PROVE  IInv'
<1>1. /\ UNCHANGED <<fields, disk, th, hist>>
      /\ prog[c] \in Process /\ Sound(c)
  BY DEF End, Program, IInv, TypeOK, CallInv
<1>2. PICK s \in {"exited", "failed"} : prog' = [prog EXCEPT ![c].state = s]
  BY DEF End
<1> DEFINE r == [prog[c] EXCEPT !.state = s]
<1>3. prog' = [prog EXCEPT ![c] = r]
  BY <1>2
<1>4. /\ r \in Process /\ r.state # "none" /\ r.by = prog[c].by
      /\ r.unread = prog[c].unread /\ r.part = prog[c].part /\ r.printed = prog[c].printed
  BY <1>1, <1>2 DEF Process
<1> HIDE DEF r
<1> QED
  BY <1>1, <1>3, <1>4, ProgramStep DEF Sound

-----------------------------------------------------------------------------

LEMMA NextIInv == IInv /\ [Next]_vars => IInv'
<1> SUFFICES ASSUME IInv, [Next]_vars PROVE IInv'
  OBVIOUS
<1>1. ASSUME NEW c \in Callers, Step(c) PROVE IInv'
  <2>1. UNCHANGED hist
    BY <1>1 DEF Step
  <2>2. CASE Create(c) \/ Write(c)
    BY <2>1, <2>2, CreateStep, WriteStep
  <2>3. CASE NameSource(c) \/ NameExecutable(c)
    BY <2>1, <2>3, NameStep
  <2>4. CASE CheckFile(c) \/ NullPointer(c)
    BY <2>1, <2>4, CheckFileStep, NullPointerStep
  <2>5. CASE Spawn(c) \/ Gxx(c)
    BY <2>1, <2>5, SpawnStep, GxxStep
  <2>6. CASE Launch(c) \/ Loop(c)
    BY <2>1, <2>6, LaunchStep, LoopStep
  <2>7. CASE Read(c) \/ Judge(c)
    BY <2>1, <2>7, ReadStep, JudgeStep
  <2>8. CASE DeleteExe(c) \/ FindSrc(c)
    BY <2>1, <2>8, DeleteExeStep, FindSrcStep
  <2>9. CASE DeleteSrc(c) \/ ForgetSrc(c)
    BY <2>1, <2>9, DeleteSrcStep, ForgetSrcStep
  <2> QED
    BY <1>1, <2>2, <2>3, <2>4, <2>5, <2>6, <2>7, <2>8, <2>9 DEF Step
<1>2. CASE Next
  BY <1>1, <1>2, CallStep, ExpireStep, LineStep, EndStep DEF Next
<1>3. CASE UNCHANGED vars
  <2>1. UNCHANGED <<file, cppName, executableName, src, bin, th, prog, calls, overlapped>>
    BY <1>3 DEF vars, fields, disk, hist
  <2>2. TypeOK' /\ AloneIsOnly' /\ NoLeftovers'
    BY <2>1 DEF IInv, TypeOK, AloneIsOnly, NoLeftovers, Alone, Busy, At, Mine
  <2>3. ASSUME NEW c \in Callers PROVE CallInv(c)'
    BY <2>1 DEF IInv, CallInv, Sound, OnTrack, OwnOutput, OnlyMine, Alone, Busy, At, Mine,
                NoExe, NoSource
  <2> QED
    BY <2>2, <2>3 DEF IInv
<1> QED
  BY <1>2, <1>3

-----------------------------------------------------------------------------

(* The inductive invariant holds in every state, for any number of threads  *)
(* that execute one task (GCC.java:112-181).                                *)
THEOREM CallsInvariant == Spec => []IInv
<1>1. Init => IInv
  BY InitIInv
<1>2. IInv /\ [Next]_vars => IInv'
  BY NextIInv
<1> QED
  BY <1>1, <1>2, PTL DEF Spec

(* Every variable always has its type: among the rest, no more lines are    *)
(* taken from a program than it printed, and a call knows its file.         *)
THEOREM CallTypes == Spec => []TypeOK
<1>1. IInv => TypeOK
  BY DEF IInv
<1> QED
  BY <1>1, CallsInvariant, PTL

(* A call that overlaps no other returns lines of its own program only,     *)
(* whatever the calls before it left in the fields of the GCC object and on *)
(* disk (GCC.java:107-111).                                                 *)
THEOREM OwnOutputAlways == Spec => []OwnOutputAlone
<1>1. IInv => OwnOutputAlone
  BY DEF IInv, CallInv, OwnOutput, OwnOutputAlone
<1> QED
  BY <1>1, CallsInvariant, PTL

(* As long as calls follow one another, the disk is clean between them but  *)
(* for the sources that g++ rejected (GCC.java:114, 158-169).               *)
THEOREM CleanBetweenCalls == Spec => []NoLeftovers
<1>1. IInv => NoLeftovers
  BY DEF IInv
<1> QED
  BY <1>1, CallsInvariant, PTL

=============================================================================
