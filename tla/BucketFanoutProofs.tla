------------------------ MODULE BucketFanoutProofs ------------------------
(***************************************************************************)
(* Proofs about BucketFanout, for every number of files and slots and      *)
(* every schedule of the goroutines.                                       *)
(***************************************************************************)
EXTENDS BucketFanout, FiniteSetTheorems, TLAPS

\* The workers that the WaitGroup, the semaphore and errChan count.
Running == {f \in Files : worker[f] \notin {"none", "ended"}}
Holding == {f \in Files : worker[f] \in {"update", "test", "send", "fatal", "release"}}
Failed == {f \in Files : worker[f] = "fatal"}

CountInv == /\ wg = Cardinality(Running) + (IF main \in {"acquire", "spawn"} THEN 1 ELSE 0)
            /\ sem = Cardinality(Holding) + (IF main = "spawn" THEN 1 ELSE 0)
            /\ errors <= Cardinality(Failed)

\* Worker and closer are started together, file by file.
LoopInv ==
  \A f \in Files : /\ worker[f] = "none" <=> closer[f] = "none"
                   /\ f > file => worker[f] = "none"
                   /\ (f = file /\ main \in {"add", "acquire", "spawn"}) => worker[f] = "none"

\* Where the workers and their results are when their closers have gone on.
EndedInv ==
  \A f \in Files :
    /\ closer[f] \in {"woken", "close", "ended"} => worker[f] = "ended"
    /\ worker[f] \in {"test", "send", "fatal", "release", "wg_done", "ended"} => result[f] # "none"

\* The first file's worker has err for itself, and its closer the channel.
FirstInv ==
  /\ file = 1 => /\ worker[1] \in {"release", "wg_done", "ended"} => result[1] = "nil"
                 /\ worker[1] = "test" => err = result[1]
                 /\ closed => closer[1] = "ended"
  /\ file > 1 => worker[1] = "ended" /\ result[1] = "nil" /\ closer[1] = "ended"

Inv == /\ TypeOK
       /\ CountInv
       /\ LoopInv
       /\ EndedInv
       /\ FirstInv
       /\ PanicNeedsTwoUpdates

USE NFilesAssumption, MaxConcUpdatesAssumption
-----------------------------------------------------------------------------
(***************************************************************************)
(* Counting.                                                               *)
(***************************************************************************)

LEMMA FilesFinite == IsFiniteSet(Files) /\ Cardinality(Files) = NFiles
BY FS_Interval DEF Files

LEMMA Counts ==
  ASSUME NEW S \in SUBSET Files
  PROVE  /\ IsFiniteSet(S)
         /\ Cardinality(S) \in 0..NFiles
         /\ S # Files => Cardinality(S) < NFiles
         /\ Cardinality(S) = 0 <=> S = {}
<1>1. IsFiniteSet(S) /\ Cardinality(S) <= NFiles /\ (Cardinality(S) = NFiles => S = Files)
  BY FilesFinite, FS_Subset
<1>2. Cardinality(S) \in Nat
  BY <1>1, FS_CardinalityType
<1> QED
  BY <1>1, <1>2, FS_EmptySet

LEMMA CountUp ==
  ASSUME NEW S \in SUBSET Files, NEW f \in Files, f \notin S
  PROVE  Cardinality(S \cup {f}) = Cardinality(S) + 1
BY Counts, FS_AddElement

LEMMA CountDown ==
  ASSUME NEW S \in SUBSET Files, NEW f \in S
  PROVE  Cardinality(S \ {f}) = Cardinality(S) - 1
BY Counts, FS_RemoveElement

LEMMA TwoOf ==
  ASSUME NEW S \in SUBSET Files, NEW f \in S, NEW g \in S, f # g
  PROVE  Cardinality(S) > 1
<1>1. Cardinality(S \ {f}) = Cardinality(S) - 1
  BY CountDown
<1>2. S \ {f} # {}
  OBVIOUS
<1>3. Cardinality(S \ {f}) \in Nat /\ Cardinality(S \ {f}) # 0
  BY <1>2, Counts
<1>4. Cardinality(S) \in Nat
  BY Counts
<1> QED
  BY <1>1, <1>3, <1>4

LEMMA Subsets ==
  /\ Running \in SUBSET Files
  /\ Holding \in SUBSET Files
  /\ Failed \in SUBSET Files
BY DEF Running, Holding, Failed

LEMMA Numbers ==
  /\ Cardinality(Running) \in Nat
  /\ Cardinality(Holding) \in Nat
  /\ Cardinality(Failed) \in 0..NFiles
  /\ \A f \in Files : f \notin Running => Cardinality(Running) < NFiles
  /\ \A f \in Running : Cardinality(Running) > 0
  /\ \A f \in Holding : Cardinality(Holding) > 0
  /\ Cardinality(Running) = 0 <=> Running = {}
BY Subsets, Counts

LEMMA FirstFile == 1 \in Files
BY DEF Files

LEMMA InitInv == Init => Inv
<1> SUFFICES ASSUME Init PROVE Inv
  OBVIOUS
<1>1. /\ Running = {}
      /\ Holding = {}
      /\ Failed = {}
  BY DEF Init, Running, Holding, Failed
<1>2. CountInv
  BY <1>1, FS_EmptySet DEF Init, CountInv
<1>3. TypeOK
  <2>1. /\ worker \in [Files -> {"none", "update", "test", "send", "fatal", "release", "wg_done", "ended"}]
        /\ closer \in [Files -> {"none", "wait", "waiting", "woken", "close", "ended"}]
        /\ result \in [Files -> {"none", "nil", "error"}]
    BY DEF Init
  <2>2. wg \in 0..NFiles /\ sem \in 0..MaxConcUpdates /\ errors \in 0..NFiles
    BY DEF Init
  <2>3. file \in Files /\ closed \in BOOLEAN
    BY FirstFile DEF Init
  <2>4. /\ main \in {"add", "acquire", "spawn", "range", "done"}
        /\ err \in {"nil", "error"}
        /\ process \in {"runs", "fatal", "panic"}
    BY DEF Init
  <2> QED
    BY <2>1, <2>2, <2>3, <2>4 DEF TypeOK
<1>4. LoopInv /\ EndedInv /\ FirstInv /\ PanicNeedsTwoUpdates
  BY FirstFile DEF Init, LoopInv, EndedInv, FirstInv, PanicNeedsTwoUpdates
<1> QED
  BY <1>2, <1>3, <1>4 DEF Inv
-----------------------------------------------------------------------------
(***************************************************************************)
(* The main goroutine.                                                     *)
(***************************************************************************)

\* A step that leaves workers and results alone leaves what is counted.
LEMMA SameCounts ==
  ASSUME UNCHANGED worker
  PROVE  Running' = Running /\ Holding' = Holding /\ Failed' = Failed
BY DEF Running, Holding, Failed

LEMMA AddInv == ASSUME Inv, Add PROVE Inv'
<1>1. UNCHANGED <<Running, Holding, Failed>>
  BY SameCounts DEF Add
<1>2. file \notin Running
  BY DEF Add, Inv, LoopInv, TypeOK, Running
<1>3. CountInv'
  BY <1>1, Numbers DEF Add, Inv, CountInv
<1>4. wg' \in 0..NFiles
  BY <1>2, Numbers DEF Add, Inv, CountInv, TypeOK
<1>5. TypeOK'
  BY <1>4 DEF Add, Inv, TypeOK
<1>6. LoopInv' /\ EndedInv' /\ FirstInv' /\ PanicNeedsTwoUpdates'
  BY DEF Add, Inv, LoopInv, EndedInv, FirstInv, PanicNeedsTwoUpdates
<1> QED
  BY <1>3, <1>5, <1>6 DEF Inv

LEMMA AcquireInv == ASSUME Inv, Acquire PROVE Inv'
<1>1. UNCHANGED <<Running, Holding, Failed>>
  BY SameCounts DEF Acquire
<1>2. CountInv'
  BY <1>1, Numbers DEF Acquire, Inv, CountInv
<1>3. TypeOK'
  BY DEF Acquire, Inv, TypeOK
<1>4. LoopInv' /\ EndedInv' /\ FirstInv' /\ PanicNeedsTwoUpdates'
  BY DEF Acquire, Inv, LoopInv, EndedInv, FirstInv, PanicNeedsTwoUpdates
<1> QED
  BY <1>2, <1>3, <1>4 DEF Inv

LEMMA SpawnInv == ASSUME Inv, Spawn PROVE Inv'
<1>1. file \in Files /\ worker[file] = "none"
  BY DEF Spawn, Inv, LoopInv, TypeOK
<1>2. /\ Running' = Running \cup {file}
      /\ Holding' = Holding \cup {file}
      /\ Failed' = Failed
  BY <1>1 DEF Spawn, Inv, TypeOK, Running, Holding, Failed
<1>3. file \notin Running /\ file \notin Holding
  BY <1>1 DEF Running, Holding
<1>4. /\ Cardinality(Running') = Cardinality(Running) + 1
      /\ Cardinality(Holding') = Cardinality(Holding) + 1
  BY <1>1, <1>2, <1>3, CountUp, Subsets
<1>5. CountInv'
  BY <1>2, <1>4, Numbers DEF Spawn, channels, Inv, CountInv
<1>6. TypeOK'
  BY <1>1 DEF Spawn, channels, Inv, TypeOK
<1>7. LoopInv' /\ EndedInv' /\ PanicNeedsTwoUpdates'
  BY <1>1 DEF Spawn, channels, Inv, TypeOK, Files, LoopInv, EndedInv, PanicNeedsTwoUpdates
<1>8. FirstInv'
  BY <1>1, FirstFile DEF Spawn, channels, Inv, TypeOK, LoopInv, FirstInv
<1> QED
  BY <1>5, <1>6, <1>7, <1>8 DEF Inv

LEMMA RangeReceivesInv == ASSUME Inv, RangeReceives PROVE Inv'
<1>1. UNCHANGED <<Running, Holding, Failed>>
  BY SameCounts DEF RangeReceives, goroutines
<1>2. CountInv'
  BY <1>1, Numbers DEF RangeReceives, goroutines, Inv, CountInv, TypeOK
<1>3. TypeOK'
  BY DEF RangeReceives, goroutines, Inv, TypeOK
<1>4. LoopInv' /\ EndedInv' /\ FirstInv' /\ PanicNeedsTwoUpdates'
  BY DEF RangeReceives, goroutines, Inv, LoopInv, EndedInv, FirstInv, PanicNeedsTwoUpdates
<1> QED
  BY <1>2, <1>3, <1>4 DEF Inv

\* The loop goes on to the second file when the first's closer has closed the channel,
\* which it does when the first's worker has ended.
LEMMA RangeEndsInv == ASSUME Inv, RangeEnds PROVE Inv'
<1>1. UNCHANGED <<Running, Holding, Failed>>
  BY SameCounts DEF RangeEnds
<1>2. CountInv'
  BY <1>1, Numbers DEF RangeEnds, channels, Inv, CountInv
<1>3. TypeOK'
  BY DEF RangeEnds, channels, Inv, TypeOK, Files
<1>4. LoopInv'
  BY DEF RangeEnds, channels, Inv, TypeOK, Files, LoopInv
<1>5. worker[1] = "ended" /\ result[1] = "nil" /\ closer[1] = "ended"
  BY FirstFile DEF RangeEnds, Inv, TypeOK, Files, FirstInv, EndedInv
<1>6. FirstInv'
  BY <1>5, FirstFile DEF RangeEnds, channels, Inv, FirstInv
<1>7. EndedInv' /\ PanicNeedsTwoUpdates'
  BY DEF RangeEnds, channels, Inv, EndedInv, PanicNeedsTwoUpdates
<1> QED
  BY <1>2, <1>3, <1>4, <1>6, <1>7 DEF Inv
-----------------------------------------------------------------------------
(***************************************************************************)
(* Workers.                                                                *)
(***************************************************************************)

LEMMA UpdateInv == ASSUME Inv, NEW f \in Files, Update(f) PROVE Inv'
<1>1. PICK r \in {"nil", "error"} : result' = [result EXCEPT ![f] = r] /\ err' = r
  BY DEF Update
<1>2. UNCHANGED <<Running, Holding, Failed>>
  BY DEF Update, Inv, TypeOK, Running, Holding, Failed
<1>3. CountInv'
  BY <1>2 DEF Update, channels, Inv, CountInv
<1>4. TypeOK'
  BY <1>1 DEF Update, channels, Inv, TypeOK
<1>5. LoopInv' /\ EndedInv'
  BY <1>1 DEF Update, channels, Inv, TypeOK, LoopInv, EndedInv
<1>6. FirstInv'
  <2>1. CASE f = 1
    BY <1>1, <2>1, FirstFile DEF Update, channels, Inv, TypeOK, Files, FirstInv
  <2>2. CASE f # 1
    <3>1. file > 1
      BY <2>2 DEF Update, Inv, TypeOK, Files, LoopInv
    <3> QED
      BY <1>1, <2>2, <3>1, FirstFile DEF Update, channels, Inv, TypeOK, Files, FirstInv
  <2> QED
    BY <2>1, <2>2
<1>7. PanicNeedsTwoUpdates'
  <2> SUFFICES ASSUME process = "panic"
               PROVE  Cardinality({h \in Files : result'[h] # "none"}) > 1
    BY DEF Update, PanicNeedsTwoUpdates
  <2> DEFINE S == {h \in Files : result[h] # "none"}
             T == {h \in Files : result'[h] # "none"}
  <2>1. Cardinality(S) > 1
    BY DEF Inv, PanicNeedsTwoUpdates
  <2>2. S \subseteq T
    BY <1>1 DEF Inv, TypeOK
  <2>3. Cardinality(S) <= Cardinality(T)
    BY <2>2, Counts, FS_Subset
  <2>4. Cardinality(S) \in Nat /\ Cardinality(T) \in Nat
    BY Counts
  <2> QED
    BY <2>1, <2>3, <2>4
<1> QED
  BY <1>3, <1>4, <1>5, <1>6, <1>7 DEF Inv

LEMMA TestInv == ASSUME Inv, NEW f \in Files, Test(f) PROVE Inv'
<1>1. UNCHANGED <<Running, Holding, Failed>>
  BY DEF Test, Inv, TypeOK, Running, Holding, Failed
<1>2. CountInv'
  BY <1>1 DEF Test, channels, Inv, CountInv
<1>3. TypeOK'
  BY DEF Test, channels, Inv, TypeOK
<1>4. LoopInv' /\ EndedInv' /\ PanicNeedsTwoUpdates'
  BY DEF Test, channels, Inv, TypeOK, LoopInv, EndedInv, PanicNeedsTwoUpdates
<1>5. FirstInv'
  BY FirstFile DEF Test, channels, Inv, TypeOK, Files, FirstInv
<1> QED
  BY <1>2, <1>3, <1>4, <1>5 DEF Inv

\* A panic is the end of a second update, because the first is over when the channel
\* is closed.
LEMMA PanicInv ==
  ASSUME Inv, Panic, NEW f \in Files, f # 1, result[f] # "none", file > 1
  PROVE  Inv'
<1>1. result[1] # "none"
  BY FirstFile DEF Inv, FirstInv
<1>2. Cardinality({h \in Files : result[h] # "none"}) > 1
  BY <1>1, TwoOf, FirstFile
<1>3. PanicNeedsTwoUpdates'
  BY <1>2 DEF Panic, PanicNeedsTwoUpdates
<1>4. UNCHANGED <<Running, Holding, Failed>>
  BY SameCounts DEF Panic, goroutines
<1>5. CountInv'
  BY <1>4 DEF Panic, goroutines, channels, Inv, CountInv
<1>6. TypeOK' /\ LoopInv' /\ EndedInv' /\ FirstInv'
  BY DEF Panic, goroutines, channels, Inv, TypeOK, LoopInv, EndedInv, FirstInv
<1> QED
  BY <1>3, <1>5, <1>6 DEF Inv

LEMMA SendInv == ASSUME Inv, NEW f \in Files, Send(f) PROVE Inv'
<1>1. CASE closed /\ Panic
  <2>1. result[f] # "none" /\ worker[f] = "send"
    BY DEF Send, Inv, EndedInv
  <2>2. f # 1 /\ file > 1
    BY <1>1, <2>1, FirstFile DEF Inv, TypeOK, Files, LoopInv, FirstInv, EndedInv
  <2> QED
    BY <1>1, <2>1, <2>2, PanicInv
<1>2. CASE ~(closed /\ Panic)
  <2>0. /\ ~closed
        /\ worker[f] = "send"
        /\ errors' = errors + 1
        /\ worker' = [worker EXCEPT ![f] = "fatal"]
        /\ UNCHANGED <<main, file, closer, wg, sem, closed, err, result, process>>
    BY <1>2 DEF Send
  <2>1. /\ Running' = Running
        /\ Holding' = Holding
        /\ Failed' = Failed \cup {f}
    BY <2>0 DEF Inv, TypeOK, Running, Holding, Failed
  <2>2. Cardinality(Failed') = Cardinality(Failed) + 1
    BY <2>0, <2>1, CountUp, Subsets DEF Failed
  <2>3. CountInv'
    BY <2>0, <2>1, <2>2, Numbers DEF Inv, CountInv, TypeOK
  <2>4. Cardinality(Failed') \in 0..NFiles
    BY <2>1, Subsets, Counts
  <2>5. TypeOK'
    BY <2>0, <2>3, <2>4 DEF Inv, CountInv, TypeOK
  <2>6. LoopInv' /\ EndedInv' /\ PanicNeedsTwoUpdates'
    BY <2>0 DEF Inv, TypeOK, LoopInv, EndedInv, PanicNeedsTwoUpdates
  <2>7. FirstInv'
    BY <2>0, FirstFile DEF Inv, TypeOK, FirstInv
  <2> QED
    BY <2>3, <2>5, <2>6, <2>7 DEF Inv
<1> QED
  BY <1>1, <1>2

LEMMA FatalInv == ASSUME Inv, NEW f \in Files, Fatal(f) PROVE Inv'
<1>1. UNCHANGED <<Running, Holding, Failed>>
  BY SameCounts DEF Fatal, goroutines
<1>2. CountInv'
  BY <1>1 DEF Fatal, goroutines, channels, Inv, CountInv
<1>3. TypeOK' /\ LoopInv' /\ EndedInv' /\ FirstInv' /\ PanicNeedsTwoUpdates'
  BY DEF Fatal, goroutines, channels, Inv, TypeOK, LoopInv, EndedInv, FirstInv,
         PanicNeedsTwoUpdates
<1> QED
  BY <1>2, <1>3 DEF Inv

LEMMA ReleaseInv == ASSUME Inv, NEW f \in Files, Release(f) PROVE Inv'
<1>1. /\ Running' = Running
      /\ Holding' = Holding \ {f}
      /\ Failed' = Failed
  BY DEF Release, Inv, TypeOK, Running, Holding, Failed
<1>2. f \in Holding
  BY DEF Release, Holding
<1>3. Cardinality(Holding') = Cardinality(Holding) - 1 /\ Cardinality(Holding) > 0
  BY <1>1, <1>2, CountDown, Subsets, Numbers
<1>4. CountInv'
  BY <1>1, <1>3, Numbers DEF Release, Inv, CountInv
<1>5. sem' \in 0..MaxConcUpdates
  BY <1>3, Numbers DEF Release, Inv, CountInv, TypeOK
<1>6. TypeOK'
  BY <1>5 DEF Release, Inv, TypeOK
<1>7. LoopInv' /\ EndedInv' /\ PanicNeedsTwoUpdates'
  BY DEF Release, Inv, TypeOK, LoopInv, EndedInv, PanicNeedsTwoUpdates
<1>8. FirstInv'
  BY FirstFile DEF Release, Inv, TypeOK, Files, FirstInv
<1> QED
  BY <1>4, <1>6, <1>7, <1>8 DEF Inv

\* The Done that wakes the closers is that of the last worker.
LEMMA DoneInv == ASSUME Inv, NEW f \in Files, Done(f) PROVE Inv'
<1>1. /\ Running' = Running \ {f}
      /\ Holding' = Holding
      /\ Failed' = Failed
  BY DEF Done, Inv, TypeOK, Running, Holding, Failed
<1>2. f \in Running
  BY DEF Done, Running
<1>3. Cardinality(Running') = Cardinality(Running) - 1 /\ Cardinality(Running) > 0
  BY <1>1, <1>2, CountDown, Subsets, Numbers
<1>4. CountInv'
  BY <1>1, <1>3, Numbers DEF Done, Inv, CountInv
<1>5. wg' \in 0..NFiles
  BY <1>3, Numbers DEF Done, Inv, CountInv, TypeOK
<1>6. TypeOK'
  BY <1>5 DEF Done, Inv, TypeOK
<1>7. LoopInv' /\ PanicNeedsTwoUpdates'
  BY DEF Done, Inv, TypeOK, LoopInv, PanicNeedsTwoUpdates
<1>8. EndedInv'
  <2> SUFFICES ASSUME NEW g \in Files
               PROVE  /\ closer'[g] \in {"woken", "close", "ended"} => worker'[g] = "ended"
                      /\ worker'[g] \in {"test", "send", "fatal", "release", "wg_done", "ended"}
                           => result'[g] # "none"
    BY DEF EndedInv
  <2>1. CASE wg = 1
    <3>1. Running' = {}
      BY <1>1, <1>3, <2>1, Numbers, Counts, Subsets DEF Inv, CountInv
    <3>2. worker'[g] \in {"none", "ended"}
      BY <3>1 DEF Running
    <3>3. closer[g] # "none" => worker[g] # "none"
      BY DEF Inv, LoopInv
    <3> QED
      BY <3>2, <3>3 DEF Done, Inv, TypeOK, EndedInv
  <2>2. CASE wg # 1
    BY <2>2 DEF Done, Inv, TypeOK, EndedInv
  <2> QED
    BY <2>1, <2>2
<1>9. FirstInv'
  BY FirstFile DEF Done, Inv, TypeOK, Files, FirstInv
<1> QED
  BY <1>4, <1>6, <1>7, <1>8, <1>9 DEF Inv
-----------------------------------------------------------------------------
(***************************************************************************)
(* Closers.                                                                *)
(***************************************************************************)

LEMMA CloserGoesInv ==
  ASSUME Inv, NEW f \in Files, NEW state \in {"waiting", "close"},
         closer[f] \in {"wait", "woken"}, CloserGoesTo(f, state),
         state = "close" => worker[f] = "ended"
  PROVE  Inv'
<1>1. UNCHANGED <<Running, Holding, Failed>>
  BY SameCounts DEF CloserGoesTo
<1>2. CountInv'
  BY <1>1 DEF CloserGoesTo, channels, Inv, CountInv
<1>3. TypeOK' /\ LoopInv' /\ EndedInv' /\ PanicNeedsTwoUpdates'
  BY DEF CloserGoesTo, channels, Inv, TypeOK, LoopInv, EndedInv, PanicNeedsTwoUpdates
<1>4. FirstInv'
  BY FirstFile DEF CloserGoesTo, channels, Inv, TypeOK, FirstInv
<1> QED
  BY <1>2, <1>3, <1>4 DEF Inv

\* At zero no worker that was started still runs.
LEMMA NoneRuns ==
  ASSUME Inv, wg = 0, NEW f \in Files, closer[f] # "none"
  PROVE  worker[f] = "ended"
<1>1. Running = {}
  BY Numbers DEF Inv, CountInv
<1> QED
  BY <1>1 DEF Inv, LoopInv, TypeOK, Running

LEMMA WaitInv == ASSUME Inv, NEW f \in Files, Wait(f) PROVE Inv'
BY NoneRuns, CloserGoesInv DEF Wait

LEMMA WokenInv == ASSUME Inv, NEW f \in Files, Woken(f) PROVE Inv'
<1>1. closer[f] = "woken" /\ worker[f] = "ended" /\ result[f] # "none"
  BY DEF Woken, Inv, EndedInv
<1>2. CASE wg = 0 /\ CloserGoesTo(f, "close")
  BY <1>1, <1>2, CloserGoesInv
<1>3. CASE wg # 0 /\ Panic
  <2>1. file > 1
    <3> SUFFICES ASSUME file = 1 PROVE FALSE
      BY DEF Inv, TypeOK, Files
    <3>1. worker[1] = "ended" /\ f = 1
      BY <1>1 DEF Inv, TypeOK, Files, LoopInv
    <3>2. main \notin {"acquire", "spawn"}
      BY <3>1, FirstFile DEF Inv, LoopInv
    <3>3. Running = {}
      BY <3>1 DEF Inv, TypeOK, Files, LoopInv, Running
    <3> QED
      BY <1>3, <3>2, <3>3, Numbers DEF Inv, CountInv
  <2>2. f # 1
    BY <1>1, <2>1 DEF Inv, FirstInv
  <2> QED
    BY <1>1, <1>3, <2>1, <2>2, PanicInv
<1> QED
  BY <1>2, <1>3 DEF Woken

LEMMA CloseInv == ASSUME Inv, NEW f \in Files, Close(f) PROVE Inv'
<1>1. closer[f] = "close" /\ worker[f] = "ended" /\ result[f] # "none"
  BY DEF Close, Inv, EndedInv
<1>2. CASE closed /\ Panic
  <2>1. f # 1 /\ file > 1
    BY <1>1, <1>2, FirstFile DEF Inv, TypeOK, Files, LoopInv, FirstInv
  <2> QED
    BY <1>1, <1>2, <2>1, PanicInv
<1>3. CASE ~(closed /\ Panic)
  <2>0. /\ closed' = TRUE
        /\ closer' = [closer EXCEPT ![f] = "ended"]
        /\ UNCHANGED <<main, file, worker, wg, sem, errors, err, result, process>>
    BY <1>3 DEF Close
  <2>1. UNCHANGED <<Running, Holding, Failed>>
    BY <2>0, SameCounts
  <2>2. CountInv'
    BY <2>0, <2>1 DEF Inv, CountInv
  <2>3. TypeOK' /\ LoopInv' /\ EndedInv' /\ PanicNeedsTwoUpdates'
    BY <1>1, <2>0 DEF Inv, TypeOK, LoopInv, EndedInv, PanicNeedsTwoUpdates
  <2>4. file = 1 => f = 1
    BY <1>1 DEF Inv, TypeOK, Files, LoopInv
  <2>5. FirstInv'
    BY <2>0, <2>4, FirstFile DEF Inv, TypeOK, Files, FirstInv
  <2> QED
    BY <2>2, <2>3, <2>5 DEF Inv
<1> QED
  BY <1>2, <1>3
-----------------------------------------------------------------------------
(***************************************************************************)
(* The theorems.                                                           *)
(***************************************************************************)

LEMMA StepInv == ASSUME Inv, [Next]_vars PROVE Inv'
<1>1. CASE Main
  BY <1>1, AddInv, AcquireInv, SpawnInv, RangeReceivesInv, RangeEndsInv DEF Main
<1>2. ASSUME NEW f \in Files, Worker(f) \/ Closer(f)
      PROVE  Inv'
  BY <1>2, UpdateInv, TestInv, SendInv, FatalInv, ReleaseInv, DoneInv, WaitInv, WokenInv, CloseInv
     DEF Worker, Closer
<1>3. CASE UNCHANGED vars
  <2>1. UNCHANGED <<Running, Holding, Failed>>
    BY <1>3, SameCounts DEF vars
  <2>2. CountInv'
    BY <1>3, <2>1 DEF vars, Inv, CountInv
  <2>3. TypeOK' /\ LoopInv' /\ EndedInv' /\ FirstInv' /\ PanicNeedsTwoUpdates'
    BY <1>3 DEF vars, Inv, TypeOK, LoopInv, EndedInv, FirstInv, PanicNeedsTwoUpdates
  <2> QED
    BY <2>2, <2>3 DEF Inv
<1> QED
  BY <1>1, <1>2, <1>3 DEF Next

LEMMA Inductive == Spec => []Inv
<1>1. Inv /\ [Next]_vars => Inv'
  BY StepInv
<1> QED
  BY InitInv, <1>1, PTL DEF Spec

\* The type invariant: neither counter falls below zero, no more slots are taken than
\* there are, and errChan has room for every error that is sent.
THEOREM TypeCorrect == Spec => []TypeOK
<1>1. Inv => TypeOK
  BY DEF Inv
<1> QED
  BY Inductive, <1>1, PTL

\* For every number of files: the first is updated alone and without an error before
\* the loop reaches the second.
THEOREM FirstAlone == Spec => []FirstFileAlone
<1>1. Inv => FirstFileAlone
  BY DEF Inv, FirstInv, FirstFileAlone
<1> QED
  BY Inductive, <1>1, PTL

\* For every number of files and slots: no panic before two updates have returned.
THEOREM TwoUpdates == Spec => []PanicNeedsTwoUpdates
<1>1. Inv => PanicNeedsTwoUpdates
  BY DEF Inv
<1> QED
  BY Inductive, <1>1, PTL

\* With max_concurrent_updates of 0, no file is ever updated.
THEOREM NoSlotNoUpdate ==
  MaxConcUpdates = 0 /\ Spec => [](\A f \in Files : worker[f] = "none")
<1> DEFINE Stuck == /\ TypeOK
                    /\ main \in {"add", "acquire"}
                    /\ \A f \in Files : worker[f] = "none" /\ closer[f] = "none"
<1>1. Init => Stuck
  BY InitInv DEF Init, Inv
<1>2. MaxConcUpdates = 0 /\ Inv /\ Stuck /\ [Next]_vars => Stuck'
  <2> SUFFICES ASSUME MaxConcUpdates = 0, Inv, Stuck, [Next]_vars
               PROVE  Stuck'
    OBVIOUS
  <2>1. TypeOK'
    BY StepInv DEF Inv
  <2>2. ~Acquire
    BY DEF Acquire, TypeOK
  <2>3. \A f \in Files : ~Worker(f) /\ ~Closer(f)
    BY DEF Worker, Update, Test, Send, Fatal, Release, Done, Closer, Wait, Woken, Close
  <2>4. CASE Add
    BY <2>1, <2>4 DEF Add
  <2>5. CASE UNCHANGED vars
    BY <2>1, <2>5 DEF vars
  <2> QED
    BY <2>2, <2>3, <2>4, <2>5 DEF Next, Main, Spawn, RangeReceives, RangeEnds
<1>3. Stuck => \A f \in Files : worker[f] = "none"
  OBVIOUS
<1> HIDE DEF Stuck
<1>4. CASE MaxConcUpdates = 0
  <2>1. Inv /\ Stuck /\ [Next]_vars => Stuck'
    BY <1>2, <1>4
  <2> QED
    BY Inductive, <1>1, <2>1, <1>3, PTL DEF Spec
<1> QED
  BY <1>4
-----------------------------------------------------------------------------
(***************************************************************************)
(* That nobody waits for ever, as far as a state can say it: while the     *)
(* process runs and its round is not over, some goroutine can go on.       *)
(***************************************************************************)

\* The guards of the actions: what the main goroutine, a worker or a closer needs.
CanGoOn == \/ main \in {"add", "spawn"}
           \/ main = "acquire" /\ sem < MaxConcUpdates
           \/ main = "range" /\ (errors > 0 \/ closed)
           \/ \E f \in Files : worker[f] \notin {"none", "ended"}
           \/ \E f \in Files : closer[f] \in {"wait", "woken", "close"}

\* Whoever is in Wait will be woken; one closer has closed the channel, and no second.
CloserInv ==
  /\ \A f \in Files : /\ closer[f] = "waiting" => wg > 0
                      /\ closer[f] = "ended" => closed
                      /\ f < file => closer[f] # "none"
                      /\ (f = file /\ main \in {"range", "done"}) => closer[f] # "none"
                      /\ main = "done" => file = NFiles
  /\ \A f, g \in Files : closer[f] = "ended" /\ closer[g] = "ended" => f = g

LEMMA CloserMain ==
  ASSUME Inv, CloserInv, Main
  PROVE  CloserInv'
<1>0. wg \in Nat /\ file \in Files /\ \A f \in Files : f \in Nat /\ f <= NFiles
  BY DEF Inv, TypeOK, Files
<1>1. CASE Add
  BY <1>0, <1>1 DEF Add, CloserInv
<1>2. CASE Acquire
  BY <1>2 DEF Acquire, CloserInv
<1>3. CASE Spawn
  <2>1. /\ closer' = [closer EXCEPT ![file] = "wait"] /\ main' = "range"
        /\ UNCHANGED <<file, wg, closed>>
    BY <1>3 DEF Spawn, channels
  <2>2. closer'[file] = "wait" /\ \A f \in Files : f # file => closer'[f] = closer[f]
    BY <1>0, <2>1 DEF Inv, TypeOK
  <2> QED BY <1>0, <2>1, <2>2 DEF CloserInv
<1>4. CASE RangeReceives
  BY <1>4 DEF RangeReceives, goroutines, CloserInv
<1>5. CASE RangeEnds
  <2>1. main = "range" /\ UNCHANGED <<closer, wg, closed>>
    BY <1>5 DEF RangeEnds, channels
  <2>2. CASE file < NFiles /\ file' = file + 1 /\ main' = "add"
    <3>1. \A f \in Files : f < file' => f < file \/ f = file
      BY <1>0, <2>2 DEF Files
    <3> QED BY <2>1, <2>2, <3>1 DEF CloserInv
  <2>3. CASE file = NFiles /\ main' = "done" /\ UNCHANGED file
    BY <2>1, <2>3 DEF CloserInv
  <2> QED BY <1>5, <2>2, <2>3 DEF RangeEnds
<1> QED BY <1>1, <1>2, <1>3, <1>4, <1>5 DEF Main

LEMMA CloserWorker ==
  ASSUME Inv, CloserInv, NEW f \in Files, Worker(f)
  PROVE  CloserInv'
<1>1. CASE Done(f)
  <2>1. /\ wg' = wg - 1
        /\ closer' = [g \in Files |-> IF wg = 1 /\ closer[g] = "waiting" THEN "woken" ELSE closer[g]]
        /\ UNCHANGED <<main, file, closed>>
    BY <1>1 DEF Done
  <2>2. wg \in Nat
    BY DEF Inv, TypeOK
  <2>3. \A g \in Files : /\ closer'[g] = "none" <=> closer[g] = "none"
                         /\ closer'[g] = "ended" <=> closer[g] = "ended"
                         /\ closer'[g] = "waiting" => closer[g] = "waiting" /\ wg # 1
    BY <2>1
  <2>4. \A g \in Files : closer'[g] = "waiting" => wg' > 0
    BY <2>1, <2>2, <2>3 DEF CloserInv
  <2> QED BY <2>1, <2>3, <2>4 DEF CloserInv
<1>2. CASE ~Done(f)
  <2>1. UNCHANGED <<main, file, closer, wg, closed>>
    BY <1>2 DEF Worker, Update, Test, Send, Panic, Fatal, Release, goroutines, channels
  <2> QED BY <2>1 DEF CloserInv
<1> QED BY <1>1, <1>2

LEMMA CloserCloser ==
  ASSUME Inv, CloserInv, NEW f \in Files, Closer(f)
  PROVE  CloserInv'
<1>0. closer \in [Files -> {"none", "wait", "waiting", "woken", "close", "ended"}] /\ wg \in Nat
  BY DEF Inv, TypeOK
<1>1. CASE Panic
  <2>1. UNCHANGED <<main, file, closer, wg, closed>>
    BY <1>1 DEF Panic, goroutines, channels
  <2> QED BY <2>1 DEF CloserInv
<1>2. ASSUME NEW state \in {"waiting", "close"}, CloserGoesTo(f, state), state = "waiting" => wg # 0
      PROVE  CloserInv'
  <2>1. closer' = [closer EXCEPT ![f] = state] /\ UNCHANGED <<main, file, wg, closed>>
    BY <1>2 DEF CloserGoesTo, channels
  <2>2. closer'[f] = state /\ \A g \in Files : g # f => closer'[g] = closer[g]
    BY <1>0, <2>1
  <2> QED BY <1>0, <1>2, <2>1, <2>2 DEF CloserInv
<1>3. CASE Wait(f)
  BY <1>2, <1>3 DEF Wait
<1>4. CASE Woken(f) /\ ~Panic
  BY <1>2, <1>4 DEF Woken
<1>5. CASE Close(f) /\ ~Panic
  <2>1. /\ ~closed /\ closed' = TRUE /\ closer' = [closer EXCEPT ![f] = "ended"]
        /\ UNCHANGED <<main, file, wg>>
    BY <1>5 DEF Close
  <2>2. closer'[f] = "ended" /\ \A g \in Files : g # f => closer'[g] = closer[g]
    BY <1>0, <2>1
  <2>3. \A g \in Files : closer[g] # "ended"
    BY <2>1 DEF CloserInv
  <2> QED BY <2>1, <2>2, <2>3 DEF CloserInv
<1> QED BY <1>1, <1>3, <1>4, <1>5 DEF Closer

LEMMA NobodyStuck ==
  ASSUME Inv, CloserInv, MaxConcUpdates > 0, main # "done" \/ NFiles > 1
  PROVE  CanGoOn
<1> SUFFICES ASSUME ~CanGoOn PROVE FALSE
  OBVIOUS
<1>0. /\ file \in Files /\ NFiles \in Nat \ {0} /\ wg \in Nat /\ MaxConcUpdates \in Nat
      /\ main \in {"add", "acquire", "spawn", "range", "done"}
      /\ \A f \in Files : closer[f] \in {"none", "wait", "waiting", "woken", "close", "ended"}
  BY DEF Inv, TypeOK
<1>1. Running = {} /\ Holding = {}
  BY DEF CanGoOn, Running, Holding
<1>2. Cardinality(Running) = 0 /\ Cardinality(Holding) = 0
  BY <1>1, Numbers
<1>3. main \in {"range", "done"}
  <2>1. main = "acquire" => sem = 0
    BY <1>2 DEF Inv, CountInv
  <2> QED BY <1>0, <2>1 DEF CanGoOn
<1>4. wg = 0
  BY <1>2, <1>3 DEF Inv, CountInv
<1>5. \A f \in Files : closer[f] \in {"none", "ended"}
  BY <1>0, <1>4 DEF CanGoOn, CloserInv
<1>6. closer[file] = "ended" /\ closed
  BY <1>0, <1>3, <1>5 DEF CloserInv
<1>7. main = "done" /\ file = NFiles /\ NFiles > 1
  BY <1>0, <1>3, <1>6 DEF CanGoOn, CloserInv
<1>8. 1 \in Files /\ 1 < file /\ 1 # file
  BY <1>0, <1>7 DEF Files
<1>9. closer[1] = "ended"
  BY <1>5, <1>8 DEF CloserInv
<1> QED BY <1>0, <1>6, <1>8, <1>9 DEF CloserInv

\* With a slot, no schedule of the goroutines brings the round to a stop: neither the
\* semaphore, nor a Wait, nor the range over errChan is waited for in vain. And where
\* the loop has got through several files, the close that panics is still to come.
THEOREM NeverStuck ==
  ASSUME MaxConcUpdates > 0
  PROVE  Spec => []((process = "runs" /\ (main # "done" \/ NFiles > 1)) => CanGoOn)
<1>1. Init => CloserInv
  BY DEF Init, CloserInv, Files
<1>2. Inv /\ CloserInv /\ [Next]_vars => CloserInv'
  <2> SUFFICES ASSUME Inv, CloserInv, [Next]_vars PROVE CloserInv'
    OBVIOUS
  <2>1. CASE UNCHANGED vars
    BY <2>1 DEF vars, CloserInv
  <2> QED BY <2>1, CloserMain, CloserWorker, CloserCloser DEF Next
<1>3. Inv /\ CloserInv => ((process = "runs" /\ (main # "done" \/ NFiles > 1)) => CanGoOn)
  BY NobodyStuck
<1> QED BY <1>1, <1>2, <1>3, Inductive, PTL DEF Spec
=============================================================================
