--------------------------- MODULE BucketFanout ---------------------------
(***************************************************************************)
(* One round of the daemon's main loop over the bucket's files: the main   *)
(* goroutine, a worker and a closer per file, the semaphore of             *)
(* max_concurrent_updates, the WaitGroup, the channel errChan and the      *)
(* variable err that the workers share.  What a worker's strategy does is  *)
(* only whether it returns an error.                                       *)
(***************************************************************************)
EXTENDS Naturals, FiniteSets

CONSTANTS
  NFiles,           \* how many files listObjects returned
  MaxConcUpdates    \* max_concurrent_updates of config.yaml

ASSUME NFilesAssumption == NFiles \in Nat \ {0}
ASSUME MaxConcUpdatesAssumption == MaxConcUpdates \in Nat

VARIABLES
  main,       \* where the main goroutine is
  file,       \* the file its loop is at
  worker,     \* for every file, where its worker is
  closer,     \* for every file, where the goroutine that closes errChan is
  wg,         \* the counter of the WaitGroup
  sem,        \* how many slots of the semaphore are taken
  err,        \* the variable all workers of the round assign and test
  result,     \* for every file, what its strategy returned
  errors,     \* how many errors errChan buffers
  closed,     \* whether errChan is closed
  process     \* what became of the process

goroutines == <<main, file, worker, closer>>
channels == <<wg, sem, errors, closed>>
vars == <<main, file, worker, closer, wg, sem, err, result, errors, closed, process>>

Files == 1..NFiles
-----------------------------------------------------------------------------
TypeOK == /\ main \in {"add", "acquire", "spawn", "range", "done"}
          /\ file \in Files
          /\ worker \in [Files -> {"none", "update", "test", "send", "fatal", "release", "wg_done", "ended"}]
          /\ closer \in [Files -> {"none", "wait", "waiting", "woken", "close", "ended"}]
          /\ wg \in 0..NFiles
          /\ sem \in 0..MaxConcUpdates
          /\ err \in {"nil", "error"}
          /\ result \in [Files -> {"none", "nil", "error"}]
          /\ errors \in 0..NFiles
          /\ closed \in BOOLEAN
          /\ process \in {"runs", "fatal", "panic"}

Init == /\ main = "add"
        /\ file = 1
        /\ worker = [f \in Files |-> "none"]
        /\ closer = [f \in Files |-> "none"]
        /\ wg = 0
        /\ sem = 0
        /\ err = "nil"
        /\ result = [f \in Files |-> "none"]
        /\ errors = 0
        /\ closed = FALSE
        /\ process = "runs"

\* A panic in any goroutine ends the process.
Panic == /\ process' = "panic"
         /\ UNCHANGED <<goroutines, channels, err, result>>
-----------------------------------------------------------------------------
(***************************************************************************)
(* The main goroutine.                                                     *)
(***************************************************************************)

Add == /\ main = "add"
       /\ wg' = wg + 1
       /\ main' = "acquire"
       /\ UNCHANGED <<file, worker, closer, sem, err, result, errors, closed, process>>

Acquire == /\ main = "acquire"
           /\ sem < MaxConcUpdates
           /\ sem' = sem + 1
           /\ main' = "spawn"
           /\ UNCHANGED <<file, worker, closer, wg, err, result, errors, closed, process>>

\* go: the worker, then the closer.
Spawn == /\ main = "spawn"
         /\ worker' = [worker EXCEPT ![file] = "update"]
         /\ closer' = [closer EXCEPT ![file] = "wait"]
         /\ main' = "range"
         /\ UNCHANGED <<file, channels, err, result, process>>

\* for err := range errChan, inside the loop over the files: an error is logged.
RangeReceives == /\ main = "range"
                 /\ errors > 0
                 /\ errors' = errors - 1
                 /\ UNCHANGED <<goroutines, wg, sem, closed, err, result, process>>

\* Variant: the loop does not wait for the channel to be closed.
RangeEndsOpen == /\ main = "range"
                 /\ errors = 0
                 /\ \/ file < NFiles /\ file' = file + 1 /\ main' = "add"
                    \/ file = NFiles /\ main' = "done" /\ UNCHANGED file
                 /\ UNCHANGED <<worker, closer, channels, err, result, process>>

\* The range ends once errChan is closed and empty; the loop goes on or is done.
RangeEnds == /\ main = "range"
             /\ errors = 0
             /\ closed
             /\ \/ file < NFiles /\ file' = file + 1 /\ main' = "add"
                \/ file = NFiles /\ main' = "done" /\ UNCHANGED file
             /\ UNCHANGED <<worker, closer, channels, err, result, process>>

Main == Add \/ Acquire \/ Spawn \/ RangeReceives \/ RangeEnds
-----------------------------------------------------------------------------
(***************************************************************************)
(* The worker of file f.                                                   *)
(***************************************************************************)

\* err = the strategy's update: an assignment to the shared variable.
Update(f) == /\ worker[f] = "update"
             /\ \E r \in {"nil", "error"} :
                  /\ result' = [result EXCEPT ![f] = r]
                  /\ err' = r
             /\ worker' = [worker EXCEPT ![f] = "test"]
             /\ UNCHANGED <<main, file, closer, channels, process>>

\* if err != nil reads whatever was assigned last.
Test(f) == /\ worker[f] = "test"
           /\ worker' = [worker EXCEPT ![f] = IF err = "nil" THEN "release" ELSE "send"]
           /\ UNCHANGED <<main, file, closer, channels, err, result, process>>

\* errChan <- err, a panic when the channel is closed.
Send(f) == /\ worker[f] = "send"
           /\ \/ /\ closed
                 /\ Panic
              \/ /\ ~closed
                 /\ errors' = errors + 1
                 /\ worker' = [worker EXCEPT ![f] = "fatal"]
                 /\ UNCHANGED <<main, file, closer, wg, sem, closed, err, result, process>>

\* mu.Fatalf, which runs no deferred call.
Fatal(f) == /\ worker[f] = "fatal"
            /\ process' = "fatal"
            /\ UNCHANGED <<goroutines, channels, err, result>>

\* Variant: the slot is not given back.
ReleaseForgotten(f) == /\ worker[f] = "release"
                       /\ worker' = [worker EXCEPT ![f] = "wg_done"]
                       /\ UNCHANGED <<main, file, closer, wg, sem, errors, closed, err, result, process>>

\* The deferred calls run in the reverse of their order.
Release(f) == /\ worker[f] = "release"
              /\ sem' = sem - 1
              /\ worker' = [worker EXCEPT ![f] = "wg_done"]
              /\ UNCHANGED <<main, file, closer, wg, errors, closed, err, result, process>>

\* Variant: the slot is given back a second time.
DoneReleasing(f) == /\ worker[f] = "wg_done"
                    /\ wg' = wg - 1
                    /\ sem' = sem - 1
                    /\ worker' = [worker EXCEPT ![f] = "ended"]
                    /\ closer' = [g \in Files |-> IF wg = 1 /\ closer[g] = "waiting" THEN "woken" ELSE closer[g]]
                    /\ UNCHANGED <<main, file, errors, closed, err, result, process>>

\* The Done that takes the counter to zero wakes every goroutine in Wait.
Done(f) == /\ worker[f] = "wg_done"
           /\ wg' = wg - 1
           /\ worker' = [worker EXCEPT ![f] = "ended"]
           /\ closer' = [g \in Files |-> IF wg = 1 /\ closer[g] = "waiting" THEN "woken" ELSE closer[g]]
           /\ UNCHANGED <<main, file, sem, errors, closed, err, result, process>>

Worker(f) == Update(f) \/ Test(f) \/ Send(f) \/ Fatal(f) \/ Release(f) \/ Done(f)
-----------------------------------------------------------------------------
(***************************************************************************)
(* The closer of file f.                                                   *)
(***************************************************************************)

CloserGoesTo(f, state) == /\ closer' = [closer EXCEPT ![f] = state]
                          /\ UNCHANGED <<main, file, worker, channels, err, result, process>>

\* Variant: the closer does not wait.
WaitSkipped(f) == closer[f] = "wait" /\ CloserGoesTo(f, "close")

\* wg.Wait returns at once at zero, or else blocks.
Wait(f) == /\ closer[f] = "wait"
           /\ CloserGoesTo(f, IF wg = 0 THEN "close" ELSE "waiting")

\* A Wait that is woken panics when the counter is no longer zero: the WaitGroup was
\* reused before the Wait returned.
Woken(f) == /\ closer[f] = "woken"
            /\ \/ wg = 0 /\ CloserGoesTo(f, "close")
               \/ wg # 0 /\ Panic

\* Variant: the channel is closed once.
CloseOnce(f) == /\ closer[f] = "close"
                /\ closed' = TRUE
                /\ closer' = [closer EXCEPT ![f] = "ended"]
                /\ UNCHANGED <<main, file, worker, wg, sem, errors, err, result, process>>

\* close(errChan), a panic when it is closed already.
Close(f) == /\ closer[f] = "close"
            /\ \/ /\ closed
                  /\ Panic
               \/ /\ ~closed
                  /\ closed' = TRUE
                  /\ closer' = [closer EXCEPT ![f] = "ended"]
                  /\ UNCHANGED <<main, file, worker, wg, sem, errors, err, result, process>>

Closer(f) == Wait(f) \/ Woken(f) \/ Close(f)
-----------------------------------------------------------------------------
Next == /\ process = "runs"
        /\ \/ Main
           \/ \E f \in Files : Worker(f) \/ Closer(f)

Spec == Init /\ [][Next]_vars

\* Go's scheduler runs every goroutine that can run.
Fairness == /\ WF_vars(process = "runs" /\ Main)
            /\ \A f \in Files : /\ WF_vars(process = "runs" /\ Worker(f))
                                /\ WF_vars(process = "runs" /\ Closer(f))

FairSpec == Spec /\ Fairness
-----------------------------------------------------------------------------
(***************************************************************************)
(* Properties.                                                             *)
(***************************************************************************)

\* The first file is updated alone: its worker has ended, without an error, before
\* the loop reaches the second, because the range waits for the close and the close
\* for the WaitGroup.
FirstFileAlone == file > 1 => (worker[1] = "ended" /\ result[1] = "nil")

\* The process does not panic before the updates of two files have returned, so a
\* bucket of one file is never interrupted by it.
PanicNeedsTwoUpdates ==
  process = "panic" => Cardinality({f \in Files : result[f] # "none"}) > 1

\* The round comes to an end, if only that of the process: neither the semaphore, nor
\* Wait, nor the range over errChan blocks for ever.
RoundEnds == <>(main = "done" \/ process # "runs")

\* No process survives a round over several files: however its goroutines are
\* scheduled, and if every update succeeds, the second close comes.
SeveralFilesEndTheProcess == NFiles > 1 => <>(process # "runs")
=============================================================================
