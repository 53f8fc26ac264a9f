----------------------------- MODULE Benchmark -----------------------------
(***************************************************************************)
(* The two drivers of the measurements, which differ in what they vary.    *)
(* "object" fills buckets of one size with objects of different sizes, and *)
(* its files are named for their size; "bucket" fills buckets of different *)
(* sizes with the same files.  A run prepares files and notifications, or  *)
(* uploads and measures: for every size it updates all objects, then reads *)
(* the log of the cloud function until it has an entry for each, or gives  *)
(* up.  The strategies that do not use the function are left out: their    *)
(* calls follow one another and their times are added up.                  *)
(***************************************************************************)
EXTENDS Naturals, FiniteSets

CONSTANTS
  Sizes,        \* the sizes measured
  NFiles,       \* files of a size
  MaxRetries,   \* maxLogRetries: queries that may find nothing new
  MaxRuns       \* bound: runs of the driver

ASSUME SizesAssumption == IsFiniteSet(Sizes)
ASSUME NFilesAssumption == NFiles \in Nat \ {0}
ASSUME BoundsAssumption == MaxRetries \in Nat \ {0} /\ MaxRuns \in Nat

VARIABLES
  driver,      \* which of the two drivers runs
  pc,          \* where it is; "off" between runs
  runs,        \* how many runs there were
  broken,      \* whether a run was interrupted, or a write of it failed, while it made files
  disk,        \* for every file name, what generated_files has
  creators,    \* the goroutines that make files
  notified,    \* the sizes whose bucket publishes metadata updates
  bucket,      \* for every size and number, what was uploaded
  todo,        \* the sizes left
  size,        \* the one that is measured
  next,        \* the number of the file whose turn it is
  found,       \* the log entries taken into account, one for a name
  retries,     \* logRetryCount
  triggered,   \* objects whose function has been triggered
  log,         \* what the function has logged
  result       \* for every size that is measured, the log entries its time is from

making == <<disk, creators, broken>>
cloud == <<notified, bucket, triggered, log>>
vars == <<driver, pc, runs, broken, disk, creators, notified, bucket, todo, size, next,
          found, retries, triggered, log, result>>
-----------------------------------------------------------------------------
Number == 1..NFiles
Object == Sizes \X Number

\* The file's name: "bucket" has one series of names for all sizes.
Name(s, n) == <<IF driver = "object" THEN s ELSE "2048KB", n>>
Names == (Sizes \cup {"2048KB"}) \X Number

\* What there is of a file or an object, and a goroutine that makes a file.
Content == {"none", "part", "whole"}
Creator == [obj : Object, at : {"stat", "create", "write"}]

TypeOK == /\ driver \in {"object", "bucket"}
          /\ pc \in {"off", "prepare", "copy", "update", "query"}
          /\ runs \in Nat
          /\ broken \in BOOLEAN
          /\ disk \in [Names -> Content]
          /\ creators \subseteq Creator
          /\ notified \subseteq Sizes
          /\ bucket \in [Object -> Content]
          /\ todo \subseteq Sizes
          /\ size \in Sizes
          /\ next \in Number
          /\ found \subseteq Object
          /\ retries \in Nat
          /\ triggered \subseteq Object
          /\ log \subseteq Object
          /\ DOMAIN result \subseteq Sizes

Init == /\ driver \in {"object", "bucket"}
        /\ pc = "off"
        /\ runs = 0
        /\ broken = FALSE
        /\ disk = [f \in Names |-> "none"]
        /\ creators = {}
        /\ notified = {}
        /\ bucket = [o \in Object |-> "none"]
        /\ todo = {}
        /\ size \in Sizes
        /\ next = 1
        /\ found = {}
        /\ retries = 0
        /\ triggered = {}
        /\ log = {}
        /\ result = [s \in {} |-> {}]
-----------------------------------------------------------------------------
(***************************************************************************)
(* The run that prepares.                                                  *)
(***************************************************************************)

\* The buckets are made anew, or, if that fails, left as they are; and a goroutine
\* starts for every file of every size, whether or not names coincide.
Prepare == /\ pc = "off"
           /\ runs < MaxRuns
           /\ runs' = runs + 1
           /\ pc' = "prepare"
           /\ creators' = {[obj |-> o, at |-> "stat"] : o \in Object}
           /\ \E S \in SUBSET Sizes :
                /\ bucket' = [o \in Object |-> IF o[1] \in S THEN "none" ELSE bucket[o]]
                /\ notified' = notified \ S
           /\ UNCHANGED <<driver, broken, disk, todo, size, next, found, retries, triggered,
                          log, result>>

Goes(g, at) == creators' = (creators \ {g}) \cup {[g EXCEPT !.at = at]}
Ends(g) == creators' = creators \ {g}
File(g) == Name(g.obj[1], g.obj[2])

\* A file that is there is not made again.
Stat(g) == /\ g.at = "stat"
           /\ IF disk[File(g)] = "none" THEN Goes(g, "create") ELSE Ends(g)
           /\ UNCHANGED <<disk, broken>>

\* os.Create empties a file that another goroutine has made meanwhile.
CreateFile(g) == /\ g.at = "create"
                 /\ disk' = [disk EXCEPT ![File(g)] = "part"]
                 /\ Goes(g, "write")
                 /\ UNCHANGED broken

\* The file cannot be looked up or opened, which is only printed.
GivesUp(g) == /\ g.at # "write"
              /\ Ends(g)
              /\ UNCHANGED <<disk, broken>>

WriteFile(g) == /\ g.at = "write"
                /\ Ends(g)
                /\ \/ disk' = [disk EXCEPT ![File(g)] = "whole"] /\ UNCHANGED broken
                   \/ broken' = TRUE /\ UNCHANGED disk

Make == /\ pc = "prepare"
        /\ \E g \in creators : Stat(g) \/ CreateFile(g) \/ GivesUp(g) \/ WriteFile(g)
        /\ UNCHANGED <<driver, pc, runs, cloud, todo, size, next, found, retries, result>>

\* Variant: the run does not wait for its goroutines.
FilesMadeEarly == pc = "prepare"

FilesMade == pc = "prepare" /\ creators = {}

\* gcs-utils replaces the bucket's notification, and its failure is only printed; the
\* run ends when all of them have.
SetNotifications ==
  /\ FilesMade
  /\ notified' \in SUBSET Sizes
  /\ pc' = "off"
  /\ creators' = {}
  /\ UNCHANGED <<driver, runs, broken, disk, bucket, todo, size, next, found, retries,
                 triggered, log, result>>

Interrupt == /\ pc # "off"
             /\ pc' = "off"
             /\ creators' = {}
             /\ broken' = (broken \/ creators # {})
             /\ UNCHANGED <<driver, runs, disk, cloud, todo, size, next, found, retries, result>>
-----------------------------------------------------------------------------
(***************************************************************************)
(* The run that measures.                                                  *)
(***************************************************************************)

\* The order of the sizes is that of a Go map: any.
Begin == /\ todo' = Sizes
         /\ size' \in Sizes
         /\ next' = 1

Measure == /\ pc = "off"
           /\ runs < MaxRuns
           /\ runs' = runs + 1
           /\ pc' = "copy"
           /\ Begin
           /\ result' = [s \in {} |-> {}]
           /\ UNCHANGED <<driver, making, cloud, found, retries>>

\* The loops over sizes and files go on.
NextFile == /\ next < NFiles
            /\ next' = next + 1
            /\ UNCHANGED <<pc, todo, size>>

NextSize(at, end) == IF todo = {size}
                       THEN pc' = end /\ Begin
                       ELSE /\ pc' = at
                            /\ todo' = todo \ {size}
                            /\ size' \in todo'
                            /\ next' = 1

\* cloud-cp uploads the file, if it is there.
CopyFile == /\ pc = "copy"
            /\ disk[Name(size, next)] # "none"
            /\ bucket' = [bucket EXCEPT ![<<size, next>>] = disk[Name(size, next)]]
            /\ NextFile \/ (next = NFiles /\ NextSize("copy", "update"))
            /\ UNCHANGED <<driver, runs, making, notified, triggered, log, found, retries,
                           result>>

\* After three attempts the uploads end, and the measurement begins.
CopyFails == /\ pc = "copy"
             /\ pc' = "update"
             /\ Begin
             /\ UNCHANGED <<driver, runs, making, cloud, found, retries, result>>

\* cloud-cp updates an object that is there; if it fails, the next one's turn comes.
UpdateObject == /\ pc = "update"
                /\ triggered' = IF bucket[<<size, next>>] # "none" /\ size \in notified
                                  THEN triggered \cup {<<size, next>>} ELSE triggered
                /\ NextFile \/ (next = NFiles /\ pc' = "query" /\ UNCHANGED <<todo, size, next>>)
                /\ found' = {}
                /\ retries' = 0
                /\ UNCHANGED <<driver, runs, making, notified, bucket, log, result>>

UpdateFails == /\ pc = "update"
               /\ NextFile \/ (next = NFiles /\ pc' = "query" /\ UNCHANGED <<todo, size, next>>)
               /\ found' = {}
               /\ retries' = 0
               /\ UNCHANGED <<driver, runs, making, cloud, result>>

\* The function's entry names the file and says [ENC]: there is no way to tell the
\* bucket from it.  A function that fails logs nothing; Pub/Sub may start one twice.
FunctionRuns == /\ \E o \in triggered :
                     /\ triggered' \in {triggered, triggered \ {o}}
                     /\ log' \in {log, log \cup {o}}
                /\ UNCHANGED <<driver, pc, runs, making, notified, bucket, todo, size, next,
                               found, retries, result>>

\* Variant: without the prefix of the size.
MatchesAnySize(o) == driver = "object"

\* "object" looks for [ENC] and its size's prefix; "bucket" looks for [UPD].
Matches(o) == driver = "object" /\ o[1] = size

\* The entries of a query that are for files not found yet.
NewEntries(E) == {o \in E : Matches(o) /\ o \notin found}

\* Variant: the retries are only counted while nothing was found.
RetriesReset(E) == IF NewEntries(E) = {} /\ found = {} THEN retries + 1 ELSE retries

Retries(E) == IF NewEntries(E) = {} THEN retries + 1 ELSE retries

\* The service may be late with entries; those of more names than files are not taken.
\* Without a client for the log, there are no queries that find something.
Query == /\ pc = "query"
         /\ \E E \in SUBSET log :
              /\ found' = found \cup NewEntries(E)
              /\ Cardinality(found') <= NFiles
              /\ retries' = IF Cardinality(found') = NFiles THEN MaxRetries ELSE Retries(E)
         /\ IF retries' = MaxRetries
              THEN /\ result' = [s \in DOMAIN result \cup {size} |->
                                   IF s = size THEN found' ELSE result[s]]
                   /\ NextSize("update", "off")
              ELSE UNCHANGED <<pc, todo, size, next, result>>
         /\ UNCHANGED <<driver, runs, making, cloud>>
-----------------------------------------------------------------------------
Steps == CopyFile \/ CopyFails \/ UpdateObject \/ UpdateFails \/ Query

Next == Prepare \/ Make \/ SetNotifications \/ Interrupt \/ Measure \/ Steps \/ FunctionRuns

Spec == Init /\ [][Next]_vars

\* The driver's own steps; the service and its functions owe nothing.
FairSpec == Spec /\ WF_vars(Make) /\ WF_vars(SetNotifications) /\ WF_vars(Steps)
-----------------------------------------------------------------------------
(***************************************************************************)
(* Properties.                                                             *)
(***************************************************************************)

\* As long as no run was interrupted and no write failed while files were made, what is
\* in the buckets is whole, also where goroutines of several sizes make the same file
\* and one empties what another has written.
UploadedWhole == ~broken => \A o \in Object : bucket[o] # "part"

\* The time given for a size is from functions of that size, one for each object at most,
\* also while functions of the sizes before are late.
OwnLogs == \A s \in DOMAIN result : \A o \in result[s] : o[1] = s

\* Every run ends, whatever is uploaded, triggered and logged, or is not.
RunsEnd == pc # "off" ~> pc = "off"
=============================================================================
