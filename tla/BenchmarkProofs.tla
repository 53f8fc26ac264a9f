-------------------------- MODULE BenchmarkProofs --------------------------
(***************************************************************************)
(* Proofs about Benchmark, for every number of sizes, files, retries and   *)
(* runs, and wherever a run is interrupted.                                *)
(***************************************************************************)
EXTENDS Benchmark, TLAPS

\* A goroutine that has emptied the file is still to write it.
Writing(f) == \E g \in creators : g.at = "write" /\ File(g) = f

\* Goroutines make files only while a run prepares, and what is on disk in part is on
\* its way to being whole.
MakingInv == /\ pc # "prepare" => creators = {}
             /\ ~broken => \A f \in Names : disk[f] = "part" => Writing(f)

\* What was found in the log is of the size that is measured.
QueryInv == pc = "query" => \A o \in found : o[1] = size

Inv == /\ TypeOK
       /\ MakingInv
       /\ UploadedWhole
       /\ QueryInv
       /\ OwnLogs

USE NFilesAssumption, BoundsAssumption
-----------------------------------------------------------------------------
(***************************************************************************)
(* Types.                                                                  *)
(***************************************************************************)

LEMMA NameType ==
  ASSUME NEW s \in Sizes, NEW n \in Number
  PROVE  Name(s, n) \in Names
BY DEF Name, Names

LEMMA FileType ==
  ASSUME NEW g \in Creator
  PROVE  File(g) \in Names
BY NameType DEF Creator, File, Object

LEMMA InitInv == Init => Inv
<1> SUFFICES ASSUME Init PROVE Inv
  OBVIOUS
<1>1. /\ disk \in [Names -> Content]
      /\ \A f \in Names : disk[f] # "part"
  BY DEF Init, Content
<1>2. /\ bucket \in [Object -> Content]
      /\ \A o \in Object : bucket[o] # "part"
  BY DEF Init, Content
<1>3. DOMAIN result = {}
  BY DEF Init
<1>4. TypeOK
  <2>1. 1 \in Number
    BY DEF Number
  <2>2. creators \subseteq Creator /\ found \subseteq Object /\ triggered \subseteq Object
    BY DEF Init
  <2>3. todo \subseteq Sizes /\ notified \subseteq Sizes /\ log \subseteq Object
    BY DEF Init
  <2> QED
    BY <1>1, <1>2, <1>3, <2>1, <2>2, <2>3 DEF Init, TypeOK
<1>5. MakingInv /\ UploadedWhole /\ QueryInv /\ OwnLogs
  BY <1>1, <1>2, <1>3 DEF Init, MakingInv, UploadedWhole, QueryInv, OwnLogs
<1> QED
  BY <1>4, <1>5 DEF Inv

LEMMA PrepareType == ASSUME TypeOK, Prepare PROVE TypeOK'
<1>1. PICK S \in SUBSET Sizes :
        /\ bucket' = [o \in Object |-> IF o[1] \in S THEN "none" ELSE bucket[o]]
        /\ notified' = notified \ S
  BY DEF Prepare
<1>2. bucket' \in [Object -> Content]
  BY <1>1 DEF TypeOK, Content
<1>3. creators' \subseteq Creator
  BY DEF Prepare, Creator
<1> QED
  BY <1>1, <1>2, <1>3 DEF Prepare, TypeOK

LEMMA MakeType == ASSUME TypeOK, Make PROVE TypeOK'
<1>1. PICK g \in creators : Stat(g) \/ CreateFile(g) \/ GivesUp(g) \/ WriteFile(g)
  BY DEF Make
<1>2. g \in Creator /\ File(g) \in Names
  BY FileType DEF TypeOK
<1>3. creators' \subseteq Creator
  BY <1>1, <1>2 DEF TypeOK, Stat, CreateFile, GivesUp, WriteFile, Goes, Ends, Creator
<1>4. disk' \in [Names -> Content] /\ broken' \in BOOLEAN
  BY <1>1, <1>2 DEF TypeOK, Stat, CreateFile, GivesUp, WriteFile, Content
<1> QED
  BY <1>3, <1>4 DEF Make, TypeOK, cloud

LEMMA BeginType == Begin => todo' \subseteq Sizes /\ size' \in Sizes /\ next' \in Number
BY DEF Begin, Number

LEMMA NextSizeType ==
  ASSUME TypeOK, NEW at, NEW end, NextSize(at, end)
  PROVE  todo' \subseteq Sizes /\ size' \in Sizes /\ next' \in Number /\ pc' \in {at, end}
BY BeginType DEF NextSize, TypeOK, Number

LEMMA NextFileType ==
  ASSUME TypeOK, NextFile
  PROVE  todo' \subseteq Sizes /\ size' \in Sizes /\ next' \in Number /\ pc' = pc
BY DEF NextFile, TypeOK, Number

LEMMA StepsType == ASSUME TypeOK, Steps PROVE TypeOK'
<1>1. CASE CopyFile
  <2>1. todo' \subseteq Sizes /\ size' \in Sizes /\ next' \in Number /\ pc' \in {"copy", "update"}
    BY <1>1, NextSizeType, NextFileType DEF CopyFile
  <2>2. bucket' \in [Object -> Content]
    BY <1>1, NameType DEF CopyFile, TypeOK
  <2> QED
    BY <1>1, <2>1, <2>2 DEF CopyFile, TypeOK, making
<1>2. CASE CopyFails
  BY <1>2, BeginType DEF CopyFails, TypeOK, making, cloud
<1>3. CASE UpdateObject \/ UpdateFails
  <2>1. todo' \subseteq Sizes /\ size' \in Sizes /\ next' \in Number /\ pc' \in {"update", "query"}
    BY <1>3, NextFileType DEF UpdateObject, UpdateFails, TypeOK
  <2>2. triggered' \subseteq Object
    BY <1>3 DEF UpdateObject, UpdateFails, TypeOK, Object, cloud
  <2> QED
    BY <1>3, <2>1, <2>2 DEF UpdateObject, UpdateFails, TypeOK, making, cloud
<1>4. CASE Query
  <2>1. found' \subseteq Object
    BY <1>4 DEF Query, TypeOK, NewEntries
  <2>2. retries' \in Nat
    BY <1>4 DEF Query, TypeOK, Retries
  <2>3. /\ todo' \subseteq Sizes /\ size' \in Sizes /\ next' \in Number
        /\ pc' \in {"query", "update", "off"}
        /\ DOMAIN result' \subseteq Sizes
    BY <1>4, NextSizeType DEF Query, TypeOK
  <2> QED
    BY <1>4, <2>1, <2>2, <2>3 DEF Query, TypeOK, making, cloud
<1> QED
  BY <1>1, <1>2, <1>3, <1>4 DEF Steps

LEMMA StepType == ASSUME TypeOK, [Next]_vars PROVE TypeOK'
<1>1. CASE SetNotifications
  BY <1>1 DEF SetNotifications, TypeOK, Creator
<1>2. CASE Interrupt
  BY <1>2 DEF Interrupt, TypeOK, Creator, cloud
<1>3. CASE Measure
  <2>1. DOMAIN result' \subseteq Sizes
    BY <1>3 DEF Measure
  <2> QED
    BY <1>3, <2>1, BeginType DEF Measure, TypeOK, making, cloud
<1>4. CASE FunctionRuns
  BY <1>4 DEF FunctionRuns, TypeOK, making
<1>5. CASE UNCHANGED vars
  BY <1>5 DEF vars, TypeOK
<1> QED
  BY <1>1, <1>2, <1>3, <1>4, <1>5, PrepareType, MakeType, StepsType DEF Next

\* The type invariant: whatever is prepared, interrupted, measured and logged.
THEOREM TypeCorrect == Spec => []TypeOK
<1>1. Init => TypeOK
  BY InitInv DEF Inv
<1>2. TypeOK /\ [Next]_vars => TypeOK'
  BY StepType
<1> QED
  BY <1>1, <1>2, PTL DEF Spec
-----------------------------------------------------------------------------
(***************************************************************************)
(* Files and uploads.                                                      *)
(***************************************************************************)

\* Of two goroutines that make one file, the one that empties it also writes it.
LEMMA MakeMaking == ASSUME Inv, Make PROVE MakingInv'
<1>1. PICK g \in creators : Stat(g) \/ CreateFile(g) \/ GivesUp(g) \/ WriteFile(g)
  BY DEF Make
<1>2. pc' = "prepare" /\ driver' = driver
  BY DEF Make
<1>3. g \in Creator /\ File(g) \in Names
  BY FileType DEF Inv, TypeOK
<1> SUFFICES ASSUME ~broken', NEW f \in Names, disk'[f] = "part"
             PROVE  \E h \in creators' : h.at = "write" /\ File(h) = f
  BY <1>2 DEF MakingInv, Writing, File, Name
<1>4. ~broken
  BY <1>1 DEF Stat, CreateFile, GivesUp, WriteFile
<1>5. CASE CreateFile(g) /\ File(g) = f
  <2>1. [g EXCEPT !.at = "write"] \in creators'
    BY <1>5 DEF CreateFile, Goes
  <2>2. [g EXCEPT !.at = "write"].at = "write" /\ File([g EXCEPT !.at = "write"]) = File(g)
    BY <1>3 DEF Creator, File
  <2> QED
    BY <1>5, <2>1, <2>2
<1>6. CASE ~(CreateFile(g) /\ File(g) = f)
  <2>1. disk[f] = "part" /\ ~(WriteFile(g) /\ File(g) = f)
    BY <1>1, <1>3, <1>6 DEF Stat, CreateFile, GivesUp, WriteFile, Inv, TypeOK
  <2>2. PICK h \in creators : h.at = "write" /\ File(h) = f
    BY <1>4, <2>1 DEF Inv, MakingInv, Writing
  <2>3. h # g
    BY <1>1, <2>1, <2>2 DEF Stat, CreateFile, GivesUp
  <2>4. h \in creators'
    BY <1>1, <2>2, <2>3 DEF Stat, CreateFile, GivesUp, WriteFile, Goes, Ends
  <2> QED
    BY <2>2, <2>4
<1> QED
  BY <1>5, <1>6

LEMMA StepMaking == ASSUME Inv, [Next]_vars PROVE MakingInv'
<1>1. CASE Prepare
  BY <1>1 DEF Prepare, Inv, MakingInv, Writing
<1>2. CASE SetNotifications
  BY <1>2 DEF SetNotifications, FilesMade, Inv, MakingInv, Writing
<1>3. CASE Interrupt
  BY <1>3 DEF Interrupt, Inv, MakingInv, Writing
<1>4. CASE Measure \/ FunctionRuns
  BY <1>4 DEF Measure, FunctionRuns, making, Inv, MakingInv, Writing, File, Name
<1>5. CASE Steps
  <2>1. pc # "prepare" /\ pc' # "prepare" /\ UNCHANGED <<disk, creators, broken>>
    BY <1>5 DEF Steps, CopyFile, CopyFails, UpdateObject, UpdateFails, Query, NextSize, NextFile,
                making
  <2> QED
    BY <2>1 DEF Inv, MakingInv, Writing
<1>6. CASE UNCHANGED vars
  BY <1>6 DEF vars, Inv, MakingInv, Writing, File, Name
<1> QED
  BY <1>1, <1>2, <1>3, <1>4, <1>5, <1>6, MakeMaking DEF Next

LEMMA StepWhole == ASSUME Inv, [Next]_vars PROVE UploadedWhole'
<1>1. CASE CopyFile
  <2> SUFFICES ASSUME ~broken PROVE \A o \in Object : bucket'[o] # "part"
    BY <1>1 DEF CopyFile, making, UploadedWhole
  <2>1. \A f \in Names : disk[f] # "part"
    BY <1>1 DEF CopyFile, Inv, MakingInv, Writing
  <2>2. disk[Name(size, next)] # "part"
    BY <2>1, NameType DEF Inv, TypeOK
  <2> QED
    BY <1>1, <2>2 DEF CopyFile, Inv, TypeOK, UploadedWhole
<1>2. CASE Prepare
  BY <1>2 DEF Prepare, Inv, UploadedWhole
<1>3. CASE Make
  BY <1>3 DEF Make, Stat, CreateFile, GivesUp, WriteFile, cloud, Inv, UploadedWhole
<1>4. CASE Interrupt \/ SetNotifications \/ Measure \/ FunctionRuns
  BY <1>4 DEF Interrupt, SetNotifications, Measure, FunctionRuns, making, cloud, Inv, UploadedWhole
<1>5. CASE CopyFails \/ UpdateObject \/ UpdateFails \/ Query
  BY <1>5 DEF CopyFails, UpdateObject, UpdateFails, Query, making, cloud, Inv, UploadedWhole
<1>6. CASE UNCHANGED vars
  BY <1>6 DEF vars, Inv, UploadedWhole
<1> QED
  BY <1>1, <1>2, <1>3, <1>4, <1>5, <1>6 DEF Next, Steps
-----------------------------------------------------------------------------
(***************************************************************************)
(* Log entries and results.                                                *)
(***************************************************************************)

LEMMA StepLogs == ASSUME Inv, [Next]_vars PROVE QueryInv' /\ OwnLogs'
<1>1. CASE Query
  <2>1. \A o \in found' : o[1] = size
    BY <1>1 DEF Query, NewEntries, Matches, Inv, QueryInv
  <2>2. OwnLogs'
    BY <1>1, <2>1 DEF Query, Inv, OwnLogs
  <2>3. QueryInv'
    BY <1>1, <2>1 DEF Query, NextSize, QueryInv
  <2> QED
    BY <2>2, <2>3
<1>2. CASE UpdateObject \/ UpdateFails
  BY <1>2 DEF UpdateObject, UpdateFails, Inv, QueryInv, OwnLogs
<1>3. CASE CopyFile \/ CopyFails
  BY <1>3 DEF CopyFile, CopyFails, NextFile, NextSize, Inv, QueryInv, OwnLogs
<1>4. CASE Prepare \/ SetNotifications \/ Interrupt
  BY <1>4 DEF Prepare, SetNotifications, Interrupt, Inv, QueryInv, OwnLogs
<1>5. CASE Make \/ FunctionRuns
  BY <1>5 DEF Make, FunctionRuns, Inv, QueryInv, OwnLogs
<1>6. CASE Measure
  BY <1>6 DEF Measure, QueryInv, OwnLogs
<1>7. CASE UNCHANGED vars
  BY <1>7 DEF vars, Inv, QueryInv, OwnLogs
<1> QED
  BY <1>1, <1>2, <1>3, <1>4, <1>5, <1>6, <1>7 DEF Next, Steps

LEMMA Inductive == Spec => []Inv
<1>1. Inv /\ [Next]_vars => Inv'
  BY StepType, StepMaking, StepWhole, StepLogs DEF Inv
<1> QED
  BY InitInv, <1>1, PTL DEF Spec

\* For any number of goroutines that make the same files: unless a run was interrupted
\* or a write failed, no file is uploaded in part.
THEOREM Whole == Spec => []UploadedWhole
<1>1. Inv => UploadedWhole
  BY DEF Inv
<1> QED
  BY Inductive, <1>1, PTL

\* However late the functions of other sizes and runs log: the time of a size is from
\* functions of that size.
THEOREM Own == Spec => []OwnLogs
<1>1. Inv => OwnLogs
  BY DEF Inv
<1> QED
  BY Inductive, <1>1, PTL
=============================================================================
