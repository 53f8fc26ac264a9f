------------------------- MODULE AkesodDaemonProofs -------------------------
(***************************************************************************)
(* Theorems about AkesodDaemon, for every set of objects, every choice of  *)
(* adverse conditions and every number of key updates.                     *)
(***************************************************************************)
EXTENDS AkesodDaemon, TLAPS

(***************************************************************************)
(* Type correctness, whatever the environment does.                        *)
(***************************************************************************)
LEMMA MessageType ==
  /\ Trigger \in Message /\ Other \in Message
  /\ \A n \in Nat : Update(n) \in Message
<1>1. Trigger \in Message
  BY DEF Trigger, Message
<1>2. Other \in Message
  BY DEF Other, Message
<1>3. ASSUME NEW n \in Nat PROVE Update(n) \in Message
  BY DEF Update, Message
<1> QED BY <1>1, <1>2, <1>3

LEMMA InitType == Init => TypeOK
<1> SUFFICES ASSUME Init PROVE TypeOK
  OBVIOUS
<1>1. pc \in Steps /\ tree \in Epoch /\ stage \in Epoch
  BY DEF Init, Steps, Epoch
<1>2. old_key \in Nat /\ new_key \in Nat /\ published \in Nat
  BY DEF Init
<1>3. announced \in BOOLEAN /\ subscribed \in BOOLEAN
  BY DEF Init
<1>4. todo \subseteq Objects /\ key \in [Objects -> Nat] /\ workers \subseteq Worker /\ doomed \in BOOLEAN
  BY DEF Init
<1>5. pending \subseteq Message /\ handed \subseteq Message /\ twice \subseteq Message
  BY DEF Init
<1> QED BY <1>1, <1>2, <1>3, <1>4, <1>5 DEF TypeOK

LEMMA StepType == TypeOK /\ [Next]_vars => TypeOK'
<1> SUFFICES ASSUME TypeOK, [Next]_vars PROVE TypeOK'
  OBVIOUS
<1> USE DEF TypeOK, Steps, Epoch, files, memory, topic, inbox
<1>1. CASE Start
  BY <1>1 DEF Start, PublishSetup, Subscribe
<1>2. CASE Crash
  BY <1>2 DEF Crash, Exit
<1>3. CASE Restart
  BY <1>3 DEF Restart
<1>4. CASE PublishUpdate
  <2>1. published + 1 \in Nat /\ Update(published + 1) \in Message
    BY MessageType
  <2> QED BY <1>4, <2>1 DEF PublishUpdate, Publish
<1>5. CASE PublishOther
  BY <1>5, MessageType DEF PublishOther, Publish
<1>6. ASSUME NEW m \in pending, Callback(m) PROVE TypeOK'
  BY <1>6 DEF Callback
<1>7. ASSUME NEW m \in handed, Handle(m) PROVE TypeOK'
  <2>0. m \in Message /\ m.epoch \in Nat
    BY DEF Message
  <2>1. CASE SkipTrigger(m)
    BY <2>1 DEF SkipTrigger, Take
  <2>2. CASE ProcessUpdate(m)
    BY <2>0, <2>2 DEF ProcessUpdate, Take, Applies
  <2>3. CASE RejectUpdate(m)
    BY <2>3 DEF RejectUpdate, Exit
  <2> QED BY <1>7, <2>1, <2>2, <2>3 DEF Handle
<1>8. CASE Apply
  <2>1. CASE RemoveTree \/ SaveTree \/ RemoveStageKey \/ SaveStageKey
    BY <2>1 DEF RemoveTree, SaveTree, RemoveStageKey, SaveStageKey
  <2>2. CASE Notify \/ NotifyFails \/ FirstEnds \/ EndRound
    BY <2>2 DEF Notify, NotifyFails, FirstEnds, EndRound
  <2>3. ASSUME NEW o \in Objects, StartFirst(o) \/ StartNext(o) PROVE TypeOK'
    <3>1. \A alone \in BOOLEAN : [obj |-> o, old |-> old_key, new |-> new_key, alone |-> alone] \in Worker
      BY DEF Worker
    <3> QED BY <2>3, <3>1 DEF StartFirst, StartNext, Starts
  <2> QED BY <1>8, <2>1, <2>2, <2>3 DEF Apply
<1>9. ASSUME NEW w \in workers, Work(w) PROVE TypeOK'
  <2>1. w.obj \in Objects /\ w.new \in Nat
    BY DEF Worker
  <2>2. CASE RotateObject(w)
    BY <2>1, <2>2 DEF RotateObject, Ends
  <2>3. CASE RotateFails(w)
    BY <2>3 DEF RotateFails, Exit
  <2>4. CASE FailsUnnoticed(w)
    BY <2>4 DEF FailsUnnoticed, Ends
  <2> QED BY <1>9, <2>2, <2>3, <2>4 DEF Work
<1>10. CASE Panic
  BY <1>10 DEF Panic, Exit
<1>11. CASE UNCHANGED vars
  BY <1>11 DEF vars
<1> QED BY <1>1, <1>2, <1>3, <1>4, <1>5, <1>6, <1>7, <1>8, <1>9, <1>10, <1>11 DEF Next

\* Every variable keeps its type in every behaviour, whatever the environment does.
THEOREM TypeCorrect == Spec => []TypeOK
  BY InitType, StepType, PTL DEF Spec

-----------------------------------------------------------------------------
(***************************************************************************)
(* The files, at every point where the process may be killed.  Applying    *)
(* is the part of the main loop between a message and the end of its       *)
(* round; what the two files and the two keys are at each of its steps is  *)
(* what a crash there leaves behind.  Workers of an earlier round may run  *)
(* at any of them, under keys that were saved before.                      *)
(***************************************************************************)
Saving == {"remove_tree", "save_tree", "remove_stage", "save_stage"}
Round == {"notify", "rotate", "first"}
Applying == Saving \cup Round

FilesInv ==
  /\ pc \in Applying => old_key < new_key /\ new_key <= published
  /\ pc = "remove_tree" => tree # NoFile /\ new_key = tree + 1
  /\ pc \in {"remove_tree", "save_tree", "remove_stage"} => stage = old_key
  /\ pc \in {"remove_stage", "save_stage"} \cup Round => tree = new_key
  /\ pc = "save_stage" => stage = NoFile
  /\ pc \in Round => stage = new_key
  /\ stage = NoFile => tree > 0

WorkersInv == \A w \in workers : w.old < w.new /\ w.new <= IF pc = "save_stage" THEN old_key ELSE stage

MessagesInv == \A m \in pending \cup handed : m.kind = "update" => m.epoch <= published

Inv == /\ TypeOK
       /\ OneFileRemains
       /\ SavedBeforeUsed
       /\ FilesInv
       /\ WorkersInv
       /\ MessagesInv

\* What the members' waiting for a round to be over adds: an update is published only
\* when no worker runs, and none starts under a key but the last that was published.
PacedInv ==
  "burst" \notin Allowed =>
    /\ IF tree = NoFile THEN stage < published ELSE published <= tree + 1
    /\ pc \in Applying => new_key = published
    /\ \A w \in workers : pc \notin Saving /\ tree = published /\ w.new = published

\* Of one object, between the rounds and in them.
RoundInv ==
  /\ ~doomed
  /\ pc # "first" => workers = {}
  /\ pc \in {"off", "publish", "subscribe", "recv"} => \A o \in Objects : key[o] = stage /\ key[o] = tree
  /\ pc \in Saving \cup {"notify"} => \A o \in Objects : key[o] = old_key
  /\ pc = "rotate" => \/ todo = Objects /\ \A o \in Objects : key[o] = old_key
                      \/ todo = {} /\ \A o \in Objects : key[o] = new_key
  /\ pc = "first" => /\ todo = {}
                     /\ \A w \in workers : w.alone /\ w.old = old_key /\ w.new = new_key
                     /\ \A o \in Objects : key[o] = IF workers = {} THEN new_key ELSE old_key

LEMMA InitInv == Init => Inv /\ PacedInv
<1> SUFFICES ASSUME Init PROVE Inv /\ PacedInv
  OBVIOUS
<1> QED BY InitType
        DEF Inv, PacedInv, Init, OneFileRemains, SavedBeforeUsed, FilesInv, WorkersInv, MessagesInv,
            NoFile, Applying, Saving, Round

\* Types of what the steps below compute with.
LEMMA Numbers ==
  ASSUME TypeOK
  PROVE  /\ tree \in Nat \cup {-1} /\ stage \in Nat \cup {-1}
         /\ old_key \in Nat /\ new_key \in Nat /\ published \in Nat
         /\ key \in [Objects -> Nat] /\ \A o \in Objects : key[o] \in Nat
         /\ \A w \in workers : w.obj \in Objects /\ w.old \in Nat /\ w.new \in Nat
         /\ \A m \in pending \cup handed : m.epoch \in Nat
  BY DEF TypeOK, Epoch, NoFile, Worker, Message

\* The exit of the process, at any step.
LEMMA ExitInv == ASSUME Inv, PacedInv, TypeOK', Exit PROVE Inv' /\ PacedInv'
<1> USE DEF Exit, files, topic
<1>1. Inv'
  BY DEF Inv, OneFileRemains, SavedBeforeUsed, FilesInv, WorkersInv, MessagesInv, Applying, Saving, Round
<1>2. PacedInv'
  BY DEF PacedInv, Applying, Saving, Round
<1> QED BY <1>1, <1>2

\* The main goroutine does not save the files, or stays where it is.
StaysPut == pc' = pc \/ (pc \notin Saving /\ pc' \notin Applying) \/ (pc \in Round /\ pc' \in Round)

\* A step that leaves alone the files, the objects and the keys in memory, starts no
\* worker, and stays outside the saving of the files or where it is.
LEMMA QuietInv ==
  ASSUME Inv, PacedInv, TypeOK', MessagesInv',
         UNCHANGED <<tree, stage, key, old_key, new_key>>, workers' \subseteq workers,
         StaysPut,
         published' = published \/ (published' = published + 1 /\ pc' = pc),
         "burst" \notin Allowed /\ published' # published =>
           tree # NoFile /\ published <= tree /\ workers = {} /\ pc \notin Applying
  PROVE  Inv' /\ PacedInv'
<1>0. published' \in Nat /\ new_key \in Nat /\ published \in Nat /\ published <= published' /\ tree \in Nat \cup {-1}
  BY Numbers DEF Inv, TypeOK
<1>1. FilesInv'
  BY <1>0 DEF Inv, FilesInv, StaysPut, Applying, Saving, Round
<1>2. WorkersInv'
  BY DEF Inv, WorkersInv, StaysPut, Applying, Saving, Round
<1>3. PacedInv'
  BY <1>0 DEF PacedInv, StaysPut, Applying, Saving, Round, NoFile
<1> QED BY <1>1, <1>2, <1>3 DEF Inv, OneFileRemains, SavedBeforeUsed

\* The four file operations.
LEMMA SavingInv ==
  ASSUME Inv, PacedInv, TypeOK', RemoveTree \/ SaveTree \/ RemoveStageKey \/ SaveStageKey
  PROVE  Inv' /\ PacedInv'
<1> USE DEF FilesInv, WorkersInv, Applying, Saving, Round, NoFile, files, memory, topic, inbox
<1>0. /\ tree \in Nat \cup {-1} /\ stage \in Nat \cup {-1}
      /\ old_key \in Nat /\ new_key \in Nat /\ published \in Nat
      /\ \A o \in Objects : key[o] \in Nat
      /\ \A w \in workers : w.old \in Nat /\ w.new \in Nat
  BY Numbers DEF Inv
<1>1. UNCHANGED <<pending, handed, published, old_key, new_key, key, workers>> /\ MessagesInv'
  BY DEF Inv, RemoveTree, SaveTree, RemoveStageKey, SaveStageKey, MessagesInv
<1>2. OneFileRemains' /\ SavedBeforeUsed'
  BY <1>0 DEF Inv, RemoveTree, SaveTree, RemoveStageKey, SaveStageKey, OneFileRemains, SavedBeforeUsed
<1>3. FilesInv'
  BY <1>0 DEF Inv, RemoveTree, SaveTree, RemoveStageKey, SaveStageKey
<1>4. WorkersInv'
  BY <1>0 DEF Inv, RemoveTree, SaveTree, RemoveStageKey, SaveStageKey
<1>5. PacedInv'
  BY <1>0 DEF Inv, PacedInv, RemoveTree, SaveTree, RemoveStageKey, SaveStageKey
<1> QED BY <1>1, <1>2, <1>3, <1>4, <1>5 DEF Inv

LEMMA StartsInv ==
  ASSUME Inv, PacedInv, TypeOK', NEW o \in Objects, StartFirst(o) \/ StartNext(o)
  PROVE  Inv' /\ PacedInv'
<1>1. PICK alone \in BOOLEAN : /\ Starts(o, alone)
                               /\ pc' \in {"first", "rotate"}
  BY DEF StartFirst, StartNext, Starts
<1>2. /\ pc = "rotate"
      /\ workers' = workers \cup {[obj |-> o, old |-> old_key, new |-> new_key, alone |-> alone]}
      /\ UNCHANGED <<tree, stage, key, old_key, new_key, published, pending, handed>>
  BY <1>1 DEF Starts, files, topic, inbox
<1>3. old_key < new_key /\ tree = new_key /\ stage = new_key
  BY <1>2 DEF Inv, FilesInv, Applying, Saving, Round
<1>4. FilesInv' /\ MessagesInv'
  BY <1>1, <1>2 DEF Inv, FilesInv, MessagesInv, Applying, Saving, Round
<1>5. WorkersInv'
  <2>1. new_key \in Nat
    BY Numbers DEF Inv
  <2> QED BY <1>1, <1>2, <1>3, <2>1 DEF Inv, WorkersInv
<1>6. PacedInv'
  BY <1>1, <1>2, <1>3 DEF PacedInv, Applying, Saving, Round
<1> QED BY <1>2, <1>4, <1>5, <1>6 DEF Inv, OneFileRemains, SavedBeforeUsed

LEMMA RotateInv ==
  ASSUME Inv, PacedInv, TypeOK', NEW w \in workers, RotateObject(w)
  PROVE  Inv' /\ PacedInv'
<1>1. /\ key' = [key EXCEPT ![w.obj] = w.new] /\ workers' \subseteq workers
      /\ UNCHANGED <<pc, tree, stage, old_key, new_key, published, pending, handed>>
  BY DEF RotateObject, Ends, files, topic, inbox
<1>2. /\ key \in [Objects -> Nat] /\ w.obj \in Objects /\ w.new \in Nat
      /\ tree \in Nat \cup {-1} /\ stage \in Nat \cup {-1} /\ old_key \in Nat /\ new_key \in Nat
  BY Numbers DEF Inv
<1>3. (stage # NoFile => w.new <= stage) /\ (tree # NoFile => w.new <= tree)
  <2>1. CASE pc = "save_stage"
    BY <1>2, <2>1 DEF Inv, WorkersInv, FilesInv, SavedBeforeUsed, Applying, Saving, Round, NoFile
  <2>2. CASE pc # "save_stage"
    BY <1>2, <2>2 DEF Inv, WorkersInv, SavedBeforeUsed, NoFile
  <2> QED BY <2>1, <2>2
<1>4. SavedBeforeUsed'
  <2>1. ASSUME NEW o \in Objects PROVE key'[o] = w.new \/ key'[o] = key[o]
    BY <1>1, <1>2
  <2> QED BY <1>1, <1>3, <2>1 DEF Inv, SavedBeforeUsed
<1>5. FilesInv' /\ WorkersInv' /\ MessagesInv' /\ PacedInv'
  BY <1>1 DEF Inv, FilesInv, WorkersInv, MessagesInv, PacedInv, Applying, Saving, Round
<1> QED BY <1>1, <1>4, <1>5 DEF Inv, OneFileRemains

LEMMA ProcessInv ==
  ASSUME Inv, PacedInv, TypeOK', NEW m \in handed, ProcessUpdate(m)
  PROVE  Inv' /\ PacedInv'
<1>1. /\ stage # NoFile /\ tree # NoFile /\ m.epoch = tree + 1 /\ m.epoch <= published
      /\ old_key' = stage /\ new_key' = tree + 1 /\ pc = "recv" /\ pc' = "remove_tree"
      /\ UNCHANGED <<tree, stage, key, published, pending, workers>> /\ handed' \subseteq handed
  BY DEF Inv, ProcessUpdate, Applies, Take, MessagesInv, files, topic
<1>2. tree \in Nat /\ stage \in Nat /\ published \in Nat /\ stage <= tree
  BY <1>1, Numbers DEF Inv, SavedBeforeUsed, NoFile
<1>3. MessagesInv' /\ WorkersInv'
  BY <1>1 DEF Inv, MessagesInv, WorkersInv
<1>4. FilesInv'
  BY <1>1, <1>2 DEF FilesInv, Applying, Saving, Round, NoFile
<1>5. PacedInv'
  BY <1>1, <1>2 DEF PacedInv, Applying, Saving, Round, NoFile
<1> QED BY <1>1, <1>3, <1>4, <1>5 DEF Inv, OneFileRemains, SavedBeforeUsed

LEMMA StepInv == Inv /\ PacedInv /\ [Next]_vars => Inv' /\ PacedInv'
<1> SUFFICES ASSUME Inv, PacedInv, [Next]_vars PROVE Inv' /\ PacedInv'
  OBVIOUS
<1>0. TypeOK'
  BY StepType DEF Inv
<1>1. CASE Start \/ Restart \/ UNCHANGED vars
  <2>1. /\ UNCHANGED <<tree, stage, key, old_key, new_key, workers, published, pending, handed>>
        /\ StaysPut
    BY <1>1 DEF Start, PublishSetup, Subscribe, Restart, vars, StaysPut, Applying, Saving, Round, files, memory, topic, inbox
  <2>2. MessagesInv'
    BY <2>1 DEF Inv, MessagesInv
  <2> QED BY <1>0, <2>1, <2>2, QuietInv
<1>2. CASE PublishUpdate
  <2>1. /\ StaysPut /\ UNCHANGED <<pc, tree, stage, key, old_key, new_key, workers, handed>>
        /\ published' = published + 1
        /\ pending' \subseteq pending \cup {Update(published + 1)}
        /\ "burst" \notin Allowed => Idle /\ stage = published
    BY <1>2 DEF PublishUpdate, Publish, StaysPut, files, memory
  <2>2. \A m \in pending \cup handed : m.kind = "update" => m.epoch <= published /\ m.epoch \in Nat
    BY Numbers DEF Inv, MessagesInv
  <2>3. published \in Nat /\ tree \in Nat \cup {-1}
    BY Numbers DEF Inv
  <2>4. MessagesInv'
    BY <2>1, <2>2, <2>3 DEF MessagesInv, Update
  <2>5. "burst" \notin Allowed => tree # NoFile /\ published <= tree /\ workers = {} /\ pc \notin Applying
    BY <2>1, <2>3 DEF Inv, PacedInv, SavedBeforeUsed, Idle, Applying, Saving, Round, NoFile
  <2> QED BY <1>0, <2>1, <2>4, <2>5, QuietInv
<1>3. CASE PublishOther
  <2>1. /\ StaysPut /\ UNCHANGED <<pc, tree, stage, key, old_key, new_key, workers, published, handed>>
        /\ pending' \subseteq pending \cup {Trigger, Other}
    BY <1>3 DEF PublishOther, Publish, StaysPut, files, memory, topic
  <2>2. MessagesInv'
    BY <2>1 DEF Inv, MessagesInv, Trigger, Other
  <2> QED BY <1>0, <2>1, <2>2, QuietInv
<1>4. ASSUME NEW m \in pending, Callback(m) PROVE Inv' /\ PacedInv'
  <2>1. /\ StaysPut /\ UNCHANGED <<pc, tree, stage, key, old_key, new_key, workers, published>>
        /\ pending' \subseteq pending /\ handed' = handed \cup {m}
    BY <1>4 DEF Callback, StaysPut, files, memory, topic
  <2>2. MessagesInv'
    BY <2>1 DEF Inv, MessagesInv
  <2> QED BY <1>0, <2>1, <2>2, QuietInv
<1>5. ASSUME NEW m \in handed, SkipTrigger(m) PROVE Inv' /\ PacedInv'
  <2>1. /\ StaysPut /\ UNCHANGED <<pc, tree, stage, key, old_key, new_key, workers, published, pending>>
        /\ handed' \subseteq handed
    BY <1>5 DEF SkipTrigger, Take, StaysPut, files, memory, topic
  <2>2. MessagesInv'
    BY <2>1 DEF Inv, MessagesInv
  <2> QED BY <1>0, <2>1, <2>2, QuietInv
<1>6. CASE Notify \/ NotifyFails \/ FirstEnds \/ EndRound
  <2>1. /\ UNCHANGED <<tree, stage, key, old_key, new_key, workers, published, pending, handed>>
        /\ StaysPut
    BY <1>6 DEF Notify, NotifyFails, FirstEnds, EndRound, StaysPut, Applying, Saving, Round, files, memory, topic, inbox
  <2>2. MessagesInv'
    BY <2>1 DEF Inv, MessagesInv
  <2> QED BY <1>0, <2>1, <2>2, QuietInv
<1>7. ASSUME NEW w \in workers, FailsUnnoticed(w) PROVE Inv' /\ PacedInv'
  <2>1. /\ StaysPut /\ UNCHANGED <<pc, tree, stage, key, old_key, new_key, published, pending, handed>>
        /\ workers' \subseteq workers
    BY <1>7 DEF FailsUnnoticed, Ends, StaysPut, files, topic, inbox
  <2>2. MessagesInv'
    BY <2>1 DEF Inv, MessagesInv
  <2> QED BY <1>0, <2>1, <2>2, QuietInv
<1>8. CASE Crash \/ Panic \/ (\E m \in handed : RejectUpdate(m)) \/ \E w \in workers : RotateFails(w)
  BY <1>0, <1>8, ExitInv DEF Crash, Panic, RejectUpdate, RotateFails
<1>9. CASE Start \/ Apply
  BY <1>0, <1>1, <1>6, <1>9, SavingInv, StartsInv, Zenon DEF Apply
<1>10. ASSUME NEW m \in handed, Handle(m) PROVE Inv' /\ PacedInv'
  BY <1>0, <1>5, <1>8, <1>10, ProcessInv DEF Handle
<1>11. ASSUME NEW w \in workers, Work(w) PROVE Inv' /\ PacedInv'
  BY <1>0, <1>7, <1>8, <1>11, RotateInv DEF Work
<1> QED BY <1>1, <1>2, <1>3, <1>4, <1>8, <1>9, <1>10, <1>11 DEF Next

LEMMA Inductive == Spec => [](Inv /\ PacedInv)
  BY InitInv, StepInv, PTL DEF Spec

\* The state that the next start reads is never without both of its files, wherever
\* the process was killed.
THEOREM OneFile == Spec => []OneFileRemains
<1>1. Inv => OneFileRemains
  BY DEF Inv
<1> QED BY <1>1, Inductive, PTL

\* No object is ever under a key that was not saved first, and the stage key is never
\* ahead of its tree, wherever the process was killed.
THEOREM Saved == Spec => []SavedBeforeUsed
<1>1. Inv => SavedBeforeUsed
  BY DEF Inv
<1> QED BY <1>1, Inductive, PTL

\* Whatever Pub/Sub repeats or reorders, an update that is applied leads forward.
THEOREM LeadForward == Spec => UpdatesLeadForward
<1>1. ASSUME Inv, [Next]_vars, tree' # tree, tree' # NoFile
      PROVE  stage < tree' /\ tree' <= published
  <2>1. pc = "save_tree" /\ tree' = new_key
    BY <1>1 DEF Next, Start, PublishSetup, Subscribe, Crash, Exit, Restart, PublishUpdate, PublishOther,
                Callback, Handle, SkipTrigger, ProcessUpdate, RejectUpdate, Apply, RemoveTree, SaveTree,
                RemoveStageKey, SaveStageKey, Notify, NotifyFails, StartFirst, StartNext, Starts, FirstEnds,
                EndRound, Work, RotateObject, RotateFails, FailsUnnoticed, Ends, Panic, vars, files
  <2> QED BY <1>1, <2>1 DEF Inv, FilesInv, Applying, Saving
<1>2. Inv /\ [Next]_vars => [(tree' # tree /\ tree' # NoFile) => (stage < tree' /\ tree' <= published)]_vars
  BY <1>1
<1> QED BY <1>2, Inductive, PTL DEF Spec, UpdatesLeadForward

-----------------------------------------------------------------------------
(***************************************************************************)
(* AkesodDaemon implements KeyRotation: the group's key is the stage key   *)
(* that is saved, or while it is not there the one before the tree's.      *)
(***************************************************************************)
GroupEpoch == IF stage = NoFile THEN tree - 1 ELSE stage

LEMMA InitRefines == Init => Rotation!Init
  BY DEF Init, Rotation!Init, NoFile

\* A worker rotates to a key of the group, and to its present one unless rounds overlap.
LEMMA RotateRefines ==
  ASSUME Inv, PacedInv, NEW w \in workers, RotateObject(w)
  PROVE  Rotation!Rotate(w.obj)
<1>1. /\ w.obj \in Objects /\ w.old < w.new /\ key[w.obj] = w.old
      /\ key' = [key EXCEPT ![w.obj] = w.new] /\ stage' = stage /\ tree' = tree
  BY Numbers DEF Inv, RotateObject, WorkersInv, files
<1>2. /\ tree \in Nat \cup {-1} /\ stage \in Nat \cup {-1} /\ old_key \in Nat /\ new_key \in Nat
      /\ w.old \in Nat /\ w.new \in Nat /\ published \in Nat
  BY Numbers DEF Inv
<1>3. w.new <= GroupEpoch
  <2>1. CASE pc = "save_stage"
    BY <1>2, <2>1 DEF Inv, WorkersInv, FilesInv, SavedBeforeUsed, GroupEpoch, Applying, Saving, Round, NoFile
  <2>2. CASE pc # "save_stage"
    BY <1>2, <2>2 DEF Inv, WorkersInv, GroupEpoch, NoFile
  <2> QED BY <2>1, <2>2
<1>4. "burst" \in Allowed \/ w.new = GroupEpoch
  <2> SUFFICES ASSUME "burst" \notin Allowed PROVE w.new = GroupEpoch
    OBVIOUS
  <2>1. pc # "save_stage" /\ tree = published /\ w.new = published
    BY DEF PacedInv, Saving
  <2>2. stage \in Nat /\ w.new <= stage /\ stage <= tree
    BY <1>2, <2>1 DEF Inv, WorkersInv, SavedBeforeUsed, NoFile
  <2> QED BY <1>2, <2>1, <2>2 DEF GroupEpoch, NoFile
<1>5. GroupEpoch \in Int /\ w.new \in 0..GroupEpoch
  BY <1>2, <1>3 DEF GroupEpoch
<1> QED BY <1>1, <1>4, <1>5 DEF Rotation!Rotate, GroupEpoch

LEMMA StepRefines == Inv /\ PacedInv /\ [Next]_vars => [Rotation!Next]_Rotation!vars
<1> SUFFICES ASSUME Inv, PacedInv, [Next]_vars PROVE [Rotation!Next]_Rotation!vars
  OBVIOUS
<1> USE DEF files, memory, topic, inbox
<1>0. /\ tree \in Nat \cup {-1} /\ stage \in Nat \cup {-1}
      /\ old_key \in Nat /\ new_key \in Nat /\ key \in [Objects -> Nat]
  BY Numbers DEF Inv
<1>1. ASSUME GroupEpoch' = GroupEpoch, key' = key PROVE [Rotation!Next]_Rotation!vars
  BY <1>1 DEF Rotation!vars, GroupEpoch
<1>2. ASSUME GroupEpoch \in Nat, GroupEpoch' \in Nat, GroupEpoch < GroupEpoch', key' = key
      PROVE  [Rotation!Next]_Rotation!vars
  BY <1>2 DEF Rotation!Next, Rotation!NextKey, GroupEpoch
<1>3. CASE RemoveStageKey
  <2>1. stage = old_key /\ tree = new_key /\ old_key < new_key /\ stage' = NoFile /\ tree' = tree /\ key' = key
    BY <1>3 DEF Inv, RemoveStageKey, FilesInv, Applying, Saving
  <2>2. GroupEpoch = old_key /\ GroupEpoch' = new_key - 1
    BY <1>0, <2>1 DEF GroupEpoch, NoFile
  <2>3. CASE old_key = new_key - 1
    BY <1>1, <2>1, <2>2, <2>3
  <2>4. CASE old_key < new_key - 1
    BY <1>0, <1>2, <2>1, <2>2, <2>4
  <2> QED BY <1>0, <2>1, <2>3, <2>4
<1>4. CASE SaveStageKey
  <2>1. /\ tree = new_key /\ old_key < new_key /\ stage' = new_key /\ tree' = tree /\ key' = key
        /\ stage \in Nat => stage <= tree
    BY <1>0, <1>4 DEF Inv, SaveStageKey, FilesInv, Applying, Saving, SavedBeforeUsed, NoFile
  <2>2. GroupEpoch' = new_key /\ GroupEpoch \in Nat /\ GroupEpoch <= new_key
    BY <1>0, <2>1 DEF GroupEpoch, NoFile
  <2>3. CASE GroupEpoch = new_key
    BY <1>1, <2>1, <2>2, <2>3
  <2>4. CASE GroupEpoch < new_key
    BY <1>0, <1>2, <2>1, <2>2, <2>4
  <2> QED BY <1>0, <2>2, <2>3, <2>4
<1>5. ASSUME key' = key, stage' = stage, tree' = tree \/ stage # NoFile
      PROVE  [Rotation!Next]_Rotation!vars
  BY <1>1, <1>5 DEF GroupEpoch
<1>6. CASE RemoveTree \/ SaveTree
  <2>1. key' = key /\ stage' = stage /\ stage = old_key
    BY <1>6 DEF Inv, RemoveTree, SaveTree, FilesInv
  <2> QED BY <1>0, <1>5, <2>1 DEF NoFile
<1>7. CASE Notify \/ NotifyFails \/ FirstEnds \/ EndRound \/ (\E o \in Objects : StartFirst(o) \/ StartNext(o))
  BY <1>5, <1>7 DEF Notify, NotifyFails, FirstEnds, EndRound, StartFirst, StartNext, Starts
<1>8. ASSUME NEW w \in workers, Work(w) PROVE [Rotation!Next]_Rotation!vars
  <2>1. CASE RotateObject(w)
    BY <2>1, RotateRefines, Numbers DEF Inv, Rotation!Next
  <2>2. CASE RotateFails(w) \/ FailsUnnoticed(w)
    BY <1>5, <2>2 DEF RotateFails, FailsUnnoticed, Exit
  <2> QED BY <1>8, <2>1, <2>2 DEF Work
<1>9. CASE \/ Start \/ Crash \/ Panic \/ Restart \/ PublishUpdate \/ PublishOther \/ UNCHANGED vars
           \/ (\E m \in pending : Callback(m)) \/ (\E m \in handed : Handle(m))
  BY <1>5, <1>9
     DEF Start, PublishSetup, Subscribe, Crash, Panic, Exit, Restart, PublishUpdate, PublishOther, vars,
         Callback, Handle, SkipTrigger, ProcessUpdate, RejectUpdate
<1> QED BY <1>3, <1>4, <1>6, <1>7, <1>8, <1>9 DEF Next, Apply

\* Through crashes, panics, redeliveries and bad messages, the bucket sees nothing but
\* the rotations of KeyRotation.
THEOREM Refinement == Spec => ImplementsKeyRotation
<1>1. Spec => Rotation!Init /\ [][Rotation!Next]_Rotation!vars
  BY InitRefines, StepRefines, Inductive, PTL DEF Spec
<1> QED BY <1>1 DEF ImplementsKeyRotation, Rotation!Spec

-----------------------------------------------------------------------------
(***************************************************************************)
(* A bucket of one object, without a crash.                                *)
(***************************************************************************)
OneObject == \A o, p \in Objects : o = p

LEMMA InitRound == Init => RoundInv
  BY DEF Init, RoundInv, Applying, Saving, Round

LEMMA StartsRound ==
  ASSUME Inv, RoundInv, OneObject, NEW o \in Objects, StartFirst(o) \/ StartNext(o)
  PROVE  RoundInv'
<1>1. PICK alone \in BOOLEAN : Starts(o, alone)
  BY DEF StartFirst, StartNext
<1>2. /\ pc = "rotate" /\ o \in todo /\ workers = {} /\ todo' = todo \ {o}
      /\ workers' = {[obj |-> o, old |-> old_key, new |-> new_key, alone |-> alone]}
      /\ UNCHANGED <<old_key, new_key, doomed, key>>
  BY <1>1 DEF Starts, RoundInv, files, topic, inbox
<1>3. todo = Objects /\ todo' = {} /\ \A p \in Objects : key[p] = old_key
  BY <1>2 DEF RoundInv, OneObject
<1>4. pc' = "first" /\ alone = TRUE
  <2>1. StartFirst(o)
    BY <1>3 DEF StartNext
  <2>2. Starts(o, TRUE) /\ pc' = "first"
    BY <2>1 DEF StartFirst
  <2>3. workers' = {[obj |-> o, old |-> old_key, new |-> new_key, alone |-> TRUE]}
    BY <1>2, <2>2 DEF Starts
  <2>4. [obj |-> o, old |-> old_key, new |-> new_key, alone |-> TRUE]
          = [obj |-> o, old |-> old_key, new |-> new_key, alone |-> alone]
    BY <1>2, <2>3
  <2> QED BY <2>2, <2>4
<1>5. workers' # {} /\ \A w \in workers' : w.alone /\ w.old = old_key /\ w.new = new_key
  BY <1>2, <1>4
<1>6. ~doomed /\ \A p \in Objects : key'[p] = old_key
  BY <1>2, <1>3 DEF RoundInv
<1> QED BY <1>2, <1>3, <1>4, <1>5, <1>6 DEF RoundInv, Saving

LEMMA RotateRound ==
  ASSUME Inv, RoundInv, OneObject, NEW w \in workers, RotateObject(w)
  PROVE  RoundInv'
<1>1. pc = "first" /\ w \in Worker
  BY DEF RoundInv, Inv, TypeOK
<1>2. w.alone /\ w.new = new_key /\ w.obj \in Objects /\ key \in [Objects -> Nat]
  BY <1>1, Numbers DEF RoundInv, Inv, TypeOK
<1>3. \A v \in workers : v = w
  <2>1. ASSUME NEW v \in workers PROVE v = w
    <3>1. v \in Worker /\ v.obj = w.obj /\ v.old = w.old /\ v.new = w.new /\ v.alone = w.alone
      BY <1>1 DEF RoundInv, Inv, TypeOK, Worker, OneObject
    <3> QED BY <1>1, <3>1 DEF Worker
  <2> QED BY <2>1
<1>4. /\ workers' = {} /\ doomed' = FALSE
      /\ key' = [key EXCEPT ![w.obj] = w.new]
      /\ UNCHANGED <<pc, todo, old_key, new_key>>
  BY <1>2, <1>3 DEF RotateObject, Ends, RoundInv
<1>5. \A o \in Objects : key'[o] = new_key
  BY <1>2, <1>4 DEF OneObject
<1> QED BY <1>1, <1>4, <1>5 DEF RoundInv, Saving

LEMMA StepRound == Inv /\ RoundInv /\ OneObject /\ "crash" \notin Allowed /\ [Next]_vars => RoundInv'
<1> SUFFICES ASSUME Inv, RoundInv, OneObject, "crash" \notin Allowed, [Next]_vars PROVE RoundInv'
  OBVIOUS
<1> USE DEF files, memory, topic, inbox, Saving
<1>1. CASE Start \/ Restart \/ PublishUpdate \/ PublishOther \/ UNCHANGED vars
           \/ (\E m \in pending : Callback(m))
  BY <1>1 DEF RoundInv, Start, PublishSetup, Subscribe, Restart, PublishUpdate, PublishOther, vars, Callback
<1>2. ASSUME NEW m \in handed, Handle(m) PROVE RoundInv'
  <2>1. CASE SkipTrigger(m)
    BY <2>1 DEF RoundInv, SkipTrigger, Take
  <2>2. CASE ProcessUpdate(m)
    BY <2>2 DEF RoundInv, ProcessUpdate, Take
  <2>3. CASE RejectUpdate(m)
    BY <2>3 DEF RoundInv, RejectUpdate, Exit
  <2> QED BY <1>2, <2>1, <2>2, <2>3 DEF Handle
<1>3. CASE RemoveTree \/ SaveTree \/ RemoveStageKey \/ SaveStageKey
  BY <1>3 DEF RoundInv, RemoveTree, SaveTree, RemoveStageKey, SaveStageKey
<1>4. CASE Notify \/ NotifyFails
  BY <1>4 DEF RoundInv, Notify, NotifyFails
<1>5. CASE FirstEnds
  BY <1>5 DEF FirstEnds, RoundInv
<1>6. CASE EndRound
  BY <1>6, ObjectsAssumption DEF EndRound, RoundInv, Inv, FilesInv, Round, Applying
<1>7. ASSUME NEW w \in workers, Work(w) PROVE RoundInv'
  <2>1. pc = "first" /\ w.obj \in Objects /\ key[w.obj] = w.old
    BY <1>7, Numbers DEF RoundInv, Inv
  <2> QED BY <1>7, <2>1, RotateRound DEF Work, RotateFails, FailsUnnoticed
<1>8. CASE Panic
  BY <1>8 DEF Panic, RoundInv
<1> QED BY <1>1, <1>2, <1>3, <1>4, <1>5, <1>6, <1>7, <1>8, StartsRound, Zenon DEF Next, Apply, Crash

\* Whenever the process waits, the object of a bucket that has only one is under the
\* saved key, unless the process was killed: the loop waits for its worker, and
\* messages that make it exit do so before anything changed.
THEOREM NothingLeft == "crash" \notin Allowed /\ OneObject /\ Spec => []WaitsWithNothingLeft
<1>1. RoundInv => WaitsWithNothingLeft
  BY DEF RoundInv, WaitsWithNothingLeft
<1>2. ASSUME "crash" \notin Allowed, OneObject PROVE Inv /\ RoundInv /\ [Next]_vars => RoundInv'
  BY <1>2, StepRound
<1>3. ASSUME "crash" \notin Allowed, OneObject PROVE Spec => []WaitsWithNothingLeft
  BY <1>1, <1>2, <1>3, InitRound, Inductive, PTL DEF Spec
<1> QED BY <1>3
-----------------------------------------------------------------------------
(***************************************************************************)
(* A bucket of at most two objects, whose members wait for a round to be   *)
(* over.  The second object's worker runs on while the loop goes back to   *)
(* its channel, and its end is a panic: that nothing is left behind rests  *)
(* on no update being there that makes the process exit before.            *)
(***************************************************************************)
TwoObjects == \A o, p, q \in Objects : o = p \/ p = q \/ o = q
Orderly == "crash" \notin Allowed /\ "redeliver" \notin Allowed /\ "burst" \notin Allowed /\ "other" \notin Allowed

\* A key update waits alone, and while there is one no round is in progress.
LastUpdateInv ==
  /\ \A m \in pending \cup handed : /\ m.kind # "other"
                                    /\ m.kind = "update" => m.epoch = published /\ stage < published
  /\ \A m \in pending \cap handed : m.kind # "update"
  /\ (pc \in Applying \/ workers # {} \/ doomed) => \A m \in pending \cup handed : m.kind # "update"

\* One worker runs at a time, and the panic that follows the last finds no other.
OneWorkerInv ==
  /\ \A v, w \in workers : v = w
  /\ \A w \in workers : /\ w.old = old_key /\ w.new = new_key /\ w.obj \notin todo
                        /\ w.alone <=> pc = "first"
                        /\ \/ pc = "first"
                           \/ pc = "rotate" /\ todo = {}
                           \/ pc = "recv" /\ stage = new_key /\ tree = new_key
  /\ doomed => workers = {} /\ (pc = "recv" \/ (pc = "rotate" /\ todo = {}))

At(o) == \E w \in workers : w.obj = o

\* Where every object is, between the rounds and in them.
ObjectsInv ==
  \A o \in Objects :
    /\ pc \in {"off", "publish", "subscribe", "recv"} =>
         IF At(o) THEN key[o] = old_key ELSE key[o] = stage /\ key[o] = tree
    /\ pc \in Saving \cup {"notify"} => key[o] = old_key
    /\ pc \in {"rotate", "first"} => key[o] = IF o \in todo \/ At(o) THEN old_key ELSE new_key

PairInv == LastUpdateInv /\ OneWorkerInv /\ ObjectsInv

LEMMA InitPair == Init => PairInv
  BY DEF Init, PairInv, LastUpdateInv, OneWorkerInv, ObjectsInv, At, Applying, Saving, Round

\* A step that moves messages alone.
LEMMA MessagesPair ==
  ASSUME PairInv, LastUpdateInv',
         UNCHANGED <<pc, tree, stage, old_key, new_key, todo, workers, doomed, key>>
  PROVE  PairInv'
<1>1. OneWorkerInv'
  BY DEF PairInv, OneWorkerInv
<1>2. ObjectsInv'
  BY DEF PairInv, ObjectsInv, At
<1> QED BY <1>1, <1>2 DEF PairInv

\* An exit that finds every object under the saved key.
LEMMA ExitPair ==
  ASSUME PairInv, Exit, \A o \in Objects : key[o] = stage /\ key[o] = tree
  PROVE  PairInv'
<1> USE DEF Exit, files, topic
<1>1. LastUpdateInv'
  BY DEF PairInv, LastUpdateInv, Applying, Saving, Round
<1>2. OneWorkerInv'
  BY DEF OneWorkerInv
<1>3. ObjectsInv'
  BY DEF ObjectsInv, At, Saving
<1> QED BY <1>1, <1>2, <1>3 DEF PairInv

\* The next start: nothing is in progress, before and after.
LEMMA StartPair == ASSUME PairInv, Start \/ Restart PROVE PairInv'
<1>1. /\ pc \in {"off", "publish", "subscribe"} /\ pc' \in {"subscribe", "recv"}
      /\ UNCHANGED <<tree, stage, old_key, new_key, todo, workers, doomed, key, published, pending, handed>>
  BY DEF Start, PublishSetup, Subscribe, Restart, files, memory, topic, inbox
<1>2. workers = {} /\ ~doomed
  BY <1>1 DEF PairInv, OneWorkerInv
<1>3. LastUpdateInv'
  BY <1>1, <1>2 DEF PairInv, LastUpdateInv, Applying, Saving, Round
<1>4. OneWorkerInv'
  BY <1>1, <1>2 DEF OneWorkerInv
<1>5. ObjectsInv'
  BY <1>1, <1>2 DEF PairInv, ObjectsInv, At, Saving
<1> QED BY <1>3, <1>4, <1>5 DEF PairInv

LEMMA PublishPair == ASSUME Inv, PairInv, Orderly, PublishUpdate PROVE PairInv'
<1>1. /\ pc \in {"subscribe", "recv"} /\ workers = {} /\ ~doomed /\ stage = published
      /\ published' = published + 1
      /\ pending' \subseteq pending \cup {Update(published + 1)}
      /\ UNCHANGED <<pc, tree, stage, old_key, new_key, todo, workers, doomed, key, handed>>
  BY DEF Orderly, PublishUpdate, Publish, Idle, files, memory
<1>2. published \in Nat
  BY Numbers DEF Inv
<1>3. \A m \in pending \cup handed : m.kind # "update" /\ m.kind # "other"
  BY <1>1, <1>2 DEF PairInv, LastUpdateInv
<1>4. Update(published + 1).kind = "update" /\ Update(published + 1).epoch = published + 1
  BY DEF Update
<1>5. LastUpdateInv'
  BY <1>1, <1>2, <1>3, <1>4 DEF LastUpdateInv, Applying, Saving, Round
<1> QED BY <1>1, <1>5, MessagesPair

LEMMA CallbackPair == ASSUME Inv, PairInv, Orderly, NEW m \in pending, Callback(m) PROVE PairInv'
<1>1. /\ pending' = pending \ {m} /\ handed' = handed \cup {m}
      /\ UNCHANGED <<pc, tree, stage, old_key, new_key, todo, workers, doomed, key, published>>
  BY DEF Orderly, Callback, files, memory, topic
<1>2. LastUpdateInv'
  BY <1>1 DEF PairInv, LastUpdateInv
<1> QED BY <1>1, <1>2, MessagesPair

\* A trigger is all that arrives while the second worker runs.
LEMMA OtherPair == ASSUME PairInv, Orderly, PublishOther PROVE PairInv'
<1>1. /\ pending' \subseteq pending \cup {Trigger}
      /\ UNCHANGED <<pc, tree, stage, old_key, new_key, todo, workers, doomed, key, published, handed>>
  BY DEF Orderly, PublishOther, Publish, files, memory, topic
<1>2. Trigger.kind = "update_key"
  BY DEF Trigger
<1>3. LastUpdateInv'
  BY <1>1, <1>2 DEF PairInv, LastUpdateInv
<1> QED BY <1>1, <1>3, MessagesPair

LEMMA HandlePair == ASSUME Inv, PairInv, NEW m \in handed, Handle(m) PROVE PairInv'
<1>0. m \in Message /\ pending \subseteq Message /\ handed \subseteq Message
  BY DEF Inv, TypeOK
<1>1. CASE SkipTrigger(m)
  <2>1. /\ handed' \subseteq handed /\ pending' = pending
        /\ UNCHANGED <<pc, tree, stage, old_key, new_key, todo, workers, doomed, key, published>>
    BY <1>1 DEF SkipTrigger, Take, files, memory, topic
  <2>2. LastUpdateInv'
    BY <2>1 DEF PairInv, LastUpdateInv
  <2> QED BY <2>1, <2>2, MessagesPair
<1>2. ASSUME pc = "recv", m.kind = "update"
      PROVE  /\ workers = {} /\ ~doomed
             /\ \A o \in Objects : key[o] = stage /\ key[o] = tree
  <2>1. workers = {} /\ ~doomed
    BY <1>2 DEF PairInv, LastUpdateInv
  <2> QED BY <1>2, <2>1 DEF PairInv, ObjectsInv, At
<1>3. CASE ProcessUpdate(m)
  <2>1. /\ pc = "recv" /\ m.kind = "update" /\ pc' = "remove_tree" /\ old_key' = stage
        /\ handed' = handed \ {m}
        /\ UNCHANGED <<stage, workers, doomed, key, pending, published>>
    BY <1>3 DEF ProcessUpdate, Take, Applies, files, topic
  <2>2. workers' = {} /\ ~doomed' /\ \A o \in Objects : key'[o] = old_key'
    BY <1>2, <2>1
  <2>3. ASSUME NEW n \in pending' \cup handed' PROVE n.kind # "update" /\ n.kind # "other"
    <3>1. n \in pending \cup handed /\ n.kind # "other"
      BY <2>1 DEF PairInv, LastUpdateInv
    <3>2. CASE n.kind = "update"
      <4>1. n.epoch = m.epoch /\ n.kind = m.kind
        BY <2>1, <3>1, <3>2 DEF PairInv, LastUpdateInv
      <4>2. n = m
        BY <1>0, <3>1, <4>1 DEF Message
      <4> QED BY <2>1, <3>2, <4>2 DEF PairInv, LastUpdateInv
    <3> QED BY <3>1, <3>2
  <2>4. LastUpdateInv'
    BY <2>3 DEF LastUpdateInv
  <2>5. OneWorkerInv'
    BY <2>2 DEF OneWorkerInv
  <2>6. ObjectsInv'
    BY <2>1, <2>2 DEF ObjectsInv, Saving
  <2> QED BY <2>4, <2>5, <2>6 DEF PairInv
<1>4. CASE RejectUpdate(m)
  <2>1. pc = "recv" /\ Exit /\ m.kind \in {"update", "other"}
    BY <1>0, <1>4 DEF RejectUpdate, Message
  <2>2. m.kind = "update"
    BY <2>1 DEF PairInv, LastUpdateInv
  <2> QED BY <1>2, <2>1, <2>2, ExitPair
<1> QED BY <1>1, <1>3, <1>4 DEF Handle

\* The files are saved and the round prepared while nothing else goes on.
LEMMA SavingPair ==
  ASSUME Inv, PairInv, RemoveTree \/ SaveTree \/ RemoveStageKey \/ SaveStageKey \/ Notify
  PROVE  PairInv'
<1>1. /\ pc \in Saving \cup {"notify"}
      /\ \/ pc' \in Saving \cup {"notify"}
         \/ pc' = "rotate" /\ todo' = Objects
      /\ UNCHANGED <<old_key, new_key, workers, doomed, key, published, pending, handed>>
  BY DEF RemoveTree, SaveTree, RemoveStageKey, SaveStageKey, Notify, Saving, files, memory, topic, inbox
<1>2. workers = {} /\ ~doomed
  BY <1>1 DEF PairInv, OneWorkerInv, Saving
<1>3. \A m \in pending \cup handed : m.kind # "update" /\ m.kind # "other"
  BY <1>1 DEF PairInv, LastUpdateInv, Applying, Round
<1>4. LastUpdateInv'
  BY <1>1, <1>3 DEF LastUpdateInv
<1>5. OneWorkerInv'
  BY <1>1, <1>2 DEF OneWorkerInv
<1>6. \A o \in Objects : key'[o] = old_key'
  BY <1>1 DEF PairInv, ObjectsInv
<1>7. ObjectsInv'
  BY <1>1, <1>2, <1>6 DEF ObjectsInv, Saving
<1> QED BY <1>4, <1>5, <1>7 DEF PairInv

\* The handler that returns ends with no worker running.
LEMMA NotifyFailsPair == ASSUME PairInv, NotifyFails PROVE PairInv'
<1>1. /\ pc = "notify" /\ pc' = "ended"
      /\ UNCHANGED <<stage, workers, doomed, published, pending, handed>>
  BY DEF NotifyFails, files, memory, topic, inbox
<1>2. workers = {} /\ ~doomed
  BY <1>1 DEF PairInv, OneWorkerInv
<1>3. LastUpdateInv'
  BY <1>1, <1>2 DEF PairInv, LastUpdateInv, Applying, Saving, Round
<1>4. OneWorkerInv'
  BY <1>1, <1>2 DEF OneWorkerInv
<1>5. ObjectsInv'
  BY <1>1 DEF ObjectsInv, Saving
<1> QED BY <1>3, <1>4, <1>5 DEF PairInv

\* A worker is started when no other runs; the second is the last.
LEMMA StartsPair ==
  ASSUME Inv, PairInv, TwoObjects, NEW o \in Objects, StartFirst(o) \/ StartNext(o)
  PROVE  PairInv'
<1>1. PICK alone \in BOOLEAN :
        /\ Starts(o, alone)
        /\ \/ alone = TRUE /\ todo = Objects /\ pc' = "first"
           \/ alone = FALSE /\ todo # Objects /\ pc' = "rotate"
  BY DEF StartFirst, StartNext, Starts
<1> DEFINE new == [obj |-> o, old |-> old_key, new |-> new_key, alone |-> alone]
<1>2. /\ pc = "rotate" /\ o \in todo /\ todo' = todo \ {o} /\ workers' = workers \cup {new}
      /\ UNCHANGED <<tree, stage, old_key, new_key, doomed, key, published, pending, handed>>
  BY <1>1 DEF Starts, files, topic, inbox
<1>3. workers = {} /\ ~doomed
  BY <1>2 DEF PairInv, OneWorkerInv
<1>4. workers' = {new} /\ new.obj = o /\ new.old = old_key /\ new.new = new_key /\ new.alone = alone
  BY <1>2, <1>3
<1> HIDE DEF new
<1>5. alone = FALSE => todo' = {}
  <2> SUFFICES ASSUME alone = FALSE, NEW p \in todo' PROVE FALSE
    OBVIOUS
  <2>1. todo \subseteq Objects
    BY DEF Inv, TypeOK
  <2>2. PICK q \in Objects : q \notin todo
    BY <1>1, <2>1
  <2> QED BY <1>2, <2>1, <2>2 DEF TwoObjects
<1>6. \A m \in pending \cup handed : m.kind # "update" /\ m.kind # "other"
  BY <1>2 DEF PairInv, LastUpdateInv, Applying, Round
<1>7. LastUpdateInv'
  BY <1>2, <1>6 DEF LastUpdateInv
<1>8. OneWorkerInv'
  BY <1>1, <1>2, <1>3, <1>4, <1>5 DEF OneWorkerInv
<1>9. ObjectsInv'
  <2> SUFFICES ASSUME NEW p \in Objects
               PROVE  key'[p] = IF p \in todo' \/ At(p)' THEN old_key' ELSE new_key'
    BY <1>1 DEF ObjectsInv, Saving
  <2>1. At(p)' <=> p = o
    BY <1>4 DEF At
  <2>2. ~At(p)
    BY <1>3 DEF At
  <2>3. key[p] = IF p \in todo THEN old_key ELSE new_key
    BY <1>2, <2>2 DEF PairInv, ObjectsInv
  <2> QED BY <1>2, <2>1, <2>3
<1> QED BY <1>7, <1>8, <1>9 DEF PairInv

\* The loop goes on after the first file, and to its next message after the last.
LEMMA LoopPair == ASSUME Inv, PairInv, FirstEnds \/ EndRound PROVE PairInv'
<1>1. /\ UNCHANGED <<tree, stage, old_key, new_key, todo, workers, doomed, key, published, pending, handed>>
      /\ \/ pc = "first" /\ pc' = "rotate" /\ \A w \in workers : ~w.alone
         \/ pc = "rotate" /\ pc' = "recv" /\ todo = {}
  BY DEF FirstEnds, EndRound, files, memory, topic, inbox
<1>2. tree = new_key /\ stage = new_key
  BY <1>1 DEF Inv, FilesInv, Round
<1>3. \A m \in pending \cup handed : m.kind # "update" /\ m.kind # "other"
  BY <1>1 DEF PairInv, LastUpdateInv, Applying, Round
<1>4. LastUpdateInv'
  BY <1>1, <1>3 DEF LastUpdateInv
<1>5. pc = "first" => workers = {} /\ ~doomed
  BY <1>1 DEF PairInv, OneWorkerInv
<1>6. OneWorkerInv'
  BY <1>1, <1>2, <1>5 DEF PairInv, OneWorkerInv
<1>7. ObjectsInv'
  <2> SUFFICES ASSUME NEW o \in Objects
               PROVE  /\ pc' = "recv" => IF At(o)' THEN key'[o] = old_key' ELSE key'[o] = stage' /\ key'[o] = tree'
                      /\ pc' = "rotate" => key'[o] = IF o \in todo' \/ At(o)' THEN old_key' ELSE new_key'
    BY <1>1 DEF ObjectsInv, Saving
  <2>1. At(o)' <=> At(o)
    BY <1>1 DEF At
  <2>2. key[o] = IF o \in todo \/ At(o) THEN old_key ELSE new_key
    BY <1>1 DEF PairInv, ObjectsInv
  <2> QED BY <1>1, <1>2, <2>1, <2>2
<1> QED BY <1>4, <1>6, <1>7 DEF PairInv

\* A worker's object is under the round's old key, so its rotation does not fail.
LEMMA WorkPair == ASSUME Inv, PairInv, NEW w \in workers, Work(w) PROVE PairInv'
<1>0. w.obj \in Objects /\ key \in [Objects -> Nat]
  BY Numbers DEF Inv
<1>1. /\ w.old = old_key /\ w.new = new_key /\ (w.alone <=> pc = "first")
      /\ \/ pc = "first"
         \/ pc = "rotate" /\ todo = {}
         \/ pc = "recv" /\ stage = new_key /\ tree = new_key
  BY DEF PairInv, OneWorkerInv
<1>2. At(w.obj) /\ \A o \in Objects : At(o) => o = w.obj
  BY DEF At, PairInv, OneWorkerInv
<1>3. key[w.obj] = w.old
  BY <1>0, <1>1, <1>2 DEF PairInv, ObjectsInv
<1>4. RotateObject(w)
  BY <1>3 DEF Work, RotateFails, FailsUnnoticed
<1>5. /\ workers' = {} /\ (doomed' => pc # "first")
      /\ key' = [key EXCEPT ![w.obj] = new_key]
      /\ UNCHANGED <<pc, tree, stage, old_key, new_key, todo, published, pending, handed>>
  <2>1. workers' = {}
    BY <1>4 DEF RotateObject, Ends, PairInv, OneWorkerInv
  <2>2. ~doomed
    BY DEF PairInv, OneWorkerInv
  <2> QED BY <1>1, <1>4, <2>1, <2>2 DEF RotateObject, Ends, files, topic, inbox
<1>6. \A m \in pending \cup handed : m.kind # "update" /\ m.kind # "other"
  BY DEF PairInv, LastUpdateInv
<1>7. LastUpdateInv'
  BY <1>5, <1>6 DEF LastUpdateInv
<1>8. OneWorkerInv'
  BY <1>1, <1>5 DEF OneWorkerInv
<1>9. ObjectsInv'
  <2> SUFFICES ASSUME NEW o \in Objects
               PROVE  /\ pc' = "recv" => key'[o] = stage' /\ key'[o] = tree'
                      /\ pc' \in {"rotate", "first"} => key'[o] = IF o \in todo' THEN old_key' ELSE new_key'
    BY <1>1, <1>5 DEF ObjectsInv, At, Saving
  <2>1. CASE o = w.obj
    <3>1. key'[o] = new_key
      BY <1>0, <1>5, <2>1
    <3>2. o \notin todo
      BY <2>1 DEF PairInv, OneWorkerInv
    <3> QED BY <1>1, <1>5, <3>1, <3>2
  <2>2. CASE o # w.obj
    <3>1. key'[o] = key[o] /\ ~At(o)
      BY <1>0, <1>2, <1>5, <2>2
    <3> QED BY <1>1, <1>5, <3>1 DEF PairInv, ObjectsInv
  <2> QED BY <2>1, <2>2
<1> QED BY <1>7, <1>8, <1>9 DEF PairInv

\* The panic comes when the loop has started every worker and the last has ended.
LEMMA PanicPair == ASSUME Inv, PairInv, Panic PROVE PairInv'
<1>1. workers = {} /\ (pc = "recv" \/ (pc = "rotate" /\ todo = {}))
  BY DEF Panic, PairInv, OneWorkerInv
<1>2. pc = "rotate" => tree = new_key /\ stage = new_key
  BY DEF Inv, FilesInv, Round
<1>3. \A o \in Objects : key[o] = stage /\ key[o] = tree
  BY <1>1, <1>2 DEF PairInv, ObjectsInv, At
<1> QED BY <1>3, ExitPair DEF Panic

LEMMA StepPair == Inv /\ PairInv /\ TwoObjects /\ Orderly /\ [Next]_vars => PairInv'
<1> SUFFICES ASSUME Inv, PairInv, TwoObjects, Orderly, [Next]_vars PROVE PairInv'
  OBVIOUS
<1>1. CASE UNCHANGED vars
  BY <1>1 DEF vars, PairInv, LastUpdateInv, OneWorkerInv, ObjectsInv, At
<1>2. CASE Apply
  <2>1. CASE \E o \in Objects : StartFirst(o) \/ StartNext(o)
    BY <2>1, StartsPair
  <2> QED BY <1>2, <2>1, SavingPair, NotifyFailsPair, LoopPair DEF Apply
<1>3. CASE Next
  <2>1. ~Crash
    BY DEF Crash, Orderly
  <2> QED BY <1>2, <1>3, <2>1, StartPair, PublishPair, CallbackPair, OtherPair, HandlePair, WorkPair, PanicPair
             DEF Next
<1> QED BY <1>1, <1>3

\* Whenever the process waits with no worker running, both objects of a bucket that
\* has two are under the saved key: the panic that ends the second worker's round
\* comes after both were rotated, if members wait for the round to be over, nothing is
\* delivered twice and no message of another form arrives.
THEOREM NothingLeftOfTwo == Orderly /\ TwoObjects /\ Spec => []WaitsWithNothingLeft
<1>1. PairInv => WaitsWithNothingLeft
  BY DEF PairInv, ObjectsInv, At, WaitsWithNothingLeft
<1>2. ASSUME Orderly, TwoObjects PROVE Inv /\ PairInv /\ [Next]_vars => PairInv'
  BY <1>2, StepPair
<1>3. ASSUME Orderly, TwoObjects PROVE Spec => []WaitsWithNothingLeft
  BY <1>1, <1>2, <1>3, InitPair, Inductive, PTL DEF Spec
<1> QED BY <1>3
=============================================================================
