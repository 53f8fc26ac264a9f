--------------------------- MODULE AkesodDaemon ---------------------------
(***************************************************************************)
(* The akesod process: from the SetupGroup message to the subscription,    *)
(* the receiver that acknowledges key updates, the main loop that applies  *)
(* them, and the two files that survive it.  The group's keys are named by *)
(* their epoch.  A round of the loop starts a worker for every object and  *)
(* waits for the first alone; the others go on while the loop takes its    *)
(* next message, and their end is a panic.  What a strategy does to one    *)
(* object is one step here, the rotation of module KeyRotation; module     *)
(* AkesoObject takes the akeso strategy apart, and module BucketFanout the *)
(* goroutines of a round.                                                  *)
(***************************************************************************)
EXTENDS Integers, FiniteSets

CONSTANTS
  Objects,      \* the names of the bucket's objects
  Allowed,      \* the adverse conditions the environment may produce
  Slots,        \* max_concurrent_updates of config.yaml
  MaxUpdates    \* bound: key updates the group's members publish

(***************************************************************************)
(* crash: the process may exit at any point;  notif_fault: a notification  *)
(* call may fail;  redeliver: Pub/Sub may deliver a message twice;  burst: *)
(* members publish without waiting for the last round to be over;  early:  *)
(* publish before the subscription exists;  other: somebody publishes a    *)
(* message that is no key update.                                          *)
(***************************************************************************)
Conditions == {"crash", "notif_fault", "redeliver", "burst", "early", "other"}

ASSUME ObjectsAssumption == Objects # {}
ASSUME AllowedAssumption == Allowed \subseteq Conditions
ASSUME SlotsAssumption == Slots \in Nat
ASSUME UpdatesAssumption == MaxUpdates \in Nat

VARIABLES
  pc,          \* where the daemon's main goroutine is; "off" when there is no process
  tree,        \* epoch of the tree in keys/state.json
  stage,       \* epoch of the key in keys/stage-key.pem
  old_key,     \* the main loop's keys for the round
  new_key,
  todo,        \* objects for which this round has not started a worker
  workers,     \* the workers that run, those of earlier rounds included
  doomed,      \* whether a goroutine is about to close errChan a second time
  key,         \* for every object, the epoch of the key it is encrypted under
  announced,   \* whether SetupGroup was published, so that members have the group
  published,   \* how many key updates the members have published
  subscribed,  \* whether the subscription exists
  pending,     \* messages of the subscription that are not acknowledged
  handed,      \* messages acknowledged by callbacks that wait to send to msgChan
  twice        \* messages Pub/Sub has delivered and kept

files == <<tree, stage>>
memory == <<old_key, new_key, todo, workers, doomed>>
topic == <<announced, published, subscribed>>
inbox == <<pending, handed, twice>>
vars == <<pc, tree, stage, old_key, new_key, todo, workers, doomed, key, announced,
          published, subscribed, pending, handed, twice>>
-----------------------------------------------------------------------------
\* A file that does not exist.
NoFile == -1
Epoch == Nat \cup {NoFile}

\* Key updates carry the epoch they lead to.  update_key asks a member for one and
\* is skipped by the daemon; other is anything whose data is no UpdateKeyMessage.
Update(n) == [kind |-> "update", epoch |-> n]
Trigger == [kind |-> "update_key", epoch |-> 0]
Other == [kind |-> "other", epoch |-> 0]
Message == [kind : {"update", "update_key", "other"}, epoch : Nat]

Steps == {"off", "publish", "subscribe", "recv", "remove_tree", "save_tree",
          "remove_stage", "save_stage", "notify", "rotate", "first", "ended"}

\* A worker has the keys of its round; alone says that it is the round's first.
Worker == [obj : Objects, old : Nat, new : Nat, alone : BOOLEAN]

TypeOK == /\ pc \in Steps
          /\ tree \in Epoch
          /\ stage \in Epoch
          /\ old_key \in Nat
          /\ new_key \in Nat
          /\ todo \subseteq Objects
          /\ workers \subseteq Worker
          /\ doomed \in BOOLEAN
          /\ key \in [Objects -> Nat]
          /\ announced \in BOOLEAN
          /\ published \in Nat
          /\ subscribed \in BOOLEAN
          /\ pending \subseteq Message
          /\ handed \subseteq Message
          /\ twice \subseteq Message

\* The first start, after setup_group has saved the tree and its stage key; users
\* have uploaded the objects under it.
Init == /\ pc = "publish"
        /\ tree = 0
        /\ stage = 0
        /\ old_key = 0
        /\ new_key = 0
        /\ todo = {}
        /\ workers = {}
        /\ doomed = FALSE
        /\ key = [o \in Objects |-> 0]
        /\ announced = FALSE
        /\ published = 0
        /\ subscribed = FALSE
        /\ pending = {}
        /\ handed = {}
        /\ twice = {}
-----------------------------------------------------------------------------
(***************************************************************************)
(* Start, exit and restart.                                                *)
(***************************************************************************)

PublishSetup == /\ pc = "publish"
                /\ announced' = TRUE
                /\ pc' = "subscribe"
                /\ UNCHANGED <<files, memory, key, published, subscribed, inbox>>

\* CreateSubscription, or the subscription that exists already.
Subscribe == /\ pc = "subscribe"
             /\ subscribed' = TRUE
             /\ pc' = "recv"
             /\ UNCHANGED <<files, memory, key, announced, published, inbox>>

\* The exit of the process: its memory, callbacks and workers go, the files stay.
Exit == /\ pc' = "off"
        /\ handed' = {}
        /\ old_key' = 0
        /\ new_key' = 0
        /\ todo' = {}
        /\ workers' = {}
        /\ doomed' = FALSE
        /\ UNCHANGED <<files, key, topic, pending, twice>>

Crash == /\ "crash" \in Allowed
         /\ pc # "off"
         /\ Exit

\* The next start, with setup_required off.
Restart == /\ pc = "off"
           /\ pc' = "subscribe"
           /\ UNCHANGED <<files, memory, key, topic, inbox>>
-----------------------------------------------------------------------------
(***************************************************************************)
(* Members, Pub/Sub and the receiver.                                      *)
(***************************************************************************)

\* A message published before the subscription exists is not delivered to it.
Publish(m) == pending' = IF subscribed THEN pending \cup {m} ELSE pending

\* The process waits for messages, and nothing of a round is left to come.
Idle == pc \in {"subscribe", "recv"} /\ workers = {} /\ ~doomed

\* A member updates the group's key.
PublishUpdate ==
  /\ announced
  /\ published < MaxUpdates
  /\ "early" \in Allowed \/ subscribed
  /\ "burst" \in Allowed \/ (Idle /\ stage = published)
  /\ published' = published + 1
  /\ Publish(Update(published + 1))
  /\ UNCHANGED <<pc, files, memory, key, announced, subscribed, handed, twice>>

\* Anybody else publishes to the topic: a trigger, or a message of another form
\* (bound: each at most once, which twice records).
PublishOther ==
  /\ announced
  /\ \E m \in {Trigger, Other} :
       /\ m = Other => "other" \in Allowed
       /\ m \notin pending \cup twice
       /\ Publish(m)
       /\ twice' = twice \cup {m}
  /\ UNCHANGED <<pc, files, memory, key, topic, handed>>

\* The receiver runs from the subscription to the exit, the end of the handler included.
Receiving == pc \notin {"off", "publish", "subscribe"}

\* A callback acknowledges its message, then sends it to msgChan.
Callback(m) ==
  /\ Receiving
  /\ m \in pending
  /\ handed' = handed \cup {m}
  /\ \/ pending' = pending \ {m} /\ UNCHANGED twice
     \/ /\ "redeliver" \in Allowed
        /\ m \notin twice
        /\ twice' = twice \cup {m}
        /\ UNCHANGED pending
  /\ UNCHANGED <<pc, files, memory, key, topic>>
-----------------------------------------------------------------------------
(***************************************************************************)
(* The main loop.                                                          *)
(***************************************************************************)

\* The main loop receives from one of the callbacks that wait to send.
Take(m) == /\ pc = "recv"
           /\ m \in handed
           /\ handed' = handed \ {m}

\* Variant: the handler returns instead of going on with the next message.
SkipTriggerReturning(m) == /\ Take(m)
                           /\ m.kind = "update_key"
                           /\ pc' = "ended"
                           /\ UNCHANGED <<files, memory, key, topic, pending, twice>>

SkipTrigger(m) == /\ Take(m)
                  /\ m.kind = "update_key"
                  /\ UNCHANGED <<pc, files, memory, key, topic, pending, twice>>

\* Variants: a missing stage key is no error; the MAC is not checked.
AppliesWithoutStageKey(m) == m.kind = "update" /\ tree # NoFile /\ m.epoch = tree + 1
AppliesWithoutMAC(m) == m.kind = "update" /\ stage # NoFile /\ tree # NoFile

\* What the round needs: both files, and a message whose MAC the tree's stage key
\* verifies, which is that of the next epoch.
Applies(m) == /\ m.kind = "update"
              /\ stage # NoFile
              /\ tree # NoFile
              /\ m.epoch = tree + 1

\* old_key is read before ProcessUpdateMessage computes the next tree.
ProcessUpdate(m) == /\ Take(m)
                    /\ Applies(m)
                    /\ old_key' = stage
                    /\ new_key' = m.epoch
                    /\ pc' = "remove_tree"
                    /\ UNCHANGED <<files, todo, workers, doomed, key, topic, pending, twice>>

\* A file that is missing, a MAC that does not verify, or data that is no update:
\* mu.Fatalf, the library's exit, or a nil dereference.
RejectUpdate(m) == /\ pc = "recv"
                   /\ m \in handed
                   /\ m.kind # "update_key"
                   /\ ~Applies(m)
                   /\ Exit

\* Variant: the stage key is not saved.
SaveTreeOnly == /\ pc = "save_tree"
                /\ tree' = new_key
                /\ pc' = "notify"
                /\ UNCHANGED <<stage, memory, key, topic, inbox>>

RemoveTree == /\ pc = "remove_tree"
              /\ tree' = NoFile
              /\ pc' = "save_tree"
              /\ UNCHANGED <<stage, memory, key, topic, inbox>>

SaveTree == /\ pc = "save_tree"
            /\ tree' = new_key
            /\ pc' = "remove_stage"
            /\ UNCHANGED <<stage, memory, key, topic, inbox>>

RemoveStageKey == /\ pc = "remove_stage"
                  /\ stage' = NoFile
                  /\ pc' = "save_stage"
                  /\ UNCHANGED <<tree, memory, key, topic, inbox>>

SaveStageKey == /\ pc = "save_stage"
                /\ stage' = new_key
                /\ pc' = "notify"
                /\ UNCHANGED <<tree, memory, key, topic, inbox>>

\* listObjects, and for akeso the new notification.
Notify == /\ pc = "notify"
          /\ todo' = Objects
          /\ pc' = "rotate"
          /\ UNCHANGED <<files, old_key, new_key, workers, doomed, key, topic, inbox>>

\* The handler returns nil; the process stays, and so do the receiver and the workers.
NotifyFails == /\ "notif_fault" \in Allowed
               /\ pc = "notify"
               /\ pc' = "ended"
               /\ UNCHANGED <<files, memory, key, topic, inbox>>

Starts(o, alone) ==
  /\ pc = "rotate"
  /\ o \in todo
  /\ Cardinality({w \in workers : w.new = new_key}) < Slots
  /\ workers' = workers \cup {[obj |-> o, old |-> old_key, new |-> new_key, alone |-> alone]}
  /\ todo' = todo \ {o}
  /\ UNCHANGED <<files, old_key, new_key, doomed, key, topic, inbox>>

\* The first file: the range over errChan waits until the worker's end closes it.
StartFirst(o) == todo = Objects /\ Starts(o, TRUE) /\ pc' = "first"

FirstEnds == /\ pc = "first"
             /\ \A w \in workers : ~w.alone
             /\ pc' = "rotate"
             /\ UNCHANGED <<files, memory, key, topic, inbox>>

\* Every further file: the range over the closed channel ends at once.
StartNext(o) == todo # Objects /\ Starts(o, FALSE) /\ UNCHANGED pc

\* Variant: the loop goes on before it has started a worker for every file.
EndRoundEarly == /\ pc = "rotate"
                 /\ pc' = "recv"
                 /\ UNCHANGED <<files, memory, key, topic, inbox>>

\* The loop takes the next message, whether or not the round's workers have ended.
EndRound == /\ pc = "rotate"
            /\ todo = {}
            /\ pc' = "recv"
            /\ UNCHANGED <<files, memory, key, topic, inbox>>
-----------------------------------------------------------------------------
(***************************************************************************)
(* The workers and the closers.                                            *)
(***************************************************************************)

\* Past the first file there is a goroutine that closes errChan again as soon as no
\* worker of the round is left, or panics in Wait when the loop has added one by then.
Ends(w) == /\ workers' = workers \ {w}
           /\ doomed' = (doomed \/ (~w.alone /\ \A v \in workers \ {w} : v.new # w.new))

\* One object, by the configured strategy: under the round's old key, or it fails.
RotateObject(w) == /\ key[w.obj] = w.old
                   /\ key' = [key EXCEPT ![w.obj] = w.new]
                   /\ Ends(w)
                   /\ UNCHANGED <<pc, files, old_key, new_key, todo, topic, inbox>>

RotateFails(w) == key[w.obj] # w.old /\ Exit

\* The worker finds the success of another worker of the round in the err they share.
FailsUnnoticed(w) == /\ key[w.obj] # w.old
                     /\ \E v \in workers \ {w} : v.new = w.new
                     /\ Ends(w)
                     /\ UNCHANGED <<pc, files, old_key, new_key, todo, key, topic, inbox>>

Work(w) == RotateObject(w) \/ RotateFails(w) \/ FailsUnnoticed(w)

\* The second close of errChan.
Panic == doomed /\ Exit
-----------------------------------------------------------------------------
Start == PublishSetup \/ Subscribe

Handle(m) == SkipTrigger(m) \/ ProcessUpdate(m) \/ RejectUpdate(m)

Apply == \/ RemoveTree
         \/ SaveTree
         \/ RemoveStageKey
         \/ SaveStageKey
         \/ Notify
         \/ NotifyFails
         \/ \E o \in Objects : StartFirst(o) \/ StartNext(o)
         \/ FirstEnds
         \/ EndRound

Next == \/ Start
        \/ Crash
        \/ Restart
        \/ PublishUpdate
        \/ PublishOther
        \/ \E m \in pending : Callback(m)
        \/ \E m \in handed : Handle(m)
        \/ Apply
        \/ \E w \in workers : Work(w)
        \/ Panic

Spec == Init /\ [][Next]_vars

\* The process is started again when it has exited, its goroutines run, and Pub/Sub
\* delivers what the subscription holds.  No member has to publish.
Fairness == /\ WF_vars(Start)
            /\ WF_vars(Restart)
            /\ \A n \in 1..MaxUpdates : WF_vars(Callback(Update(n)))
            /\ WF_vars(\E m \in handed : Handle(m))
            /\ WF_vars(Apply)
            /\ WF_vars(\E w \in workers : Work(w))
            /\ WF_vars(Panic)

FairSpec == Spec /\ Fairness
-----------------------------------------------------------------------------
(***************************************************************************)
(* Properties.                                                             *)
(***************************************************************************)

\* At every point a crash can hit, one of the two files is there: each is removed
\* and saved in turn, never both at once.
OneFileRemains == tree # NoFile \/ stage # NoFile

\* No object is encrypted under a key that is not yet saved, and the stage key is
\* never ahead of the tree it belongs to: the order of the four file operations
\* and the round, through any crash and restart.  (It may fall behind by more than
\* one: after a crash between the two saves the next update rotates from the older
\* stage key straight to its own.)
SavedBeforeUsed == /\ \A o \in Objects : /\ stage # NoFile => key[o] <= stage
                                         /\ tree # NoFile => key[o] <= tree
                   /\ (tree # NoFile /\ stage # NoFile) => stage <= tree

\* Whatever Pub/Sub delivers twice or out of order, and wherever the process was
\* killed before, an update that was published is applied only when it leads past
\* the key the objects may be under: no update is applied a second time.
UpdatesLeadForward ==
  [][(tree' # tree /\ tree' # NoFile) => (stage < tree' /\ tree' <= published)]_vars

\* When the process waits and none of its workers runs, every object is under the
\* saved key.  Of one object this holds unless the process is killed: the loop waits
\* for its worker, and messages that make the process exit do so before anything is
\* changed.  Of two it holds when in addition nothing but a trigger arrives while the
\* second worker runs, because the panic comes after both; with a third it may come before.
WaitsWithNothingLeft ==
  (pc \in {"subscribe", "recv"} /\ workers = {}) => \A o \in Objects : key[o] = stage /\ key[o] = tree

\* Every key update a member publishes is eventually applied to every object.
EveryUpdateApplied ==
  \A n \in 1..MaxUpdates : published = n ~> \A o \in Objects : key[o] >= n

\* Through crashes, redeliveries and bad messages the bucket sees nothing but the
\* rotations of KeyRotation: the key of the group moves on when its stage key is saved.
\* Rounds overlap only if members publish while one is in progress.
Rotation == INSTANCE KeyRotation WITH
              Overlap <- "burst" \in Allowed,
              epoch <- IF stage = NoFile THEN tree - 1 ELSE stage,
              content <- [o \in Objects |-> 0],
              moving <- {}
ImplementsKeyRotation == Rotation!Spec
=============================================================================
