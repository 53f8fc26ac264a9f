-------------------------- MODULE ObjectStrategies --------------------------
(***************************************************************************)
(* The strategies that rotate an object by themselves: strawman, keywrap,  *)
(* csek and cmek.  As in AkesoObject every remote call is a step of its    *)
(* own, and the daemon's calls, the users' cloud-cp and one download       *)
(* interleave between any two of them.  Which strategy a bucket uses is    *)
(* the configuration's choice and never changes.                           *)
(*                                                                         *)
(* A key is its epoch.  A tag names what an encryption from scratch draws  *)
(* (nonce, GCM tag and, for keywrap, data key): the metadata fits the      *)
(* payload when both carry the same one.  csek and cmek keep none, the     *)
(* storage service encrypts for them.                                      *)
(***************************************************************************)
EXTENDS Naturals

CONSTANTS
  Objects,      \* the names of the bucket's objects
  Strategies,   \* the strategies the bucket may be configured with
  Allowed,      \* the adverse conditions the environment may produce
  MaxEpoch,     \* bound: key updates the daemon processes
  MaxCommands   \* bound: uploads and rotations the users' cloud-cp begins

(***************************************************************************)
(* overlap: the next round may start while calls of the last one run;      *)
(* crash: the daemon's process may exit at any point;  upload_race: users  *)
(* upload an object while a call is at work on it;  manual: an operator    *)
(* rotates an object with cloud-cp.                                        *)
(***************************************************************************)
Conditions == {"overlap", "crash", "upload_race", "manual"}

ASSUME ObjectsAssumption == Objects # {}
ASSUME StrategiesAssumption == Strategies \subseteq {"strawman", "keywrap", "csek", "cmek"}
ASSUME AllowedAssumption == Allowed \subseteq Conditions
ASSUME BoundsAssumption == MaxEpoch \in Nat /\ MaxCommands \in Nat

VARIABLES
  strategy,   \* the bucket's strategy
  store,      \* for every object its generation, metadata and payload
  up,         \* whether the daemon's process runs
  epoch,      \* the epoch of the group's key
  todo,       \* the objects whose call of this round is still to start
  calls,      \* update calls in progress, the daemon's and cloud-cp's
  reader,     \* one user's download
  drawn,      \* how many encryptions were made from scratch
  commands,   \* how many uploads and rotations the users' cloud-cp has begun
  uploaded    \* for every object, what the last completed upload wrote

daemon == <<up, epoch, todo>>
users == <<reader, commands, uploaded>>
vars == <<strategy, store, up, epoch, todo, calls, reader, drawn, commands, uploaded>>
-----------------------------------------------------------------------------
Metadata == [key : Nat, tag : Nat]
Payload == [content : Nat, tag : Nat]
StoredObject == [gen : Nat, md : Metadata, payload : Payload]

\* The tag an encryption under the bucket's strategy leaves in metadata and payload.
Tag(n) == IF strategy \in {"strawman", "keywrap"} THEN n ELSE 0

\* A write of the whole object makes a new generation.
PutObject(o, key, content, tag) ==
  store' = [store EXCEPT ![o] = [gen |-> store[o].gen + 1,
                                 md |-> [key |-> key, tag |-> tag],
                                 payload |-> [content |-> content, tag |-> tag]]]

\* An update call.  id tells the processes of cloud-cp apart, the daemon's is 0;
\* fields not yet set have Go's zero value.
Call == [obj : Objects, by : {"akesod", "cloud-cp"}, id : Nat, old_key : Nat, new_key : Nat,
         pc : {"begin", "read", "write"}, gen : Nat, tag : Nat, content : Nat]
NewCall(o, by, id, old, new) ==
  [obj |-> o, by |-> by, id |-> id, old_key |-> old, new_key |-> new, pc |-> "begin",
   gen |-> 0, tag |-> 0, content |-> 0]

Reader == [pc : {"none", "payload", "content", "mismatch", "garbled"}, obj : Objects,
           gen : Nat, tag : Nat, seen : Nat]
NoReader == [pc |-> "none", obj |-> CHOOSE o \in Objects : TRUE, gen |-> 0, tag |-> 0, seen |-> 0]

TypeOK == /\ strategy \in Strategies
          /\ store \in [Objects -> StoredObject]
          /\ up \in BOOLEAN
          /\ epoch \in Nat
          /\ todo \subseteq Objects
          /\ calls \subseteq Call
          /\ reader \in Reader
          /\ drawn \in Nat
          /\ commands \in Nat
          /\ uploaded \in [Objects -> Nat]

\* Every object was uploaded with cloud-cp under the key of epoch 0.
Init == /\ strategy \in Strategies
        /\ store = [o \in Objects |-> [gen |-> 1, md |-> [key |-> 0, tag |-> Tag(1)],
                                       payload |-> [content |-> 1, tag |-> Tag(1)]]]
        /\ up = TRUE
        /\ epoch = 0
        /\ todo = {}
        /\ calls = {}
        /\ reader = NoReader
        /\ drawn = 1
        /\ commands = 0
        /\ uploaded = [o \in Objects |-> 1]
-----------------------------------------------------------------------------
(***************************************************************************)
(* The daemon.                                                             *)
(***************************************************************************)

\* A key update was applied to the group's key, and the objects are listed.
StartRound == /\ up
              /\ todo = {}
              /\ epoch < MaxEpoch
              /\ "overlap" \in Allowed \/ calls = {}
              /\ epoch' = epoch + 1
              /\ todo' = Objects
              /\ UNCHANGED <<strategy, store, up, calls, drawn, users>>

\* Variant: the old and the new key change places.
StartCallSwapped(o) == /\ o \in todo
                       /\ todo' = todo \ {o}
                       /\ calls' = calls \cup {NewCall(o, "akesod", 0, epoch, epoch - 1)}
                       /\ UNCHANGED <<strategy, store, up, epoch, drawn, users>>

\* The goroutine of one file.
StartCall(o) == /\ o \in todo
                /\ todo' = todo \ {o}
                /\ calls' = calls \cup {NewCall(o, "akesod", 0, epoch - 1, epoch)}
                /\ UNCHANGED <<strategy, store, up, epoch, drawn, users>>

\* The daemon's exit ends its round and all its calls.  A remote call that fails, the
\* timeout of csek's included, ends a process as a crash does.
ProcessExits == /\ up' = FALSE
                /\ todo' = {}
                /\ calls' = {d \in calls : d.by # "akesod"}

Crash == /\ "crash" \in Allowed
         /\ up
         /\ ProcessExits
         /\ UNCHANGED <<strategy, store, epoch, drawn, users>>

Restart == /\ ~up
           /\ up' = TRUE
           /\ UNCHANGED <<strategy, store, epoch, todo, calls, drawn, users>>
-----------------------------------------------------------------------------
(***************************************************************************)
(* What all update calls have in common.                                   *)
(***************************************************************************)

\* The call has read something and goes on to its next remote call.
Advance(c, d) == /\ calls' = (calls \ {c}) \cup {d}
                 /\ UNCHANGED <<strategy, store, daemon, drawn, users>>

\* The call returns nil, having written the object.
Return(c) == /\ calls' = calls \ {c}
             /\ UNCHANGED <<strategy, daemon, users>>

\* The call returns an error, and its process exits by mu.Fatalf.
Fail(c) == /\ \/ c.by = "akesod" /\ ProcessExits
              \/ c.by = "cloud-cp" /\ calls' = calls \ {c} /\ UNCHANGED <<up, todo>>
           /\ UNCHANGED <<strategy, store, epoch, drawn, users>>

Unchanged(c) == store[c.obj].gen = c.gen
-----------------------------------------------------------------------------
(***************************************************************************)
(* StrawmanUpdate: StrawmanDownload, then StrawmanUpload.                  *)
(***************************************************************************)
StrawmanAttrs(c) ==
  /\ c.pc = "begin"
  /\ Advance(c, [c EXCEPT !.pc = "read", !.gen = store[c.obj].gen, !.tag = store[c.obj].md.tag])

\* GetObject of the generation Attrs returned, and GcmDecrypt under old_key.
StrawmanPayload(c) ==
  /\ c.pc = "read"
  /\ LET opens == /\ Unchanged(c)
                  /\ store[c.obj].md.key = c.old_key
                  /\ store[c.obj].payload.tag = c.tag
     IN \/ opens /\ Advance(c, [c EXCEPT !.pc = "write", !.content = store[c.obj].payload.content])
        \/ ~opens /\ Fail(c)

\* The upload has no precondition.
StrawmanPut(c) ==
  /\ c.pc = "write"
  /\ PutObject(c.obj, c.new_key, c.content, Tag(drawn + 1))
  /\ drawn' = drawn + 1
  /\ Return(c)

StrawmanUpdate(c) == StrawmanAttrs(c) \/ StrawmanPayload(c) \/ StrawmanPut(c)
-----------------------------------------------------------------------------
(***************************************************************************)
(* KeyWrapUpdate.                                                          *)
(***************************************************************************)

\* Attrs, and the data key unwrapped under old_key.
KeyWrapAttrs(c) ==
  /\ c.pc = "begin"
  /\ \/ /\ store[c.obj].md.key = c.old_key
        /\ Advance(c, [c EXCEPT !.pc = "write", !.gen = store[c.obj].gen, !.tag = store[c.obj].md.tag])
     \/ store[c.obj].md.key # c.old_key /\ Fail(c)

\* Variants: the metadata is written without the generation-match condition; by a
\* write of the whole object; or with the wrapped key for its only field.
KeyWrapMetadataUnguarded(c) ==
  /\ c.pc = "write"
  /\ store' = [store EXCEPT ![c.obj].md = [key |-> c.new_key, tag |-> c.tag]]
  /\ UNCHANGED drawn
  /\ Return(c)
KeyWrapMetadataRewriting(c) ==
  /\ c.pc = "write"
  /\ Unchanged(c)
  /\ PutObject(c.obj, c.new_key, store[c.obj].payload.content, c.tag)
  /\ UNCHANGED drawn
  /\ Return(c)

KeyWrapMetadataBare(c) ==
  /\ c.pc = "write"
  /\ Unchanged(c)
  /\ store' = [store EXCEPT ![c.obj].md = [key |-> c.new_key]]
  /\ UNCHANGED drawn
  /\ Return(c)

\* UpdateObjectMetadata with the metadata that was read, the data key wrapped anew:
\* the payload and its generation stay.
KeyWrapMetadata(c) ==
  /\ c.pc = "write"
  /\ \/ /\ Unchanged(c)
        /\ store' = [store EXCEPT ![c.obj].md = [key |-> c.new_key, tag |-> c.tag]]
        /\ UNCHANGED drawn
        /\ Return(c)
     \/ ~Unchanged(c) /\ Fail(c)

KeyWrapUpdate(c) == KeyWrapAttrs(c) \/ KeyWrapMetadata(c)
-----------------------------------------------------------------------------
(***************************************************************************)
(* RotateCSEKKey.                                                          *)
(***************************************************************************)
CsekAttrs(c) ==
  /\ c.pc = "begin"
  /\ Advance(c, [c EXCEPT !.pc = "write", !.gen = store[c.obj].gen])

\* The copy of the object onto itself: the service decrypts under old_key and
\* encrypts under new_key, if source and destination are of the generation read.
CsekRewrite(c) ==
  /\ c.pc = "write"
  /\ LET opens == Unchanged(c) /\ store[c.obj].md.key = c.old_key
     IN \/ /\ opens
           /\ PutObject(c.obj, c.new_key, store[c.obj].payload.content, Tag(drawn))
           /\ UNCHANGED drawn
           /\ Return(c)
        \/ ~opens /\ Fail(c)

RotateCSEKKey(c) == CsekAttrs(c) \/ CsekRewrite(c)
-----------------------------------------------------------------------------
(***************************************************************************)
(* UpdateCMEKKey.  Its keys are names of KMS keys: those that cloud-cp     *)
(* passes are, while the daemon passes the group's AES keys, which are the *)
(* name of no object's key.                                                *)
(***************************************************************************)

\* NewReader: the stream is of the object as it is now.
CmekOpen(c) ==
  /\ c.pc = "begin"
  /\ Advance(c, [c EXCEPT !.pc = "read", !.content = store[c.obj].payload.content])

\* Attrs, and the name of the key it reports.
CmekAttrs(c) ==
  /\ c.pc = "read"
  /\ LET expected == c.by = "cloud-cp" /\ store[c.obj].md.key = c.old_key
     IN \/ expected /\ Advance(c, [c EXCEPT !.pc = "write", !.gen = store[c.obj].gen])
        \/ ~expected /\ Fail(c)

\* Variant: the condition is set on a handle the writer does not use.
CmekPutUnguarded(c) ==
  /\ c.pc = "write"
  /\ PutObject(c.obj, c.new_key, c.content, Tag(drawn))
  /\ UNCHANGED drawn
  /\ Return(c)

CmekPut(c) ==
  /\ c.pc = "write"
  /\ \/ /\ Unchanged(c)
        /\ PutObject(c.obj, c.new_key, c.content, Tag(drawn))
        /\ UNCHANGED drawn
        /\ Return(c)
     \/ ~Unchanged(c) /\ Fail(c)

UpdateCMEKKey(c) == CmekOpen(c) \/ CmekAttrs(c) \/ CmekPut(c)

Update(c) == \/ strategy = "strawman" /\ StrawmanUpdate(c)
             \/ strategy = "keywrap" /\ KeyWrapUpdate(c)
             \/ strategy = "csek" /\ RotateCSEKKey(c)
             \/ strategy = "cmek" /\ UpdateCMEKKey(c)
-----------------------------------------------------------------------------
(***************************************************************************)
(* The users' cloud-cp.                                                    *)
(***************************************************************************)
AtWork(o) == \E c \in calls : c.obj = o

\* An upload, under the current key or the one before it, without a precondition.
Upload(o) ==
  /\ commands < MaxCommands
  /\ "upload_race" \in Allowed \/ ~AtWork(o)
  /\ \E key \in {k \in 0..epoch : k + 1 >= epoch} : PutObject(o, key, drawn + 1, Tag(drawn + 1))
  /\ drawn' = drawn + 1
  /\ commands' = commands + 1
  /\ uploaded' = [uploaded EXCEPT ![o] = drawn + 1]
  /\ UNCHANGED <<strategy, daemon, calls, reader>>

\* cloud-cp -key OLD -updateKey NEW: an operator takes the object to the current key.
ManualUpdate(o) ==
  /\ "manual" \in Allowed
  /\ commands < MaxCommands
  /\ store[o].md.key < epoch
  /\ calls' = calls \cup {NewCall(o, "cloud-cp", commands + 1, store[o].md.key, epoch)}
  /\ commands' = commands + 1
  /\ UNCHANGED <<strategy, store, daemon, drawn, reader, uploaded>>

\* A download with the object's key: Attrs, which unwraps (keywrap) or compares
\* (cmek) the key; the key of the others is needed for the payload.
ReaderAttrs(o) ==
  /\ reader.pc = "none"
  /\ reader' = [pc |-> "payload", obj |-> o, gen |-> store[o].gen, tag |-> store[o].md.tag,
                seen |-> uploaded[o]]
  /\ UNCHANGED <<strategy, store, daemon, calls, drawn, commands, uploaded>>

\* GetObject of the generation of Attrs.
ReaderPayload ==
  /\ reader.pc = "payload"
  /\ LET object == store[reader.obj]
     IN reader' = [reader EXCEPT !.pc = IF object.gen # reader.gen THEN "mismatch"
                                        ELSE IF object.payload.tag = reader.tag THEN "content"
                                        ELSE "garbled"]
  /\ UNCHANGED <<strategy, store, daemon, calls, drawn, commands, uploaded>>

ReaderDone ==
  /\ reader.pc \in {"content", "mismatch", "garbled"}
  /\ reader' = NoReader
  /\ UNCHANGED <<strategy, store, daemon, calls, drawn, commands, uploaded>>
-----------------------------------------------------------------------------
CloudCp == \/ \E o \in Objects : Upload(o) \/ ManualUpdate(o) \/ ReaderAttrs(o)
           \/ ReaderPayload
           \/ ReaderDone

Next == \/ StartRound
        \/ \E o \in Objects : StartCall(o)
        \/ Crash
        \/ Restart
        \/ \E c \in calls : Update(c)
        \/ CloudCp

Spec == Init /\ [][Next]_vars
-----------------------------------------------------------------------------
(***************************************************************************)
(* Properties.                                                             *)
(***************************************************************************)

\* Whatever races there are, keywrap and csek never lose an upload nor leave a
\* payload its metadata does not fit: their writes are conditional on the generation
\* whose metadata or key they were computed from.
UploadsSurvive ==
  strategy \in {"keywrap", "csek"} =>
    \A o \in Objects : /\ store[o].payload.content = uploaded[o]
                       /\ store[o].md.tag = store[o].payload.tag

\* Whatever races there are, with csek and cmek only an upload takes an object back
\* to an earlier key: every write is a new generation and conditional on the last.
GenerationGuardsKey ==
  [][(strategy \in {"csek", "cmek"} /\ commands' = commands)
       => \A o \in Objects : store'[o].md.key >= store[o].md.key]_vars

\* With keywrap a rotation never disturbs a download: it fails only when somebody has
\* uploaded the object since its Attrs, because rotations keep the generation.
KeywrapReadersUndisturbed ==
  strategy = "keywrap" => /\ reader.pc # "garbled"
                          /\ reader.pc = "mismatch" => uploaded[reader.obj] # reader.seen

\* Rounds that wait for each other, crashes and uploads between them: the rotations
\* of KeyRotation, each at once, whatever the strategy.
Rotation == INSTANCE KeyRotation WITH
              Overlap <- FALSE,
              key <- [o \in Objects |-> store[o].md.key],
              content <- [o \in Objects |-> store[o].payload.content],
              moving <- {}
ImplementsKeyRotation == Rotation!Spec
=============================================================================
