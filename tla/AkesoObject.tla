---------------------------- MODULE AkesoObject ----------------------------
(***************************************************************************)
(* The akeso strategy: what the daemon's AkesoUpdate calls, the cloud      *)
(* function EncryptObject and the users' cloud-cp do to the objects of one *)
(* bucket.  Every remote call is a step of its own, so that the calls of   *)
(* several actors interleave between any two of them.                      *)
(*                                                                         *)
(* A key-update message rotates the daemon's key from epoch e to e + 1 and *)
(* starts a round: the bucket's notification is given a fresh new_dek, and *)
(* one AkesoUpdate per object adds that DEK to the object's header.  The   *)
(* header write publishes an OBJECT_METADATA_UPDATE message; the cloud     *)
(* function that receives it encrypts the payload once more under new_dek. *)
(*                                                                         *)
(* Data is abstracted to what the properties tell apart:                   *)
(*  - a key of the group is its epoch; DEK n is the n-th random key drawn; *)
(*  - an encryption from scratch draws its DEK, its IV and its tag         *)
(*    together, so the DEK names all three (base);                         *)
(*  - a CTR layer is the keystream it XORs, named by its DEK, the base     *)
(*    whose IV it counts from, and the offset from that IV; the layers of  *)
(*    a payload are a set, and XORing a keystream twice removes it.        *)
(***************************************************************************)
EXTENDS Naturals, Sequences, FiniteSets

CONSTANTS
  Objects,            \* the names of the bucket's objects
  MaxReencryptions,   \* max_reencryptions of config.yaml (-maxReenc of cloud-cp)
  Allowed,            \* the adverse conditions the environment may produce
  MaxEpoch,           \* bound: key updates the daemon processes
  MaxCommands         \* bound: uploads and rotations the users' cloud-cp begins

(***************************************************************************)
(* overlap:  a round may start before the messages of the last one are     *)
(*           handled;  crash: the daemon's process may exit at any point,  *)
(*           which every mu.Fatalf and panic of the program does;          *)
(* put_fault: the write of a re-encrypted object may fail;                 *)
(* notif_fault: a notification call may fail;  function_fault: the cloud   *)
(* function may stop before its write;  redeliver: Pub/Sub may deliver a   *)
(* message twice;  upload_race: users upload an object while its message   *)
(* is not handled;  manual: an operator rotates one object with cloud-cp;  *)
(* manual_race: the operator does so also while the round or another call  *)
(* is at work on that object;  download: a user downloads.                 *)
(***************************************************************************)
Conditions == {"overlap", "crash", "put_fault", "notif_fault", "function_fault",
               "redeliver", "upload_race", "manual", "manual_race", "download"}

\* The conditions under which messages are handled once, in their round, and not
\* while users upload; processes and calls may fail at any point.
SafeConditions == {"crash", "put_fault", "notif_fault", "download"}

ASSUME ObjectsAssumption == Objects # {}
ASSUME BoundsAssumption == /\ MaxReencryptions \in Nat
                           /\ MaxEpoch \in Nat
                           /\ MaxCommands \in Nat
ASSUME AllowedAssumption == Allowed \subseteq Conditions

VARIABLES
  store,      \* the bucket: for every object its generation, payload and metadata
  notif,      \* new_dek attribute of the bucket's notification, NoDEK when there is none
  events,     \* OBJECT_METADATA_UPDATE messages Pub/Sub has not delivered
  functions,  \* running instances of EncryptObject that have read the payload
  up,         \* whether the daemon's process runs
  epoch,      \* the epoch of the key in keys/stage-key.pem
  round,      \* the daemon's main loop
  calls,      \* AkesoUpdate calls in progress, the daemon's and cloud-cp's
  reader,     \* one user's AkesoDownload
  drawn,      \* how many DEKs have been drawn
  commands,   \* how many uploads and rotations the users' cloud-cp has begun
  uploaded    \* for every object, what the last completed upload wrote

cloud == <<store, notif, events, functions>>
daemon == <<up, epoch, round>>
users == <<reader, commands, uploaded>>
vars == <<store, notif, events, functions, up, epoch, round, calls, reader,
          drawn, commands, uploaded>>
-----------------------------------------------------------------------------
NoDEK == 0
DEK == Nat

Layer == [dek : DEK, base : DEK, offset : Nat]
Payload == [base : DEK, content : Nat, layers : SUBSET Layer]
Metadata == [key : Nat, deks : Seq(DEK) \ {<<>>},
             updated_by : {"akesod", "akesod-metadata-updater", "cloud-function"},
             ongoing_reencryption : BOOLEAN, times_updated : Nat]
StoredObject == [gen : Nat, payload : Payload, md : Metadata]

\* The keystream of one CTR encryption: base_iv + times_updated - 1.
CTRLayer(dek, base, times) == [dek |-> dek, base |-> base, offset |-> times - 1]

\* XOR with a keystream: a second XOR with the same one takes it away again.
EncryptCTR(payload, layer) ==
  [payload EXCEPT !.layers = IF layer \in @ THEN @ \ {layer} ELSE @ \cup {layer}]

\* The layers AkesoDownload takes off, from the last DEK of the header to the second.
LayersOf(md) == {CTRLayer(md.deks[i], md.deks[1], i) : i \in 2..Len(md.deks)}

\* What AkesoDownload can decrypt with a key: the header opens under it, the tag
\* and the DEKs of the header are those of the payload.
Decrypts(payload, md, key) == /\ md.key = key
                              /\ md.deks[1] = payload.base
                              /\ payload.layers = LayersOf(md)

\* A fresh encryption: AkesoUpload, and the re-encryption branch of AkesoUpdate.
FreshPayload(dek, content) == [base |-> dek, content |-> content, layers |-> {}]
FreshMetadata(dek, key) == [key |-> key, deks |-> <<dek>>, updated_by |-> "akesod",
                            ongoing_reencryption |-> FALSE, times_updated |-> 0]

\* A write of the whole object makes a new generation.
PutObject(o, payload, md) ==
  store' = [store EXCEPT ![o] = [gen |-> store[o].gen + 1, payload |-> payload, md |-> md]]
-----------------------------------------------------------------------------
\* An AkesoUpdate call.  gen is the generation its own Attrs returned, readGen the
\* one AkesoDownload's Attrs returned; fields not yet set have Go's zero value.
Call == [obj : Objects, by : {"akesod", "cloud-cp"}, old_key : Nat, new_key : Nat, dek : DEK,
         pc : {"attrs", "metadata", "download", "payload", "put"},
         gen : Nat, readGen : Nat, md : Metadata, content : Nat]

NewCall(o, by, old, new, dek) ==
  [obj |-> o, by |-> by, old_key |-> old, new_key |-> new, dek |-> dek, pc |-> "attrs",
   gen |-> 0, readGen |-> 0, md |-> FreshMetadata(NoDEK, 0), content |-> 0]

\* Messages and functions; again marks a message that was delivered once already.
Event == [obj : Objects, md : {md \in Metadata : md.times_updated > 0}, new_dek : DEK, again : BOOLEAN]
Function == [event : Event, payload : Payload]

Round == [pc : {"idle", "remove", "add", "files", "ended"}, dek : DEK, todo : SUBSET Objects]
Idle == [pc |-> "idle", dek |-> NoDEK, todo |-> {}]

Reader == [pc : {"none", "payload", "content", "mismatch", "garbled"}, obj : Objects,
           gen : Nat, md : Metadata, whole : BOOLEAN]
NoReader == [pc |-> "none", obj |-> CHOOSE o \in Objects : TRUE, gen |-> 0,
             md |-> FreshMetadata(NoDEK, 0), whole |-> FALSE]

TypeOK == /\ store \in [Objects -> StoredObject]
          /\ notif \in DEK
          /\ events \subseteq Event
          /\ functions \subseteq Function
          /\ up \in BOOLEAN
          /\ epoch \in Nat
          /\ round \in Round
          /\ calls \subseteq Call
          /\ reader \in Reader
          /\ drawn \in Nat
          /\ commands \in Nat
          /\ uploaded \in [Objects -> Nat]

\* No message about the object waits for the cloud function, and no function works on it.
Settled(o) == /\ \A e \in events : e.obj # o
              /\ \A f \in functions : f.event.obj # o

\* The round is still to rotate the object, or an AkesoUpdate call is rotating it.
AtWork(o) == o \in round.todo \/ \E c \in calls : c.obj = o

\* Every message is handled and no AkesoUpdate call is left.
Drained == events = {} /\ functions = {} /\ calls = {}

\* Every object was uploaded with cloud-cp under the key of epoch 0.
Init == /\ store = [o \in Objects |-> [gen |-> 1, payload |-> FreshPayload(1, 1),
                                       md |-> FreshMetadata(1, 0)]]
        /\ notif = NoDEK
        /\ events = {}
        /\ functions = {}
        /\ up = TRUE
        /\ epoch = 0
        /\ round = Idle
        /\ calls = {}
        /\ reader = NoReader
        /\ drawn = 1
        /\ commands = 0
        /\ uploaded = [o \in Objects |-> 1]
-----------------------------------------------------------------------------
(***************************************************************************)
(* The daemon's main loop, for the akeso strategy.                         *)
(***************************************************************************)

\* A key-update message: the key in stage-key.pem becomes the next epoch's, a DEK
\* is drawn for the round and the objects are listed.
StartRound == /\ up
              /\ round.pc = "idle"
              /\ epoch < MaxEpoch
              /\ "overlap" \in Allowed \/ Drained
              /\ epoch' = epoch + 1
              /\ drawn' = drawn + 1
              /\ round' = [pc |-> "remove", dek |-> drawn + 1, todo |-> Objects]
              /\ UNCHANGED <<cloud, users, up, calls>>

RemoveNotification == /\ round.pc = "remove"
                      /\ notif' = NoDEK
                      /\ round' = [round EXCEPT !.pc = "add"]
                      /\ UNCHANGED <<store, events, functions, users, up, epoch, calls, drawn>>

\* Variant: the attribute still carries the DEK drawn before.
AddNotificationStale == /\ round.pc = "add"
                        /\ notif' = round.dek - 1
                        /\ round' = [round EXCEPT !.pc = "files"]
                        /\ UNCHANGED <<store, events, functions, users, up, epoch, calls, drawn>>

AddNotification == /\ round.pc = "add"
                   /\ notif' = round.dek
                   /\ round' = [round EXCEPT !.pc = "files"]
                   /\ UNCHANGED <<store, events, functions, users, up, epoch, calls, drawn>>

\* A notification call fails, whether or not it took effect: the handler returns
\* nil, and the process stays up without one.
NotificationFails == /\ "notif_fault" \in Allowed
                     /\ round.pc \in {"remove", "add"}
                     /\ notif' \in {notif, IF round.pc = "remove" THEN NoDEK ELSE round.dek}
                     /\ round' = [Idle EXCEPT !.pc = "ended"]
                     /\ UNCHANGED <<store, events, functions, users, up, epoch, calls, drawn>>

\* The goroutine of one file.  In which order and how many at a time is the matter
\* of module BucketFanout; here any file of the list may be next.
StartCall(o) == /\ round.pc = "files"
                /\ o \in round.todo
                /\ round' = [round EXCEPT !.todo = @ \ {o}]
                /\ calls' = calls \cup {NewCall(o, "akesod", epoch - 1, epoch, round.dek)}
                /\ UNCHANGED <<cloud, users, up, epoch, drawn>>

\* The loop goes on to the next message (with several files, while calls still run).
EndRound == /\ round.pc = "files"
            /\ round.todo = {}
            /\ round' = Idle
            /\ UNCHANGED <<cloud, users, up, epoch, calls, drawn>>

\* What the exit of a process does to the calls: the daemon's exit ends its round
\* and all its calls, cloud-cp's only its own.
ProcessExits == /\ up' = FALSE
                /\ round' = Idle
                /\ calls' = {d \in calls : d.by # "akesod"}

Crash == /\ "crash" \in Allowed
         /\ up
         /\ ProcessExits
         /\ UNCHANGED <<cloud, users, epoch, drawn>>

\* The daemon is started again on the state the last one saved.
Restart == /\ ~up
           /\ up' = TRUE
           /\ UNCHANGED <<cloud, users, epoch, round, calls, drawn>>
-----------------------------------------------------------------------------
(***************************************************************************)
(* AkesoUpdate, one remote call at a time.                                 *)
(***************************************************************************)

\* The call goes on to its next remote call.
Advance(c, d) == /\ calls' = (calls \ {c}) \cup {d}
                 /\ UNCHANGED <<daemon, drawn, users>>

\* The call returns nil.
Return(c) == /\ calls' = calls \ {c}
             /\ UNCHANGED <<daemon, drawn, users>>

\* The call returns an error, and its process exits by mu.Fatalf.
Fail(c) == /\ \/ c.by = "akesod" /\ ProcessExits
              \/ c.by = "cloud-cp" /\ calls' = calls \ {c} /\ UNCHANGED <<up, round>>
           /\ UNCHANGED <<cloud, epoch, drawn, users>>

\* Variant: the limit itself is still below the limit.
HeaderOnlyInclusive(md) == Len(md.deks) + 1 <= MaxReencryptions

\* Whether the header with one more DEK is still below max_reencryptions.
HeaderOnly(md) == Len(md.deks) + 1 < MaxReencryptions

\* Attrs, and UnmarshalHeader under old_key.
UpdateAttrs(c) ==
  /\ c.pc = "attrs"
  /\ \/ /\ store[c.obj].md.key = c.old_key
        /\ Advance(c, [c EXCEPT !.pc = IF HeaderOnly(store[c.obj].md) THEN "metadata" ELSE "download",
                                !.gen = store[c.obj].gen,
                                !.md = store[c.obj].md])
        /\ UNCHANGED cloud
     \/ /\ store[c.obj].md.key # c.old_key
        /\ Fail(c)

\* Variants: the header stays wrapped under old_key; the writer is misspelt.
UpdatedMetadataOldKey(c) ==
  [key |-> c.old_key, deks |-> Append(c.md.deks, c.dek), updated_by |-> "akesod-metadata-updater",
   ongoing_reencryption |-> TRUE, times_updated |-> Len(c.md.deks) + 1]
UpdatedMetadataMisspelt(c) ==
  [key |-> c.new_key, deks |-> Append(c.md.deks, c.dek), updated_by |-> "akesod-metadata-update",
   ongoing_reencryption |-> TRUE, times_updated |-> Len(c.md.deks) + 1]

\* The header of the call with its DEK added, under new_key.
UpdatedMetadata(c) ==
  [key |-> c.new_key, deks |-> Append(c.md.deks, c.dek), updated_by |-> "akesod-metadata-updater",
   ongoing_reencryption |-> TRUE, times_updated |-> Len(c.md.deks) + 1]

\* Variant: the write has no generation-match condition.
UpdateMetadataUnguarded(c) ==
  /\ c.pc = "metadata"
  /\ store' = [store EXCEPT ![c.obj].md = UpdatedMetadata(c)]
  /\ events' = IF notif = NoDEK THEN events
               ELSE events \cup {[obj |-> c.obj, md |-> UpdatedMetadata(c),
                                  new_dek |-> notif, again |-> FALSE]}
  /\ Return(c)
  /\ UNCHANGED <<notif, functions>>

\* UpdateObjectMetadata: a change of the metadata keeps the generation, and the
\* bucket's notification publishes it with its own new_dek.
UpdateMetadata(c) ==
  /\ c.pc = "metadata"
  /\ \/ /\ store[c.obj].gen = c.gen
        /\ store' = [store EXCEPT ![c.obj].md = UpdatedMetadata(c)]
        /\ events' = IF notif = NoDEK THEN events
                     ELSE events \cup {[obj |-> c.obj, md |-> UpdatedMetadata(c),
                                        new_dek |-> notif, again |-> FALSE]}
        /\ Return(c)
        /\ UNCHANGED <<notif, functions>>
     \/ /\ store[c.obj].gen # c.gen
        /\ Fail(c)

\* The Attrs of the AkesoDownload under old_key that the re-encryption starts with.
DownloadAttrs(c) ==
  /\ c.pc = "download"
  /\ \/ /\ store[c.obj].md.key = c.old_key
        /\ Advance(c, [c EXCEPT !.pc = "payload", !.readGen = store[c.obj].gen, !.md = store[c.obj].md])
        /\ UNCHANGED cloud
     \/ /\ store[c.obj].md.key # c.old_key
        /\ Fail(c)

\* GetObject of the generation Attrs returned, and the decryption.
DownloadPayload(c) ==
  /\ c.pc = "payload"
  /\ \/ /\ store[c.obj].gen = c.readGen
        /\ Decrypts(store[c.obj].payload, c.md, c.old_key)
        /\ Advance(c, [c EXCEPT !.pc = "put", !.content = store[c.obj].payload.content])
        /\ UNCHANGED cloud
     \/ /\ store[c.obj].gen # c.readGen \/ ~Decrypts(store[c.obj].payload, c.md, c.old_key)
        /\ Fail(c)

\* Variant: the write has no generation-match condition.
PutReencryptedUnguarded(c) ==
  /\ c.pc = "put"
  /\ Return(c)
  /\ PutObject(c.obj, FreshPayload(c.dek, c.content), FreshMetadata(c.dek, c.new_key))
  /\ UNCHANGED <<notif, events, functions>>

\* PutObjectWithMetadata under the generation of the first Attrs.  Its error is not
\* looked at: the call returns nil whether or not the object was written.
PutReencrypted(c) ==
  /\ c.pc = "put"
  /\ Return(c)
  /\ \/ /\ store[c.obj].gen = c.gen
        /\ PutObject(c.obj, FreshPayload(c.dek, c.content), FreshMetadata(c.dek, c.new_key))
        /\ UNCHANGED <<notif, events, functions>>
     \/ /\ store[c.obj].gen # c.gen \/ "put_fault" \in Allowed
        /\ UNCHANGED cloud
-----------------------------------------------------------------------------
(***************************************************************************)
(* The cloud function.                                                     *)
(***************************************************************************)

\* A delivery starts a function, which reads the payload the object has now.
FunctionReads(e) ==
  /\ e.md.updated_by # "akesod"
  /\ \/ events' = events \ {e}
     \/ /\ "redeliver" \in Allowed
        /\ ~e.again
        /\ events' = (events \ {e}) \cup {[e EXCEPT !.again = TRUE]}
  /\ functions' = functions \cup {[event |-> e, payload |-> store[e.obj].payload]}
  /\ UNCHANGED <<store, notif, daemon, calls, users, drawn>>

\* Variants: the IV is not moved back by one; ongoing_reencryption is not reset.
FunctionWritesOffByOne(f) ==
  /\ functions' = functions \ {f}
  /\ PutObject(f.event.obj,
               EncryptCTR(f.payload, CTRLayer(f.event.new_dek, f.event.md.deks[1], f.event.md.times_updated + 1)),
               [f.event.md EXCEPT !.updated_by = "cloud-function", !.ongoing_reencryption = FALSE])
  /\ UNCHANGED <<notif, events, daemon, calls, users, drawn>>
FunctionWritesOngoing(f) ==
  /\ functions' = functions \ {f}
  /\ PutObject(f.event.obj,
               EncryptCTR(f.payload, CTRLayer(f.event.new_dek, f.event.md.deks[1], f.event.md.times_updated)),
               [f.event.md EXCEPT !.updated_by = "cloud-function"])
  /\ UNCHANGED <<notif, events, daemon, calls, users, drawn>>

\* It writes what it read with one more layer, and the metadata of its message,
\* over whatever the object has become.
FunctionWrites(f) ==
  /\ functions' = functions \ {f}
  /\ PutObject(f.event.obj,
               EncryptCTR(f.payload, CTRLayer(f.event.new_dek, f.event.md.deks[1], f.event.md.times_updated)),
               [f.event.md EXCEPT !.updated_by = "cloud-function", !.ongoing_reencryption = FALSE])
  /\ UNCHANGED <<notif, events, daemon, calls, users, drawn>>

\* It stops at an error; the trigger is deployed without retry.
FunctionFails(f) ==
  /\ "function_fault" \in Allowed
  /\ functions' = functions \ {f}
  /\ UNCHANGED <<store, notif, events, daemon, calls, users, drawn>>
-----------------------------------------------------------------------------
(***************************************************************************)
(* The users' cloud-cp.                                                    *)
(***************************************************************************)

\* AkesoUpload, under the user's key: the current one, or the one before it while
\* the user has not processed the last key update.  No precondition guards it.
Upload(o) ==
  /\ commands < MaxCommands
  /\ "upload_race" \in Allowed \/ Settled(o)
  /\ \E key \in {k \in 0..epoch : k + 1 >= epoch} :
       PutObject(o, FreshPayload(drawn + 1, drawn + 1), FreshMetadata(drawn + 1, key))
  /\ drawn' = drawn + 1
  /\ commands' = commands + 1
  /\ uploaded' = [uploaded EXCEPT ![o] = drawn + 1]
  /\ UNCHANGED <<notif, events, functions, daemon, calls, reader>>

\* cloud-cp -strategy akeso -key OLD -updateKey NEW without -dekOverride: AkesoUpdate
\* draws a DEK that no notification carries.  The code has no precondition: that an
\* operator waits for the calls of the object is an assumption, which manual_race lifts.
ManualUpdate(o) ==
  /\ "manual" \in Allowed
  /\ commands < MaxCommands
  /\ "manual_race" \in Allowed \/ ~AtWork(o)
  /\ store[o].md.key < epoch
  /\ drawn' = drawn + 1
  /\ calls' = calls \cup {NewCall(o, "cloud-cp", store[o].md.key, epoch, drawn + 1)}
  /\ commands' = commands + 1
  /\ UNCHANGED <<cloud, daemon, reader, uploaded>>

\* AkesoDownload: Attrs, with a key the header opens under; whole records whether
\* the metadata and the payload fitted each other at that moment.
ReaderAttrs(o) ==
  /\ "download" \in Allowed
  /\ reader.pc = "none"
  /\ reader' = [pc |-> "payload", obj |-> o, gen |-> store[o].gen, md |-> store[o].md,
                whole |-> Decrypts(store[o].payload, store[o].md, store[o].md.key)]
  /\ UNCHANGED <<cloud, daemon, calls, drawn, commands, uploaded>>

\* Variant: GetObject without the generation of Attrs.
ReaderOutcomeUnguarded(r) ==
  IF Decrypts(store[r.obj].payload, r.md, r.md.key) THEN "content" ELSE "garbled"

\* What GetObject of the generation of Attrs, and the decryption, come to.
ReaderOutcome(r) ==
  CASE store[r.obj].gen # r.gen                           -> "mismatch"
    [] Decrypts(store[r.obj].payload, r.md, r.md.key)     -> "content"
    [] OTHER                                              -> "garbled"

ReaderPayload ==
  /\ reader.pc = "payload"
  /\ reader' = [reader EXCEPT !.pc = ReaderOutcome(reader)]
  /\ UNCHANGED <<cloud, daemon, calls, drawn, commands, uploaded>>

ReaderDone ==
  /\ reader.pc \in {"content", "mismatch", "garbled"}
  /\ reader' = NoReader
  /\ UNCHANGED <<cloud, daemon, calls, drawn, commands, uploaded>>
-----------------------------------------------------------------------------
MainLoop == \/ StartRound
            \/ RemoveNotification
            \/ AddNotification
            \/ NotificationFails
            \/ \E o \in Objects : StartCall(o)
            \/ EndRound

AkesoUpdate(c) == \/ UpdateAttrs(c)
                  \/ UpdateMetadata(c)
                  \/ DownloadAttrs(c)
                  \/ DownloadPayload(c)
                  \/ PutReencrypted(c)

CloudFunction == \/ \E e \in events : FunctionReads(e)
                 \/ \E f \in functions : FunctionWrites(f)
                 \/ \E f \in functions : FunctionFails(f)

CloudCp == \/ \E o \in Objects : Upload(o) \/ ManualUpdate(o) \/ ReaderAttrs(o)
           \/ ReaderPayload
           \/ ReaderDone

Next == \/ MainLoop
        \/ Crash
        \/ Restart
        \/ \E c \in calls : AkesoUpdate(c)
        \/ CloudFunction
        \/ CloudCp

Spec == Init /\ [][Next]_vars

\* The scheduler runs the daemon's goroutines, and Pub/Sub delivers what it holds.
\* Nothing is said of when a key update arrives or a user acts.
Fairness == /\ WF_vars(RemoveNotification \/ AddNotification \/ EndRound
                       \/ \E o \in Objects : StartCall(o))
            /\ WF_vars(\E c \in calls : AkesoUpdate(c))
            /\ WF_vars((\E e \in events : FunctionReads(e)) \/ (\E f \in functions : FunctionWrites(f)))

FairSpec == Spec /\ Fairness
-----------------------------------------------------------------------------
(***************************************************************************)
(* Properties.                                                             *)
(***************************************************************************)

\* Once no message about an object is left, its payload carries exactly the layers
\* its header lists, so that the key its header is wrapped under decrypts it: the
\* header is written by AkesoUpdate and the payload, later and elsewhere, by the
\* cloud function or by the re-encryption branch.
SettledReadable ==
  \A o \in Objects : Settled(o) => Decrypts(store[o].payload, store[o].md, store[o].md.key)

\* No rotation, whichever branch and whoever writes last, replaces what a user
\* uploaded: the reads of AkesoUpdate, AkesoDownload and the cloud function are
\* separate calls from the writes that use them.
UploadKept == \A o \in Objects : store[o].payload.content = uploaded[o]

\* max_reencryptions bounds the header, and the payload never carries a layer for
\* which the header has no DEK: len(DEKs) is compared after AddDEK.
ReencryptionBound ==
  \A o \in Objects : /\ Len(store[o].md.deks) = 1 \/ Len(store[o].md.deks) < MaxReencryptions
                     /\ store[o].payload.layers \subseteq LayersOf(store[o].md)

\* ongoing_reencryption is "true" just while a message or a function is to add the
\* layer that the header already has.
OngoingIffPending ==
  \A o \in Objects : store[o].md.ongoing_reencryption <=> ~Settled(o)

\* Only a user's upload can take an object back to an earlier key: the metadata
\* writes of AkesoUpdate and of the cloud function are both computed from a copy
\* read before.
KeyNeverRollsBack ==
  [][commands' = commands => \A o \in Objects : store'[o].md.key >= store[o].md.key]_vars

\* Whatever the environment does, the re-encryption branch never replaces content
\* by other content: the generation-match of its write spans the two Attrs and the
\* read of AkesoDownload in between.
ReencryptionKeepsContent ==
  [][\A o \in Objects : (/\ store'[o].gen # store[o].gen
                         /\ store'[o].md.updated_by = "akesod"
                         /\ commands' = commands) => store'[o].payload.content = store[o].payload.content]_vars

\* AkesoUpdate itself never takes an object back to an earlier key, with overlapping
\* rounds, crashes, functions and uploads between its reads and its write, and with
\* operators that keep clear of the calls of an object.  Under manual_race it may: two
\* calls that read one header both find the generation they read, which a header
\* write keeps, and the later one may be overtaken by the next round.
AkesoUpdateNeverRollsBack ==
  [][(commands' = commands /\ functions' = functions)
       => \A o \in Objects : store'[o].md.key >= store[o].md.key]_vars

\* A download that found metadata and payload fitting each other never decrypts
\* garbage: the generation-match of GetObject turns every later write into an
\* error instead.
NoTornRead == reader.pc = "garbled" => ~reader.whole

\* Between rounds the object is wrapped under the daemon's key (no faults, no users
\* that lag behind).  It is a property of a bucket of one object: the round of
\* several always ends in the panic of the second close, here a crash.
RoundRotatesAll == (round.pc = "idle" /\ calls = {}) => \A o \in Objects : store[o].md.key = epoch

\* Every key update eventually has every object decryptable under its key or a
\* later one: the main loop, the call and the cloud function all have to act.
EveryUpdateTakesEffect ==
  \A e \in 1..MaxEpoch :
    (epoch = e) ~> \A o \in Objects : /\ store[o].md.key >= e
                                     /\ Decrypts(store[o].payload, store[o].md, store[o].md.key)

\* Seen from outside, the calls, messages and functions of the rounds are the
\* rotations of KeyRotation: an object is on its way until its message is handled.
Rotation == INSTANCE KeyRotation WITH
              Overlap <- FALSE,
              key <- [o \in Objects |-> store[o].md.key],
              content <- [o \in Objects |-> store[o].payload.content],
              moving <- {o \in Objects : ~Settled(o)}
ImplementsKeyRotation == Rotation!Spec
=============================================================================
