------------------------- MODULE AkesoObjectProofs -------------------------
(***************************************************************************)
(* Theorems about AkesoObject, for every set of objects, every             *)
(* max_reencryptions and every bound.                                      *)
(***************************************************************************)
EXTENDS AkesoObject, TLAPS

(***************************************************************************)
(* The inductive invariant.  Its parts say who may be at an object at one  *)
(* time (AtMostOneAtWork), what a call still knows of the object it read   *)
(* (CallsUpToDate), how far a payload is behind its header while a message *)
(* or a function is to catch up (PendingLayer), and that it is not behind  *)
(* otherwise (SettledLayers).                                              *)
(***************************************************************************)

\* Between the start of a round and its files there is nothing in flight, and the
\* notification carries the DEK of every call of the round.
RoundPhases == /\ drawn > 0
               /\ round.pc \in {"remove", "add"} => Drained
               /\ round.pc \in {"remove", "add", "files"} => (epoch > 0 /\ round.dek # NoDEK /\ up)
               /\ round.pc = "files" => notif = round.dek
               /\ calls # {} => (epoch > 0 /\ up /\ round.pc \in {"idle", "files"} /\ notif # NoDEK)

\* A call has its object to itself: no second call, message or function.
AtMostOneAtWork ==
  /\ \A c \in calls : /\ Settled(c.obj)
                      /\ c.by = "akesod"
                      /\ c.obj \in round.todo => round.pc # "files"
                      /\ \A d \in calls : c.obj = d.obj => c = d
  /\ \A o \in round.todo : round.pc = "files" => Settled(o)
  /\ \A e \in events : /\ \A d \in events : e.obj = d.obj => e = d
                       /\ \A f \in functions : e.obj # f.event.obj
  /\ \A f, g \in functions : f.event.obj = g.event.obj => f = g

\* What a call has read is the object's, as long as the generation is the one read.
UpToDate(c) ==
  /\ c.dek = notif
  /\ c.old_key + 1 = epoch
  /\ c.new_key = epoch
  /\ c.gen <= store[c.obj].gen
  /\ c.pc = "metadata" => /\ HeaderOnly(c.md)
                          /\ c.md.key = c.old_key
                          /\ store[c.obj].gen = c.gen => store[c.obj].md = c.md
  /\ c.pc \in {"payload", "put"} => (c.gen <= c.readGen /\ c.readGen <= store[c.obj].gen)
  /\ c.pc = "put" => (store[c.obj].gen = c.readGen => store[c.obj].payload.content = c.content)

CallsUpToDate == \A c \in calls : UpToDate(c)

\* The payload lacks just the layer that the message asks for.
Lacks(payload, e) ==
  LET layer == CTRLayer(e.new_dek, e.md.deks[1], e.md.times_updated)
  IN /\ layer \notin payload.layers
     /\ LayersOf(e.md) = payload.layers \cup {layer}

PendingLayer ==
  /\ \A e \in events : /\ store[e.obj].md = e.md
                       /\ e.md.updated_by = "akesod-metadata-updater"
                       /\ e.md.ongoing_reencryption
                       /\ Lacks(store[e.obj].payload, e)
  /\ \A f \in functions : /\ store[f.event.obj].md = f.event.md
                          /\ f.event.md.ongoing_reencryption
                          /\ f.payload = store[f.event.obj].payload
                          /\ Lacks(f.payload, f.event)

SettledLayers ==
  \A o \in Objects : Settled(o) => /\ store[o].payload.layers = LayersOf(store[o].md)
                                   /\ ~store[o].md.ongoing_reencryption

\* The header's first DEK is that of the payload, what is stored is what was
\* uploaded, the header is within its limit, and no key is ahead of the daemon's;
\* uploads are numbered in order.
Stored ==
  \A o \in Objects : /\ store[o].md.deks[1] = store[o].payload.base
                     /\ store[o].payload.content = uploaded[o]
                     /\ uploaded[o] <= drawn
                     /\ Len(store[o].md.deks) = 1 \/ Len(store[o].md.deks) < MaxReencryptions
                     /\ store[o].md.key <= epoch

IInv == /\ TypeOK
        /\ RoundPhases
        /\ AtMostOneAtWork
        /\ CallsUpToDate
        /\ PendingLayer
        /\ SettledLayers
        /\ Stored
-----------------------------------------------------------------------------
(***************************************************************************)
(* Type correctness, whatever the environment does.                        *)
(***************************************************************************)

LEMMA FreshTypes ==
  ASSUME NEW dek \in Nat, NEW n \in Nat
  PROVE  FreshPayload(dek, n) \in Payload /\ FreshMetadata(dek, n) \in Metadata
<1>1. <<dek>> \in Seq(DEK) \ {<<>>}
  BY DEF DEK
<1> QED BY <1>1 DEF FreshPayload, FreshMetadata, Payload, Metadata, DEK

LEMMA FirstDEK ==
  ASSUME NEW md \in Metadata
  PROVE  md.deks \in Seq(DEK) /\ Len(md.deks) \in Nat \ {0} /\ md.deks[1] \in DEK
  BY DEF Metadata

LEMMA EncryptType ==
  ASSUME NEW payload \in Payload, NEW e \in Event
  PROVE  EncryptCTR(payload, CTRLayer(e.new_dek, e.md.deks[1], e.md.times_updated)) \in Payload
<1>1. e.md \in Metadata /\ e.md.times_updated - 1 \in Nat /\ e.new_dek \in DEK
  BY DEF Event, Metadata
<1>2. CTRLayer(e.new_dek, e.md.deks[1], e.md.times_updated) \in Layer
  BY <1>1, FirstDEK DEF CTRLayer, Layer
<1> QED BY <1>2 DEF EncryptCTR, Payload

LEMMA UpdatedMetadataType ==
  ASSUME NEW c \in Call
  PROVE  UpdatedMetadata(c) \in Metadata /\ UpdatedMetadata(c).times_updated > 0
<1>1. /\ c.md \in Metadata /\ c.new_key \in Nat /\ c.dek \in DEK
      /\ Len(c.md.deks) + 1 \in Nat /\ Append(c.md.deks, c.dek) \in Seq(DEK) \ {<<>>}
  BY DEF Call, Metadata
<1> QED BY <1>1 DEF UpdatedMetadata, Metadata

LEMMA InitType == Init => TypeOK
<1> SUFFICES ASSUME Init PROVE TypeOK
  OBVIOUS
<1>1. NoReader \in Reader
  BY FreshTypes, ObjectsAssumption DEF NoReader, Reader, NoDEK
<1>2. store \in [Objects -> StoredObject]
  BY FreshTypes DEF Init, StoredObject
<1> QED BY <1>1, <1>2 DEF Init, TypeOK, Idle, Round, NoDEK, DEK

LEMMA PutType ==
  ASSUME TypeOK, NEW o \in Objects, NEW payload \in Payload, NEW md \in Metadata, PutObject(o, payload, md)
  PROVE  store' \in [Objects -> StoredObject]
  BY DEF TypeOK, PutObject, StoredObject

\* A round is of some epoch after the first, so that its calls have an old key.
RoundHasEpoch == round.pc \in {"remove", "add", "files"} => epoch > 0

LEMMA MainLoopType == TypeOK /\ RoundHasEpoch /\ MainLoop => TypeOK'
<1> SUFFICES ASSUME TypeOK, RoundHasEpoch, MainLoop PROVE TypeOK'
  OBVIOUS
<1> USE DEF TypeOK, cloud, daemon, users, Round, NoDEK, DEK
<1>1. CASE StartRound
  BY <1>1 DEF StartRound
<1>2. CASE RemoveNotification
  BY <1>2 DEF RemoveNotification
<1>3. CASE AddNotification
  BY <1>3 DEF AddNotification
<1>4. CASE NotificationFails
  BY <1>4 DEF NotificationFails, Idle
<1>5. ASSUME NEW o \in Objects, StartCall(o) PROVE TypeOK'
  <2>1. epoch - 1 \in Nat
    BY <1>5 DEF StartCall, RoundHasEpoch
  <2>2. NewCall(o, "akesod", epoch - 1, epoch, round.dek) \in Call
    BY <2>1, FreshTypes DEF NewCall, Call
  <2> QED BY <1>5, <2>2 DEF StartCall
<1>6. CASE EndRound
  BY <1>6 DEF EndRound, Idle
<1> QED BY <1>1, <1>2, <1>3, <1>4, <1>5, <1>6 DEF MainLoop

LEMMA FailType ==
  ASSUME TypeOK, NEW c \in calls, Fail(c)
  PROVE  TypeOK'
<1>1. calls' \subseteq calls /\ up' \in BOOLEAN /\ round' \in {round, Idle}
  BY DEF TypeOK, Fail, ProcessExits
<1>2. Idle \in Round
  BY DEF Idle, Round, NoDEK, DEK
<1> QED BY <1>1, <1>2 DEF TypeOK, Fail, cloud, users

LEMMA AkesoUpdateType ==
  ASSUME TypeOK, NEW c \in calls, AkesoUpdate(c)
  PROVE  TypeOK'
<1> USE DEF TypeOK, cloud, daemon, users
<1>0. /\ c \in Call /\ c.obj \in Objects /\ store[c.obj] \in StoredObject
      /\ store[c.obj].gen \in Nat /\ store[c.obj].md \in Metadata
      /\ store[c.obj].payload \in Payload /\ store[c.obj].payload.content \in Nat
  BY DEF Call, StoredObject, Payload
<1>1. CASE UpdateAttrs(c)
  <2>1. CASE Fail(c)
    BY <2>1, FailType
  <2>2. ASSUME NEW pc \in {"metadata", "download"}
        PROVE  [c EXCEPT !.pc = pc, !.gen = store[c.obj].gen, !.md = store[c.obj].md] \in Call
    BY <1>0 DEF Call
  <2> QED BY <1>1, <2>1, <2>2 DEF UpdateAttrs, Advance
<1>2. CASE UpdateMetadata(c)
  <2>1. CASE Fail(c)
    BY <2>1, FailType
  <2>2. CASE ~Fail(c)
    <3>1. UpdatedMetadata(c) \in Metadata /\ UpdatedMetadata(c).times_updated > 0
      BY <1>0, UpdatedMetadataType
    <3>2. [obj |-> c.obj, md |-> UpdatedMetadata(c), new_dek |-> notif, again |-> FALSE] \in Event
      BY <1>0, <3>1 DEF Event
    <3>3. events' \subseteq Event
      BY <1>2, <2>2, <3>2 DEF UpdateMetadata
    <3>4. store' \in [Objects -> StoredObject]
      BY <1>0, <1>2, <2>2, <3>1 DEF UpdateMetadata, StoredObject
    <3> QED BY <1>2, <2>2, <3>3, <3>4 DEF UpdateMetadata, Return
  <2> QED BY <2>1, <2>2
<1>3. CASE DownloadAttrs(c)
  <2>1. CASE Fail(c)
    BY <2>1, FailType
  <2>2. [c EXCEPT !.pc = "payload", !.readGen = store[c.obj].gen, !.md = store[c.obj].md] \in Call
    BY <1>0 DEF Call
  <2> QED BY <1>3, <2>1, <2>2 DEF DownloadAttrs, Advance
<1>4. CASE DownloadPayload(c)
  <2>1. CASE Fail(c)
    BY <2>1, FailType
  <2>2. [c EXCEPT !.pc = "put", !.content = store[c.obj].payload.content] \in Call
    BY <1>0 DEF Call
  <2> QED BY <1>4, <2>1, <2>2 DEF DownloadPayload, Advance
<1>5. CASE PutReencrypted(c)
  <2>1. FreshPayload(c.dek, c.content) \in Payload /\ FreshMetadata(c.dek, c.new_key) \in Metadata
    BY <1>0, FreshTypes DEF Call, DEK
  <2>2. store' \in [Objects -> StoredObject]
    BY <1>0, <1>5, <2>1, PutType DEF PutReencrypted
  <2> QED BY <1>5, <2>2 DEF PutReencrypted, Return
<1> QED BY <1>1, <1>2, <1>3, <1>4, <1>5 DEF AkesoUpdate

LEMMA CloudFunctionType == TypeOK /\ CloudFunction => TypeOK'
<1> SUFFICES ASSUME TypeOK, CloudFunction PROVE TypeOK'
  OBVIOUS
<1> USE DEF TypeOK, cloud, daemon, users
<1>1. ASSUME NEW e \in events, FunctionReads(e) PROVE TypeOK'
  <2>1. e \in Event /\ [e EXCEPT !.again = TRUE] \in Event
    BY DEF Event
  <2>2. [event |-> e, payload |-> store[e.obj].payload] \in Function
    BY <2>1 DEF Event, StoredObject, Function
  <2> QED BY <1>1, <2>1, <2>2 DEF FunctionReads
<1>2. ASSUME NEW f \in functions, FunctionWrites(f) PROVE TypeOK'
  <2>1. f.event \in Event /\ f.payload \in Payload /\ f.event.obj \in Objects /\ f.event.md \in Metadata
    BY DEF Function, Event
  <2>2. [f.event.md EXCEPT !.updated_by = "cloud-function", !.ongoing_reencryption = FALSE] \in Metadata
    BY <2>1 DEF Metadata
  <2>3. store' \in [Objects -> StoredObject]
    BY <1>2, <2>1, <2>2, EncryptType, PutType DEF FunctionWrites
  <2> QED BY <1>2, <2>3 DEF FunctionWrites
<1>3. ASSUME NEW f \in functions, FunctionFails(f) PROVE TypeOK'
  BY <1>3 DEF FunctionFails
<1> QED BY <1>1, <1>2, <1>3 DEF CloudFunction

LEMMA CloudCpType == TypeOK /\ CloudCp => TypeOK'
<1> SUFFICES ASSUME TypeOK, CloudCp PROVE TypeOK'
  OBVIOUS
<1> USE DEF TypeOK, cloud, daemon, users
<1>1. ASSUME NEW o \in Objects, Upload(o) PROVE TypeOK'
  <2>1. PICK k \in 0..epoch : PutObject(o, FreshPayload(drawn + 1, drawn + 1), FreshMetadata(drawn + 1, k))
    BY <1>1 DEF Upload
  <2>2. FreshPayload(drawn + 1, drawn + 1) \in Payload /\ FreshMetadata(drawn + 1, k) \in Metadata
    BY FreshTypes
  <2>3. store' \in [Objects -> StoredObject]
    BY <2>1, <2>2, PutType
  <2>4. /\ drawn' \in Nat /\ commands' \in Nat /\ uploaded' \in [Objects -> Nat]
        /\ UNCHANGED <<notif, events, functions, up, epoch, round, calls, reader>>
    BY <1>1 DEF Upload
  <2> QED BY <2>3, <2>4
<1>2. ASSUME NEW o \in Objects, ManualUpdate(o) PROVE TypeOK'
  <2>1. NewCall(o, "cloud-cp", store[o].md.key, epoch, drawn + 1) \in Call
    BY FreshTypes DEF NewCall, Call, StoredObject, Metadata, NoDEK, DEK
  <2> QED BY <1>2, <2>1 DEF ManualUpdate
<1>3. ASSUME NEW o \in Objects, ReaderAttrs(o) PROVE TypeOK'
  <2>1. store[o].gen \in Nat /\ store[o].md \in Metadata
    BY DEF StoredObject
  <2>2. Decrypts(store[o].payload, store[o].md, store[o].md.key) \in BOOLEAN
    BY DEF Decrypts
  <2>3. reader' \in Reader
    BY <1>3, <2>1, <2>2 DEF ReaderAttrs, Reader
  <2> QED BY <1>3, <2>3 DEF ReaderAttrs
<1>4. CASE ReaderPayload
  <2>1. ReaderOutcome(reader) \in {"mismatch", "content", "garbled"}
    BY DEF ReaderOutcome
  <2> QED BY <1>4, <2>1 DEF ReaderPayload, Reader
<1>5. CASE ReaderDone
  <2>1. NoReader \in Reader
    BY FreshTypes, ObjectsAssumption DEF NoReader, Reader, NoDEK
  <2> QED BY <1>5, <2>1 DEF ReaderDone
<1> QED BY <1>1, <1>2, <1>3, <1>4, <1>5 DEF CloudCp

LEMMA StepType == TypeOK /\ RoundHasEpoch /\ [Next]_vars => TypeOK' /\ RoundHasEpoch'
<1> SUFFICES ASSUME TypeOK, RoundHasEpoch, [Next]_vars PROVE TypeOK' /\ RoundHasEpoch'
  OBVIOUS
<1>1. CASE MainLoop
  <2>1. TypeOK'
    BY <1>1, MainLoopType
  <2>2. RoundHasEpoch'
    BY <1>1 DEF MainLoop, StartRound, RemoveNotification, AddNotification, NotificationFails,
                StartCall, EndRound, RoundHasEpoch, TypeOK, Round, Idle
  <2> QED BY <2>1, <2>2
<1>2. CASE Crash
  BY <1>2 DEF Crash, ProcessExits, cloud, users, TypeOK, RoundHasEpoch, Idle, Round, NoDEK, DEK
<1>3. CASE Restart
  BY <1>3 DEF Restart, cloud, users, TypeOK, RoundHasEpoch
<1>4. ASSUME NEW c \in calls, AkesoUpdate(c) PROVE TypeOK' /\ RoundHasEpoch'
  <2>1. TypeOK'
    BY <1>4, AkesoUpdateType
  <2>2. UNCHANGED <<round, epoch>> \/ round' = Idle
    BY <1>4 DEF AkesoUpdate, UpdateAttrs, UpdateMetadata, DownloadAttrs, DownloadPayload,
                PutReencrypted, Advance, Return, Fail, ProcessExits, daemon
  <2> QED BY <2>1, <2>2 DEF RoundHasEpoch, Idle
<1>5. CASE CloudFunction
  <2>1. UNCHANGED <<round, epoch>>
    BY <1>5 DEF CloudFunction, FunctionReads, FunctionWrites, FunctionFails, daemon
  <2> QED BY <1>5, <2>1, CloudFunctionType DEF RoundHasEpoch
<1>6. CASE CloudCp
  <2>1. UNCHANGED <<round, epoch>>
    BY <1>6 DEF CloudCp, Upload, ManualUpdate, ReaderAttrs, ReaderPayload, ReaderDone, daemon
  <2> QED BY <1>6, <2>1, CloudCpType DEF RoundHasEpoch
<1>7. CASE UNCHANGED vars
  BY <1>7 DEF vars, TypeOK, RoundHasEpoch
<1> QED BY <1>1, <1>2, <1>3, <1>4, <1>5, <1>6, <1>7 DEF Next

\* Every variable keeps its type in every behaviour, whatever the environment does:
\* headers never lose their last DEK, and no message asks for a layer before the
\* first IV.
THEOREM TypeCorrect == Spec => []TypeOK
<1>1. Init => TypeOK /\ RoundHasEpoch
  BY InitType DEF Init, RoundHasEpoch, Idle
<1> QED BY <1>1, StepType, PTL DEF Spec

-----------------------------------------------------------------------------
(***************************************************************************)
(* The inductive invariant, under the safe conditions.                     *)
(***************************************************************************)

LEMMA LayersAppend ==
  ASSUME NEW c \in Call
  PROVE  LET layer == CTRLayer(c.dek, c.md.deks[1], Len(c.md.deks) + 1)
         IN /\ LayersOf(UpdatedMetadata(c)) = LayersOf(c.md) \cup {layer}
            /\ layer \notin LayersOf(c.md)
<1> DEFINE s == c.md.deks
           t == UpdatedMetadata(c).deks
           layer == CTRLayer(c.dek, s[1], Len(s) + 1)
<1>1. s \in Seq(DEK) /\ Len(s) \in Nat \ {0} /\ c.dek \in DEK
  BY DEF Call, Metadata
<1>2. t = Append(s, c.dek)
  BY DEF UpdatedMetadata
<1>3. /\ Len(t) = Len(s) + 1
      /\ t[Len(s) + 1] = c.dek
      /\ \A i \in 1..Len(s) : t[i] = s[i]
  BY <1>1, <1>2
<1> HIDE DEF s, t
<1>4. t[1] = s[1]
  BY <1>1, <1>3
<1>5. LayersOf(c.md) = {CTRLayer(s[i], s[1], i) : i \in 2..Len(s)}
  BY DEF LayersOf, s
<1>6. LayersOf(UpdatedMetadata(c)) = {CTRLayer(t[i], t[1], i) : i \in 2..Len(t)}
  BY DEF LayersOf, t
<1>7. \A i \in 2..Len(s) : CTRLayer(t[i], t[1], i) = CTRLayer(s[i], s[1], i)
  BY <1>1, <1>3, <1>4
<1>8. CTRLayer(t[Len(s) + 1], t[1], Len(s) + 1) = layer
  BY <1>3, <1>4
<1>9. 2..Len(t) = (2..Len(s)) \cup {Len(s) + 1}
  BY <1>1, <1>3
<1>10. LayersOf(UpdatedMetadata(c)) = LayersOf(c.md) \cup {layer}
  BY <1>5, <1>6, <1>7, <1>8, <1>9
<1>11. \A i \in 2..Len(s) : CTRLayer(s[i], s[1], i).offset # layer.offset
  BY <1>1 DEF CTRLayer
<1>12. layer \notin LayersOf(c.md)
  BY <1>5, <1>11
<1> QED BY <1>10, <1>12 DEF s

\* The steps that leave the bucket, the messages and the functions alone.
LEMMA CloudUnchanged ==
  ASSUME IInv, UNCHANGED <<store, events, functions, uploaded>>, epoch' \in Nat, epoch <= epoch',
         drawn' \in Nat, drawn <= drawn'
  PROVE  PendingLayer' /\ SettledLayers' /\ Stored'
<1>1. PendingLayer' /\ SettledLayers'
  BY DEF IInv, PendingLayer, SettledLayers, Settled, Lacks
<1>2. \A o \in Objects : store[o].md.key \in Nat /\ uploaded[o] \in Nat
  BY DEF IInv, TypeOK, StoredObject, Metadata
<1>3. Stored'
  BY <1>2 DEF IInv, Stored, TypeOK
<1> QED BY <1>1, <1>3

\* The exit of the daemon's process takes all its calls.
LEMMA ExitInv ==
  ASSUME IInv, TypeOK', ProcessExits, UNCHANGED <<cloud, epoch, drawn, uploaded>>
  PROVE  IInv'
<1>1. calls' = {} /\ round' = Idle
  BY DEF IInv, AtMostOneAtWork, ProcessExits
<1>2. PendingLayer' /\ SettledLayers' /\ Stored'
  BY CloudUnchanged DEF cloud, IInv, TypeOK
<1>3. RoundPhases'
  BY <1>1 DEF IInv, RoundPhases, Idle
<1>4. AtMostOneAtWork'
  BY <1>1 DEF IInv, AtMostOneAtWork, Idle, cloud
<1>5. CallsUpToDate'
  BY <1>1 DEF CallsUpToDate
<1> QED BY <1>2, <1>3, <1>4, <1>5 DEF IInv

LEMMA MainLoopInv ==
  ASSUME Allowed \subseteq SafeConditions, IInv, TypeOK', MainLoop
  PROVE  IInv'
<1>0. /\ epoch \in Nat /\ drawn \in Nat /\ round \in Round /\ "overlap" \notin Allowed
      /\ \A c \in calls : c \in Call
  BY DEF IInv, TypeOK, SafeConditions
<1>1. CASE StartRound
  <2>1. Drained /\ ~(round'.pc = "files")
    BY <1>0, <1>1 DEF StartRound
  <2>2. PendingLayer' /\ SettledLayers' /\ Stored'
    BY <1>0, <1>1, CloudUnchanged DEF StartRound, cloud, users
  <2>3. RoundPhases'
    BY <1>0, <1>1, <2>1 DEF StartRound, IInv, RoundPhases, Drained, cloud, NoDEK
  <2>4. AtMostOneAtWork'
    BY <1>1, <2>1 DEF StartRound, AtMostOneAtWork, Drained, cloud
  <2>5. CallsUpToDate'
    BY <1>1, <2>1 DEF StartRound, CallsUpToDate, Drained
  <2> QED BY <2>2, <2>3, <2>4, <2>5 DEF IInv
<1>2. CASE RemoveNotification \/ AddNotification \/ NotificationFails
  <2>1. /\ Drained /\ UNCHANGED <<store, events, functions, uploaded, epoch, calls, drawn, up>>
        /\ round.pc \in {"remove", "add"}
    BY <1>2 DEF RemoveNotification, AddNotification, NotificationFails, IInv, RoundPhases, users
  <2>2. PendingLayer' /\ SettledLayers' /\ Stored'
    BY <1>0, <2>1, CloudUnchanged
  <2>3. RoundPhases'
    BY <1>0, <1>2, <2>1 DEF RemoveNotification, AddNotification, NotificationFails, IInv, RoundPhases,
                      Drained, Round, Idle
  <2>4. AtMostOneAtWork'
    BY <2>1 DEF AtMostOneAtWork, Drained, Settled
  <2>5. CallsUpToDate'
    BY <2>1 DEF CallsUpToDate, Drained
  <2> QED BY <2>2, <2>3, <2>4, <2>5 DEF IInv
<1>3. ASSUME NEW o \in Objects, StartCall(o) PROVE IInv'
  <2> DEFINE c == NewCall(o, "akesod", epoch - 1, epoch, round.dek)
  <2>1. /\ round.pc = "files" /\ o \in round.todo /\ calls' = calls \cup {c}
        /\ round' = [round EXCEPT !.todo = round.todo \ {o}]
        /\ UNCHANGED <<store, notif, events, functions, uploaded, up, epoch, drawn>>
    BY <1>3 DEF StartCall, cloud, users
  <2>2. /\ c.obj = o /\ c.by = "akesod" /\ c.dek = round.dek /\ c.pc = "attrs" /\ c.gen = 0
        /\ c.old_key = epoch - 1 /\ c.new_key = epoch
    BY DEF NewCall
  <2> HIDE DEF c
  <2>3. PendingLayer' /\ SettledLayers' /\ Stored'
    BY <1>0, <2>1, CloudUnchanged
  <2>4. RoundPhases'
    BY <1>0, <2>1 DEF IInv, RoundPhases, Round
  <2>5. Settled(o) /\ \A d \in calls : d.obj # o
    BY <2>1 DEF IInv, AtMostOneAtWork
  <2>6. round'.todo = round.todo \ {o} /\ round'.pc = "files"
    BY <1>0, <2>1 DEF Round
  <2>7. AtMostOneAtWork'
    BY <2>1, <2>2, <2>5, <2>6 DEF IInv, AtMostOneAtWork, Settled
  <2>8. store[o].gen \in Nat
    BY DEF IInv, TypeOK, StoredObject
  <2>9. c.dek = notif /\ epoch > 0
    BY <2>1, <2>2 DEF IInv, RoundPhases
  <2>10. CallsUpToDate'
    <3>1. ASSUME NEW d \in calls' PROVE UpToDate(d)'
      BY <1>0, <2>1, <2>2, <2>8, <2>9 DEF IInv, CallsUpToDate, UpToDate
    <3> QED BY <3>1 DEF CallsUpToDate
  <2> QED BY <2>3, <2>4, <2>7, <2>10 DEF IInv
<1>4. CASE EndRound
  <2>1. UNCHANGED <<store, notif, events, functions, uploaded, up, epoch, drawn, calls>> /\ round' = Idle
    BY <1>4 DEF EndRound, cloud, users
  <2>2. PendingLayer' /\ SettledLayers' /\ Stored'
    BY <1>0, <2>1, CloudUnchanged
  <2>3. RoundPhases'
    BY <1>0, <1>4, <2>1 DEF IInv, RoundPhases, Idle, EndRound, NoDEK
  <2>4. AtMostOneAtWork'
    BY <2>1 DEF IInv, AtMostOneAtWork, Settled, Idle
  <2>5. CallsUpToDate'
    BY <2>1 DEF IInv, CallsUpToDate, UpToDate, HeaderOnly
  <2> QED BY <2>2, <2>3, <2>4, <2>5 DEF IInv
<1> QED BY <1>1, <1>2, <1>3, <1>4 DEF MainLoop

\* A call that goes on with nothing changed but its own record.
LEMMA AdvanceInv ==
  ASSUME IInv, TypeOK', NEW c \in calls, NEW d, Advance(c, d), UNCHANGED cloud,
         d.obj = c.obj, d.by = c.by, UpToDate(d)
  PROVE  IInv'
<1>1. /\ calls' = (calls \ {c}) \cup {d}
      /\ UNCHANGED <<store, notif, events, functions, up, epoch, round, drawn, uploaded>>
      /\ epoch \in Nat /\ drawn \in Nat
  BY DEF Advance, cloud, daemon, users, IInv, TypeOK
<1>2. PendingLayer' /\ SettledLayers' /\ Stored'
  BY <1>1, CloudUnchanged
<1>3. RoundPhases'
  BY <1>1 DEF IInv, RoundPhases, Drained
<1>4. AtMostOneAtWork'
  BY <1>1 DEF IInv, AtMostOneAtWork, Settled
<1>5. CallsUpToDate'
  BY <1>1 DEF IInv, CallsUpToDate, UpToDate, HeaderOnly
<1> QED BY <1>2, <1>3, <1>4, <1>5 DEF IInv

\* A call that returns without having changed anything.
LEMMA ReturnInv ==
  ASSUME IInv, TypeOK', NEW c \in calls, Return(c), UNCHANGED cloud
  PROVE  IInv'
<1>1. /\ calls' = calls \ {c}
      /\ UNCHANGED <<store, notif, events, functions, up, epoch, round, drawn, uploaded>>
      /\ epoch \in Nat /\ drawn \in Nat
  BY DEF Return, cloud, daemon, users, IInv, TypeOK
<1>2. PendingLayer' /\ SettledLayers' /\ Stored'
  BY <1>1, CloudUnchanged
<1>3. RoundPhases'
  BY <1>1 DEF IInv, RoundPhases, Drained
<1>4. AtMostOneAtWork'
  BY <1>1 DEF IInv, AtMostOneAtWork, Settled
<1>5. CallsUpToDate'
  BY <1>1 DEF IInv, CallsUpToDate, UpToDate, HeaderOnly
<1> QED BY <1>2, <1>3, <1>4, <1>5 DEF IInv

LEMMA FailInv ==
  ASSUME IInv, TypeOK', NEW c \in calls, Fail(c)
  PROVE  IInv'
<1>1. c.by = "akesod"
  BY DEF IInv, AtMostOneAtWork
<1> QED BY <1>1, ExitInv DEF Fail, users

\* The header write: the message it publishes asks for just the layer it added.
LEMMA UpdateMetadataInv ==
  ASSUME IInv, TypeOK', NEW c \in calls, c.pc = "metadata", store[c.obj].gen = c.gen, UpdateMetadata(c)
  PROVE  IInv'
<1> DEFINE o == c.obj
           md == UpdatedMetadata(c)
           e == [obj |-> c.obj, md |-> md, new_dek |-> notif, again |-> FALSE]
<1>0. /\ c \in Call /\ o \in Objects /\ store \in [Objects -> StoredObject] /\ epoch \in Nat
      /\ c.md \in Metadata /\ Len(c.md.deks) \in Nat /\ MaxReencryptions \in Nat
  BY BoundsAssumption DEF IInv, TypeOK, Call, Metadata
<1>1. /\ UpToDate(c) /\ notif # NoDEK /\ Settled(o) /\ c.dek = notif
      /\ \A d \in calls : d # c => d.obj # o
  BY DEF IInv, CallsUpToDate, UpToDate, RoundPhases, AtMostOneAtWork
<1>2. CASE Fail(c)
  BY <1>2, FailInv
<1>3. CASE ~Fail(c)
  <2>1. /\ calls' = calls \ {c} /\ events' = events \cup {e}
        /\ store' = [store EXCEPT ![o].md = md]
        /\ UNCHANGED <<notif, functions, up, epoch, round, drawn, uploaded>>
    BY <1>1, <1>3 DEF UpdateMetadata, Return, daemon, users
  <2>2. /\ store'[o].md = md /\ store'[o].payload = store[o].payload /\ store'[o].gen = store[o].gen
        /\ \A p \in Objects : p # o => store'[p] = store[p]
    BY <1>0, <2>1 DEF StoredObject
  <2>3. /\ e.obj = o /\ e.md = md /\ e.new_dek = c.dek
        /\ md.deks = Append(c.md.deks, c.dek) /\ md.times_updated = Len(c.md.deks) + 1
        /\ md.ongoing_reencryption /\ md.updated_by = "akesod-metadata-updater" /\ md.key = c.new_key
    BY <1>1 DEF UpdatedMetadata
  <2>4. /\ store[o].md = c.md /\ store[o].payload.layers = LayersOf(c.md)
        /\ store[o].payload.content = uploaded[o] /\ c.md.deks[1] = store[o].payload.base
    BY <1>0, <1>1 DEF UpToDate, IInv, SettledLayers, Stored
  <2>5. md.deks[1] = c.md.deks[1] /\ Len(md.deks) = Len(c.md.deks) + 1
    BY <1>0, <2>3 DEF Metadata, Call
  <2>6. Lacks(store'[o].payload, e)
    BY <1>0, <2>2, <2>3, <2>4, <2>5, LayersAppend DEF Lacks
  <2> HIDE DEF e, md
  <2>7. \A d \in events : d.obj # o
    BY <1>1 DEF Settled
  <2>8. \A f \in functions : f.event.obj # o
    BY <1>1 DEF Settled
  <2>9. /\ \A d \in events : d.obj \in Objects
        /\ \A f \in functions : f.event.obj \in Objects
        /\ \A d \in calls : d.obj \in Objects
    BY DEF IInv, TypeOK, Event, Function, Call
  <2>10. RoundPhases'
    BY <2>1 DEF IInv, RoundPhases, Drained
  <2>11. AtMostOneAtWork'
    <3>1. \A d \in calls' : d.obj # o /\ Settled(d.obj)'
      BY <1>1, <2>1, <2>3 DEF IInv, AtMostOneAtWork, Settled
    <3>2. \A p \in round'.todo : round'.pc = "files" => Settled(p)'
      BY <2>1, <2>3 DEF IInv, AtMostOneAtWork, Settled
    <3> QED BY <2>1, <2>3, <2>7, <2>8, <3>1, <3>2 DEF IInv, AtMostOneAtWork
  <2>12. CallsUpToDate'
    BY <1>1, <2>1, <2>2, <2>9 DEF IInv, CallsUpToDate, UpToDate, HeaderOnly
  <2>13. PendingLayer'
    <3>1. \A d \in events' : /\ store'[d.obj].md = d.md
                             /\ d.md.updated_by = "akesod-metadata-updater"
                             /\ d.md.ongoing_reencryption
                             /\ Lacks(store'[d.obj].payload, d)
      BY <2>1, <2>2, <2>3, <2>6, <2>7, <2>9 DEF IInv, PendingLayer
    <3>2. \A f \in functions' : /\ store'[f.event.obj].md = f.event.md
                                /\ f.event.md.ongoing_reencryption
                                /\ f.payload = store'[f.event.obj].payload
                                /\ Lacks(f.payload, f.event)
      BY <2>1, <2>2, <2>8, <2>9 DEF IInv, PendingLayer
    <3> QED BY <3>1, <3>2 DEF PendingLayer, Lacks
  <2>14. SettledLayers'
    BY <1>0, <2>1, <2>2, <2>3 DEF IInv, SettledLayers, Settled
  <2>15. Stored'
    <3>1. Len(md.deks) < MaxReencryptions /\ md.key = epoch
      BY <1>0, <1>1, <2>3, <2>5 DEF UpToDate, HeaderOnly
    <3> QED BY <1>0, <2>1, <2>2, <2>4, <2>5, <3>1 DEF IInv, Stored
  <2> QED BY <2>10, <2>11, <2>12, <2>13, <2>14, <2>15 DEF IInv
<1> QED BY <1>2, <1>3

\* A write of the whole object o, when no message or function is at o and no call
\* that has read o can take the new generation for the one it read.
LEMMA WholeWriteInv ==
  ASSUME IInv, TypeOK', NEW o \in Objects, NEW payload, NEW md, PutObject(o, payload, md), Settled(o),
         UNCHANGED <<notif, events, functions, up, epoch, round>>, calls' \subseteq calls,
         drawn' > 0, drawn <= drawn', uploaded'[o] <= drawn',
         \A p \in Objects : p # o => uploaded'[p] = uploaded[p],
         payload.layers = LayersOf(md), ~md.ongoing_reencryption, md.deks[1] = payload.base,
         payload.content = uploaded'[o], Len(md.deks) = 1, md.key <= epoch
  PROVE  IInv'
<1>1. /\ store'[o] = [gen |-> store[o].gen + 1, payload |-> payload, md |-> md]
      /\ \A p \in Objects : p # o => store'[p] = store[p]
  BY DEF PutObject, IInv, TypeOK
<1>2. /\ store'[o].md = md /\ store'[o].payload = payload /\ store'[o].gen = store[o].gen + 1
      /\ store[o].gen \in Nat
  BY <1>1 DEF IInv, TypeOK, StoredObject
<1>3. /\ \A e \in events : e.obj \in Objects /\ e.obj # o
      /\ \A f \in functions : f.event.obj \in Objects /\ f.event.obj # o
      /\ \A c \in calls : c.obj \in Objects /\ c.gen \in Nat /\ c.readGen \in Nat
  BY DEF IInv, TypeOK, Event, Function, Call, Settled
<1>4. RoundPhases'
  BY DEF IInv, RoundPhases, Drained
<1>5. AtMostOneAtWork'
  BY DEF IInv, AtMostOneAtWork, Settled
<1>6. CallsUpToDate'
  <2>1. ASSUME NEW c \in calls' PROVE UpToDate(c)'
    <3>1. UpToDate(c)
      BY <2>1 DEF IInv, CallsUpToDate
    <3>2. CASE c.obj = o
      BY <1>2, <1>3, <2>1, <3>1, <3>2 DEF UpToDate, HeaderOnly
    <3>3. CASE c.obj # o
      BY <1>1, <1>3, <2>1, <3>1, <3>3 DEF UpToDate, HeaderOnly
    <3> QED BY <3>2, <3>3
  <2> QED BY <2>1 DEF CallsUpToDate
<1>7. PendingLayer'
  BY <1>1, <1>3 DEF IInv, PendingLayer, Lacks
<1>8. SettledLayers'
  BY <1>1, <1>2 DEF IInv, SettledLayers, Settled
<1>9. Stored'
  <2>1. drawn \in Nat /\ drawn' \in Nat /\ \A p \in Objects : uploaded[p] \in Nat
    BY DEF IInv, TypeOK
  <2> QED BY <1>1, <1>2, <2>1 DEF IInv, Stored
<1> QED BY <1>4, <1>5, <1>6, <1>7, <1>8, <1>9 DEF IInv

LEMMA FreshFits ==
  ASSUME NEW dek, NEW content, NEW key
  PROVE  /\ FreshPayload(dek, content).layers = LayersOf(FreshMetadata(dek, key))
         /\ FreshMetadata(dek, key).deks[1] = FreshPayload(dek, content).base
         /\ Len(FreshMetadata(dek, key).deks) = 1
         /\ ~FreshMetadata(dek, key).ongoing_reencryption
         /\ FreshMetadata(dek, key).key = key
         /\ FreshPayload(dek, content).content = content
<1>1. Len(<<dek>>) = 1 /\ <<dek>>[1] = dek /\ 2..1 = {}
  OBVIOUS
<1>2. LayersOf(FreshMetadata(dek, key)) = {}
  BY <1>1 DEF LayersOf, FreshMetadata
<1> QED BY <1>1, <1>2 DEF FreshPayload, FreshMetadata

LEMMA AkesoUpdateInv ==
  ASSUME IInv, TypeOK', NEW c \in calls, AkesoUpdate(c)
  PROVE  IInv'
<1>0. /\ c \in Call /\ c.obj \in Objects /\ store[c.obj].gen \in Nat /\ epoch \in Nat
      /\ UpToDate(c) /\ Settled(c.obj) /\ c.gen \in Nat /\ c.readGen \in Nat
  BY DEF IInv, TypeOK, Call, StoredObject, CallsUpToDate, AtMostOneAtWork
<1>1. CASE UpdateAttrs(c)
  <2>1. CASE Fail(c)
    BY <2>1, FailInv
  <2>2. CASE ~Fail(c)
    <3> DEFINE pc == IF HeaderOnly(store[c.obj].md) THEN "metadata" ELSE "download"
               d == [c EXCEPT !.pc = pc, !.gen = store[c.obj].gen, !.md = store[c.obj].md]
    <3>1. store[c.obj].md.key = c.old_key /\ Advance(c, d) /\ UNCHANGED cloud
      BY <1>1, <2>2 DEF UpdateAttrs
    <3>2. /\ d.obj = c.obj /\ d.by = c.by /\ d.dek = c.dek /\ d.old_key = c.old_key /\ d.new_key = c.new_key
          /\ d.gen = store[c.obj].gen /\ d.md = store[c.obj].md /\ d.pc = pc
      BY <1>0 DEF Call
    <3> HIDE DEF d
    <3>3. UpToDate(d)
      BY <1>0, <3>1, <3>2 DEF UpToDate
    <3> QED BY <3>1, <3>2, <3>3, AdvanceInv
  <2> QED BY <2>1, <2>2
<1>2. CASE UpdateMetadata(c)
  BY <1>2, UpdateMetadataInv, FailInv DEF UpdateMetadata
<1>3. CASE DownloadAttrs(c)
  <2>1. CASE Fail(c)
    BY <2>1, FailInv
  <2>2. CASE ~Fail(c)
    <3> DEFINE d == [c EXCEPT !.pc = "payload", !.readGen = store[c.obj].gen, !.md = store[c.obj].md]
    <3>1. Advance(c, d) /\ UNCHANGED cloud
      BY <1>3, <2>2 DEF DownloadAttrs
    <3>2. /\ d.obj = c.obj /\ d.by = c.by /\ d.dek = c.dek /\ d.old_key = c.old_key /\ d.new_key = c.new_key
          /\ d.gen = c.gen /\ d.readGen = store[c.obj].gen /\ d.pc = "payload"
      BY <1>0 DEF Call
    <3> HIDE DEF d
    <3>3. UpToDate(d)
      BY <1>0, <3>2 DEF UpToDate
    <3> QED BY <3>1, <3>2, <3>3, AdvanceInv
  <2> QED BY <2>1, <2>2
<1>4. CASE DownloadPayload(c)
  <2>1. CASE Fail(c)
    BY <2>1, FailInv
  <2>2. CASE ~Fail(c)
    <3> DEFINE d == [c EXCEPT !.pc = "put", !.content = store[c.obj].payload.content]
    <3>1. Advance(c, d) /\ UNCHANGED cloud /\ c.pc = "payload" /\ store[c.obj].gen = c.readGen
      BY <1>4, <2>2 DEF DownloadPayload
    <3>2. /\ d.obj = c.obj /\ d.by = c.by /\ d.dek = c.dek /\ d.old_key = c.old_key /\ d.new_key = c.new_key
          /\ d.gen = c.gen /\ d.readGen = c.readGen /\ d.pc = "put"
          /\ d.content = store[c.obj].payload.content
      BY <1>0 DEF Call
    <3> HIDE DEF d
    <3>3. UpToDate(d)
      BY <1>0, <3>1, <3>2 DEF UpToDate
    <3> QED BY <3>1, <3>2, <3>3, AdvanceInv
  <2> QED BY <2>1, <2>2
<1>5. CASE PutReencrypted(c)
  <2>1. CASE UNCHANGED cloud
    BY <1>5, <2>1, ReturnInv DEF PutReencrypted
  <2>2. CASE ~UNCHANGED cloud
    <3> DEFINE payload == FreshPayload(c.dek, c.content)
               md == FreshMetadata(c.dek, c.new_key)
    <3>1. /\ c.pc = "put" /\ store[c.obj].gen = c.gen /\ PutObject(c.obj, payload, md)
          /\ calls' = calls \ {c}
          /\ UNCHANGED <<notif, events, functions, up, epoch, round, drawn, uploaded>>
      BY <1>5, <2>2 DEF PutReencrypted, Return, daemon, users
    <3>2. store[c.obj].gen = c.readGen
      BY <1>0, <3>1 DEF UpToDate
    <3>3. c.content = uploaded[c.obj]
      BY <1>0, <3>1, <3>2 DEF UpToDate, IInv, Stored
    <3>4. /\ payload.layers = LayersOf(md) /\ md.deks[1] = payload.base /\ Len(md.deks) = 1
          /\ ~md.ongoing_reencryption /\ md.key = c.new_key /\ payload.content = c.content
      BY FreshFits
    <3>5. drawn \in Nat /\ drawn > 0 /\ uploaded[c.obj] <= drawn /\ c.new_key <= epoch
      BY <1>0 DEF IInv, TypeOK, RoundPhases, Stored, UpToDate
    <3> HIDE DEF payload, md
    <3> QED BY <1>0, <3>1, <3>3, <3>4, <3>5, WholeWriteInv
  <2> QED BY <2>1, <2>2
<1> QED BY <1>1, <1>2, <1>3, <1>4, <1>5 DEF AkesoUpdate

LEMMA CloudFunctionInv ==
  ASSUME Allowed \subseteq SafeConditions, IInv, TypeOK', CloudFunction
  PROVE  IInv'
<1>0. "redeliver" \notin Allowed /\ "function_fault" \notin Allowed /\ epoch \in Nat
  BY DEF SafeConditions, IInv, TypeOK
<1>1. ASSUME NEW e \in events, FunctionReads(e) PROVE IInv'
  <2> DEFINE f == [event |-> e, payload |-> store[e.obj].payload]
  <2>1. /\ events' = events \ {e} /\ functions' = functions \cup {f}
        /\ UNCHANGED <<store, notif, up, epoch, round, calls, drawn, uploaded>>
    BY <1>0, <1>1 DEF FunctionReads, daemon, users
  <2>2. f.event = e /\ f.payload = store[e.obj].payload
    OBVIOUS
  <2> HIDE DEF f
  <2>3. /\ \A d \in events : d.obj = e.obj => d = e
        /\ \A g \in functions : g.event.obj # e.obj
    BY DEF IInv, AtMostOneAtWork
  <2>4. \A o \in Objects : Settled(o)' <=> Settled(o)
    BY <2>1, <2>2, <2>3 DEF Settled
  <2>5. RoundPhases'
    BY <2>1 DEF IInv, RoundPhases, Drained
  <2>6. AtMostOneAtWork'
    <3>1. \A c \in calls : Settled(c.obj)'
      BY <2>1, <2>2 DEF IInv, AtMostOneAtWork, Settled
    <3>2. \A o \in round.todo : round.pc = "files" => Settled(o)'
      BY <2>1, <2>2 DEF IInv, AtMostOneAtWork, Settled
    <3> QED BY <2>1, <2>2, <2>3, <3>1, <3>2 DEF IInv, AtMostOneAtWork
  <2>7. CallsUpToDate'
    BY <2>1 DEF IInv, CallsUpToDate, UpToDate, HeaderOnly
  <2>8. PendingLayer'
    <3>1. \A d \in events' : d \in events /\ store'[d.obj] = store[d.obj]
      BY <2>1
    <3>2. \A g \in functions' : g \in functions \/ g = f
      BY <2>1
    <3>3. /\ store'[e.obj].md = e.md /\ e.md.ongoing_reencryption
          /\ f.payload = store'[e.obj].payload /\ Lacks(f.payload, e)
      BY <2>1, <2>2 DEF IInv, PendingLayer
    <3>4. \A d \in events' : /\ store'[d.obj].md = d.md
                             /\ d.md.updated_by = "akesod-metadata-updater"
                             /\ d.md.ongoing_reencryption
                             /\ Lacks(store'[d.obj].payload, d)
      BY <3>1 DEF IInv, PendingLayer
    <3>5. \A g \in functions' : /\ store'[g.event.obj].md = g.event.md
                                /\ g.event.md.ongoing_reencryption
                                /\ g.payload = store'[g.event.obj].payload
                                /\ Lacks(g.payload, g.event)
      BY <2>1, <2>2, <3>2, <3>3 DEF IInv, PendingLayer
    <3> QED BY <3>4, <3>5 DEF PendingLayer, Lacks
  <2>9. SettledLayers'
    BY <2>1, <2>4 DEF IInv, SettledLayers
  <2>10. Stored'
    BY <2>1 DEF IInv, Stored
  <2> QED BY <2>5, <2>6, <2>7, <2>8, <2>9, <2>10 DEF IInv
<1>2. ASSUME NEW f \in functions, FunctionWrites(f) PROVE IInv'
  <2> DEFINE e == f.event
             o == f.event.obj
             layer == CTRLayer(e.new_dek, e.md.deks[1], e.md.times_updated)
             payload == EncryptCTR(f.payload, layer)
             md == [e.md EXCEPT !.updated_by = "cloud-function", !.ongoing_reencryption = FALSE]
  <2>1. /\ functions' = functions \ {f} /\ PutObject(o, payload, md)
        /\ UNCHANGED <<notif, events, up, epoch, round, calls, drawn, uploaded>>
    BY <1>2 DEF FunctionWrites, daemon, users
  <2>2. /\ o \in Objects /\ e.md \in Metadata /\ f.payload \in Payload /\ store[o].gen \in Nat
        /\ store \in [Objects -> StoredObject]
    BY DEF IInv, TypeOK, Function, Event, StoredObject
  <2>3. /\ store[o].md = e.md /\ f.payload = store[o].payload
        /\ layer \notin f.payload.layers /\ LayersOf(e.md) = f.payload.layers \cup {layer}
    BY DEF IInv, PendingLayer, Lacks
  <2>4. /\ payload.layers = LayersOf(e.md) /\ payload.base = store[o].payload.base
        /\ payload.content = store[o].payload.content
    BY <2>2, <2>3 DEF EncryptCTR, Payload
  <2>5. /\ md.deks = e.md.deks /\ md.key = e.md.key /\ ~md.ongoing_reencryption
    BY <2>2 DEF Metadata
  <2>6. LayersOf(md) = LayersOf(e.md)
    BY <2>5 DEF LayersOf
  <2> HIDE DEF layer, payload, md
  <2>7. /\ store'[o].md = md /\ store'[o].payload = payload /\ store'[o].gen = store[o].gen + 1
        /\ \A p \in Objects : p # o => store'[p] = store[p]
    BY <2>1, <2>2 DEF PutObject, StoredObject
  <2>8. /\ \A d \in events : d.obj # o /\ d.obj \in Objects
        /\ \A g \in functions : g.event.obj \in Objects /\ (g # f => g.event.obj # o)
        /\ \A c \in calls : c.obj # o /\ c.obj \in Objects
    BY DEF IInv, AtMostOneAtWork, Settled, TypeOK, Event, Function, Call
  <2>9. RoundPhases'
    BY <2>1 DEF IInv, RoundPhases, Drained
  <2>10. AtMostOneAtWork'
    BY <2>1 DEF IInv, AtMostOneAtWork, Settled
  <2>11. CallsUpToDate'
    BY <2>1, <2>7, <2>8 DEF IInv, CallsUpToDate, UpToDate, HeaderOnly
  <2>12. PendingLayer'
    BY <2>1, <2>7, <2>8 DEF IInv, PendingLayer, Lacks
  <2>13. SettledLayers'
    BY <2>1, <2>4, <2>5, <2>6, <2>7 DEF IInv, SettledLayers, Settled
  <2>14. Stored'
    <3>1. /\ store'[o].md.deks = store[o].md.deks /\ store'[o].md.key = store[o].md.key
          /\ store'[o].payload.base = store[o].payload.base
          /\ store'[o].payload.content = store[o].payload.content
      BY <2>3, <2>4, <2>5, <2>7
    <3>2. ASSUME NEW p \in Objects
          PROVE  /\ store'[p].md.deks = store[p].md.deks /\ store'[p].md.key = store[p].md.key
                 /\ store'[p].payload.base = store[p].payload.base
                 /\ store'[p].payload.content = store[p].payload.content
      BY <2>7, <3>1
    <3> QED BY <2>1, <3>2 DEF IInv, Stored
  <2> QED BY <2>9, <2>10, <2>11, <2>12, <2>13, <2>14 DEF IInv
<1> QED BY <1>0, <1>1, <1>2 DEF CloudFunction, FunctionFails

LEMMA CloudCpInv ==
  ASSUME Allowed \subseteq SafeConditions, IInv, TypeOK', CloudCp
  PROVE  IInv'
<1>0. "upload_race" \notin Allowed /\ "manual" \notin Allowed /\ epoch \in Nat /\ drawn \in Nat
  BY DEF SafeConditions, IInv, TypeOK
<1>1. ASSUME NEW o \in Objects, Upload(o) PROVE IInv'
  <2>1. PICK k \in 0..epoch : PutObject(o, FreshPayload(drawn + 1, drawn + 1), FreshMetadata(drawn + 1, k))
    BY <1>1 DEF Upload
  <2>2. /\ Settled(o) /\ drawn' = drawn + 1 /\ uploaded' = [uploaded EXCEPT ![o] = drawn + 1]
        /\ UNCHANGED <<notif, events, functions, up, epoch, round, calls>>
    BY <1>0, <1>1 DEF Upload, daemon
  <2>3. /\ uploaded'[o] = drawn + 1 /\ drawn' > 0 /\ drawn <= drawn' /\ uploaded'[o] <= drawn' /\ k <= epoch
        /\ \A p \in Objects : p # o => uploaded'[p] = uploaded[p]
    BY <1>0, <2>2 DEF IInv, TypeOK
  <2> QED BY <2>1, <2>2, <2>3, FreshFits, WholeWriteInv
<1>2. ASSUME NEW o \in Objects, ManualUpdate(o) PROVE IInv'
  BY <1>0, <1>2 DEF ManualUpdate
<1>3. CASE (\E o \in Objects : ReaderAttrs(o)) \/ ReaderPayload \/ ReaderDone
  <2>1. UNCHANGED <<store, notif, events, functions, up, epoch, round, calls, drawn, uploaded>>
    BY <1>3 DEF ReaderAttrs, ReaderPayload, ReaderDone, cloud, daemon
  <2>2. PendingLayer' /\ SettledLayers' /\ Stored'
    BY <1>0, <2>1, CloudUnchanged
  <2>3. RoundPhases' /\ AtMostOneAtWork'
    BY <2>1 DEF IInv, RoundPhases, AtMostOneAtWork, Drained, Settled
  <2>4. CallsUpToDate'
    BY <2>1 DEF IInv, CallsUpToDate, UpToDate, HeaderOnly
  <2> QED BY <2>2, <2>3, <2>4 DEF IInv
<1> QED BY <1>1, <1>2, <1>3 DEF CloudCp
LEMMA InitInv == Init => IInv
<1> SUFFICES ASSUME Init PROVE IInv
  OBVIOUS
<1>1. \A o \in Objects : /\ store[o].payload = FreshPayload(1, 1)
                         /\ store[o].md = FreshMetadata(1, 0)
                         /\ uploaded[o] = 1
  BY DEF Init
<1>2. SettledLayers /\ Stored
  BY <1>1, FreshFits DEF SettledLayers, Stored, Init
<1>3. RoundPhases /\ AtMostOneAtWork /\ CallsUpToDate /\ PendingLayer
  BY DEF Init, Idle, RoundPhases, AtMostOneAtWork, CallsUpToDate, PendingLayer
<1> QED BY <1>2, <1>3, InitType DEF IInv

LEMMA StepInv ==
  ASSUME Allowed \subseteq SafeConditions, IInv, [Next]_vars
  PROVE  IInv'
<1>0. TypeOK'
  <2>1. TypeOK /\ RoundHasEpoch
    BY DEF IInv, RoundPhases, RoundHasEpoch
  <2> QED BY <2>1, StepType
<1>1. CASE MainLoop
  BY <1>0, <1>1, MainLoopInv
<1>2. CASE Crash
  BY <1>0, <1>2, ExitInv DEF Crash, users
<1>3. CASE Restart
  <2>1. /\ UNCHANGED <<store, notif, events, functions, uploaded, epoch, round, calls, drawn>>
        /\ ~up /\ up' /\ epoch \in Nat /\ drawn \in Nat
    BY <1>3 DEF Restart, cloud, users, IInv, TypeOK
  <2>2. PendingLayer' /\ SettledLayers' /\ Stored'
    BY <2>1, CloudUnchanged
  <2>3. RoundPhases' /\ AtMostOneAtWork'
    BY <2>1 DEF IInv, RoundPhases, AtMostOneAtWork, Drained, Settled
  <2>4. CallsUpToDate'
    BY <2>1 DEF IInv, CallsUpToDate, UpToDate, HeaderOnly
  <2> QED BY <1>0, <2>2, <2>3, <2>4 DEF IInv
<1>4. ASSUME NEW c \in calls, AkesoUpdate(c) PROVE IInv'
  BY <1>0, <1>4, AkesoUpdateInv
<1>5. CASE CloudFunction
  BY <1>0, <1>5, CloudFunctionInv
<1>6. CASE CloudCp
  BY <1>0, <1>6, CloudCpInv
<1>7. CASE UNCHANGED vars
  BY <1>0, <1>7 DEF vars, IInv, RoundPhases, AtMostOneAtWork, CallsUpToDate, PendingLayer,
                    SettledLayers, Stored, Drained, Settled, UpToDate, HeaderOnly, Lacks
<1> QED BY <1>1, <1>2, <1>3, <1>4, <1>5, <1>6, <1>7 DEF Next

LEMMA Inductive ==
  ASSUME Allowed \subseteq SafeConditions
  PROVE  Spec => []IInv
<1>1. IInv /\ [Next]_vars => IInv'
  BY StepInv
<1> QED BY <1>1, InitInv, PTL DEF Spec

-----------------------------------------------------------------------------
(***************************************************************************)
(* The properties, under the safe conditions: the daemon and the calls may *)
(* fail at any point, rounds wait for the messages of the last one.        *)
(***************************************************************************)

\* Whenever no message about an object is left, the key its header is wrapped under
\* decrypts it, whatever crashes and failed writes there were (akeso.go, encrypt-object.go).
THEOREM Readable == ASSUME Allowed \subseteq SafeConditions
                    PROVE  Spec => []SettledReadable
<1>1. IInv => SettledReadable
  BY DEF IInv, SettledLayers, Stored, SettledReadable, Decrypts
<1> QED BY <1>1, Inductive, PTL

\* A rotation never replaces what a user uploaded, through either branch of
\* AkesoUpdate or the cloud function.
THEOREM Kept == ASSUME Allowed \subseteq SafeConditions
                PROVE  Spec => []UploadKept
<1>1. IInv => UploadKept
  BY DEF IInv, Stored, UploadKept
<1> QED BY <1>1, Inductive, PTL

\* max_reencryptions bounds the DEKs of a header, and no payload has a layer that
\* its header does not list.
THEOREM Bounded == ASSUME Allowed \subseteq SafeConditions
                   PROVE  Spec => []ReencryptionBound
<1>1. ASSUME IInv, NEW o \in Objects PROVE store[o].payload.layers \subseteq LayersOf(store[o].md)
  <2>1. CASE Settled(o)
    BY <1>1, <2>1 DEF IInv, SettledLayers
  <2>2. CASE \E e \in events : e.obj = o
    BY <1>1, <2>2 DEF IInv, PendingLayer, Lacks
  <2>3. CASE \E f \in functions : f.event.obj = o
    BY <1>1, <2>3 DEF IInv, PendingLayer, Lacks
  <2> QED BY <2>1, <2>2, <2>3 DEF Settled
<1>2. IInv => ReencryptionBound
  BY <1>1 DEF IInv, Stored, ReencryptionBound
<1> QED BY <1>2, Inductive, PTL

\* The ongoing_reencryption flag of an object says whether a message or a function
\* is still to bring the payload up to its header.
THEOREM Ongoing == ASSUME Allowed \subseteq SafeConditions
                   PROVE  Spec => []OngoingIffPending
<1>1. ASSUME IInv, NEW o \in Objects PROVE store[o].md.ongoing_reencryption <=> ~Settled(o)
  <2>1. CASE Settled(o)
    BY <1>1, <2>1 DEF IInv, SettledLayers
  <2>2. CASE \E e \in events : e.obj = o
    BY <1>1, <2>2 DEF IInv, PendingLayer, Settled
  <2>3. CASE \E f \in functions : f.event.obj = o
    BY <1>1, <2>3 DEF IInv, PendingLayer, Settled
  <2> QED BY <2>1, <2>2, <2>3 DEF Settled
<1>2. IInv => OngoingIffPending
  BY <1>1 DEF OngoingIffPending
<1> QED BY <1>2, Inductive, PTL
-----------------------------------------------------------------------------
(***************************************************************************)
(* Under the safe conditions AkesoObject implements KeyRotation.  First    *)
(* what a step does to the abstract state, then the two theorems.          *)
(***************************************************************************)

\* A step that leaves keys, contents and the messages about objects alone.
LEMMA Stutters ==
  ASSUME epoch' = epoch,
         \A o \in Objects : /\ store'[o].md.key = store[o].md.key
                            /\ store'[o].payload.content = store[o].payload.content
                            /\ Settled(o)' <=> Settled(o)
  PROVE  UNCHANGED Rotation!vars
  BY DEF Rotation!vars

\* A step that takes one object, with no message about it, to the current key.
LEMMA Rotates ==
  ASSUME NEW o \in Objects, epoch \in Nat, epoch' = epoch, Settled(o), store[o].md.key < epoch,
         store'[o].md.key = epoch,
         \A p \in Objects : /\ p # o => store'[p].md.key = store[p].md.key
                            /\ store'[p].payload.content = store[p].payload.content
                            /\ p # o => (Settled(p)' <=> Settled(p))
  PROVE  Rotation!Rotate(o)
<1>1. epoch \in 0..epoch
  OBVIOUS
<1> QED BY <1>1 DEF Rotation!Rotate

\* What writes the daemon's side makes: none, the header write or the whole object.
LEMMA AkesoUpdateWrites ==
  ASSUME IInv, NEW c \in calls, AkesoUpdate(c)
  PROVE  \/ UNCHANGED <<store, events, functions, epoch, commands>>
         \/ /\ c.pc = "metadata" /\ store[c.obj].gen = c.gen
            /\ store' = [store EXCEPT ![c.obj].md = UpdatedMetadata(c)]
            /\ \A e \in events' : e \in events \/ e.obj = c.obj
            /\ events \subseteq events'
            /\ UNCHANGED <<functions, epoch, commands>>
         \/ /\ c.pc = "put" /\ store[c.obj].gen = c.gen
            /\ PutObject(c.obj, FreshPayload(c.dek, c.content), FreshMetadata(c.dek, c.new_key))
            /\ UNCHANGED <<events, functions, epoch, commands>>
<1>1. CASE UpdateAttrs(c)
  BY <1>1 DEF UpdateAttrs, Advance, Fail, cloud, daemon, users
<1>2. CASE UpdateMetadata(c)
  BY <1>2 DEF UpdateMetadata, Return, Fail, cloud, daemon, users
<1>3. CASE DownloadAttrs(c)
  BY <1>3 DEF DownloadAttrs, Advance, Fail, cloud, daemon, users
<1>4. CASE DownloadPayload(c)
  BY <1>4 DEF DownloadPayload, Advance, Fail, cloud, daemon, users
<1>5. CASE PutReencrypted(c)
  BY <1>5 DEF PutReencrypted, Return, cloud, daemon, users
<1> QED BY <1>1, <1>2, <1>3, <1>4, <1>5 DEF AkesoUpdate

LEMMA AkesoUpdateRotates ==
  ASSUME IInv, NEW c \in calls, AkesoUpdate(c)
  PROVE  /\ UNCHANGED Rotation!vars \/ Rotation!Rotate(c.obj)
         /\ \A o \in Objects : store'[o].md.key >= store[o].md.key
         /\ c.obj \in Objects /\ commands' = commands
<1> DEFINE o == c.obj
<1>1. /\ c \in Call /\ o \in Objects /\ store \in [Objects -> StoredObject] /\ epoch \in Nat /\ epoch > 0
      /\ \A p \in Objects : store[p].md.key \in Nat
      /\ Settled(o) /\ UpToDate(c) /\ store[o].md.key <= epoch
      /\ store[o].gen \in Nat
  BY DEF IInv, TypeOK, Call, StoredObject, Metadata, AtMostOneAtWork, CallsUpToDate, Stored, RoundPhases
<1>2. CASE UNCHANGED <<store, events, functions, epoch, commands>>
  <2>1. UNCHANGED Rotation!vars
    BY <1>2, Stutters DEF Settled
  <2> QED BY <1>1, <1>2, <2>1
<1>3. CASE /\ c.pc = "metadata" /\ store[c.obj].gen = c.gen
           /\ store' = [store EXCEPT ![c.obj].md = UpdatedMetadata(c)]
           /\ \A e \in events' : e \in events \/ e.obj = c.obj
           /\ events \subseteq events'
           /\ UNCHANGED <<functions, epoch, commands>>
  <2>1. store[o].md.key = c.old_key /\ c.old_key + 1 = epoch /\ c.new_key = epoch /\ c.old_key \in Nat
    BY <1>1, <1>3 DEF UpToDate, Call
  <2>2. UpdatedMetadata(c).key = epoch
    BY <2>1 DEF UpdatedMetadata
  <2>3. /\ store'[o].md.key = epoch
        /\ \A p \in Objects : p # o => store'[p] = store[p]
        /\ store'[o].payload = store[o].payload
    BY <1>1, <1>3, <2>2 DEF StoredObject
  <2>4. \A p \in Objects : p # o => (Settled(p)' <=> Settled(p))
    BY <1>3 DEF Settled
  <2>5. Rotation!Rotate(o)
    BY <1>1, <1>3, <2>1, <2>3, <2>4, Rotates
  <2> QED BY <1>1, <1>3, <2>1, <2>3, <2>5
<1>4. CASE /\ c.pc = "put" /\ store[c.obj].gen = c.gen
           /\ PutObject(c.obj, FreshPayload(c.dek, c.content), FreshMetadata(c.dek, c.new_key))
           /\ UNCHANGED <<events, functions, epoch, commands>>
  <2>1. /\ c.new_key = epoch /\ c.content = store[o].payload.content
    BY <1>1, <1>4 DEF UpToDate, Call
  <2>2. /\ store'[o].md.key = epoch /\ store'[o].payload.content = c.content
        /\ \A p \in Objects : p # o => store'[p] = store[p]
    BY <1>1, <1>4, <2>1 DEF PutObject, FreshPayload, FreshMetadata
  <2>3. \A p \in Objects : Settled(p)' <=> Settled(p)
    BY <1>4 DEF Settled
  <2>4. CASE store[o].md.key = epoch
    BY <1>1, <1>4, <2>1, <2>2, <2>3, <2>4, Stutters
  <2>5. CASE store[o].md.key < epoch
    BY <1>1, <1>4, <2>1, <2>2, <2>3, <2>5, Rotates
  <2> QED BY <1>1, <2>4, <2>5
<1> QED BY <1>1, <1>2, <1>3, <1>4, AkesoUpdateWrites

LEMMA CloudFunctionRotates ==
  ASSUME Allowed \subseteq SafeConditions, IInv, CloudFunction
  PROVE  /\ UNCHANGED Rotation!vars \/ \E o \in Objects : Rotation!Finish(o)
         /\ \A o \in Objects : store'[o].md.key = store[o].md.key
<1>1. "redeliver" \notin Allowed /\ "function_fault" \notin Allowed
  BY DEF SafeConditions
<1>2. ASSUME NEW e \in events, FunctionReads(e)
      PROVE  UNCHANGED Rotation!vars /\ UNCHANGED store
  <2> DEFINE f == [event |-> e, payload |-> store[e.obj].payload]
  <2>1. /\ events' = events \ {e} /\ functions' = functions \cup {f}
        /\ UNCHANGED <<store, epoch>>
    BY <1>1, <1>2 DEF FunctionReads, daemon
  <2>2. f.event = e
    OBVIOUS
  <2> HIDE DEF f
  <2>3. \A o \in Objects : Settled(o)' <=> Settled(o)
    BY <2>1, <2>2 DEF IInv, AtMostOneAtWork, Settled
  <2> QED BY <2>1, <2>3, Stutters
<1>3. ASSUME NEW f \in functions, FunctionWrites(f)
      PROVE  /\ \E o \in Objects : Rotation!Finish(o)
             /\ \A o \in Objects : store'[o].md.key = store[o].md.key
  <2> DEFINE o == f.event.obj
             layer == CTRLayer(f.event.new_dek, f.event.md.deks[1], f.event.md.times_updated)
             payload == EncryptCTR(f.payload, layer)
             md == [f.event.md EXCEPT !.updated_by = "cloud-function", !.ongoing_reencryption = FALSE]
  <2>1. /\ functions' = functions \ {f} /\ PutObject(o, payload, md) /\ UNCHANGED <<events, epoch>>
    BY <1>3 DEF FunctionWrites, daemon
  <2>2. /\ o \in Objects /\ f.event.md \in Metadata /\ f.payload \in Payload
        /\ store \in [Objects -> StoredObject]
    BY DEF IInv, TypeOK, Function, Event
  <2>3. store[o].md = f.event.md /\ store[o].payload = f.payload
    BY DEF IInv, PendingLayer
  <2>4. payload.content = f.payload.content /\ md.key = f.event.md.key
    BY <2>2 DEF EncryptCTR, Payload, Metadata
  <2> HIDE DEF layer, payload, md
  <2>5. \A p \in Objects : /\ store'[p].md.key = store[p].md.key
                           /\ store'[p].payload.content = store[p].payload.content
    BY <2>1, <2>2, <2>3, <2>4 DEF PutObject
  <2>6. ~Settled(o) /\ Settled(o)' /\ \A p \in Objects : p # o => (Settled(p)' <=> Settled(p))
    BY <2>1 DEF IInv, AtMostOneAtWork, Settled
  <2>7. Rotation!Finish(o)
    BY <2>1, <2>2, <2>5, <2>6 DEF Rotation!Finish
  <2> QED BY <2>2, <2>5, <2>7
<1> QED BY <1>1, <1>2, <1>3 DEF CloudFunction, FunctionFails

LEMMA CloudCpRotates ==
  ASSUME Allowed \subseteq SafeConditions, IInv, CloudCp
  PROVE  \/ UNCHANGED Rotation!vars /\ UNCHANGED store
         \/ commands' # commands /\ \E o \in Objects : Rotation!Upload(o)
<1>1. /\ "upload_race" \notin Allowed /\ "manual" \notin Allowed /\ commands \in Nat
      /\ epoch \in Nat /\ drawn \in Nat /\ store \in [Objects -> StoredObject]
  BY DEF SafeConditions, IInv, TypeOK
<1>2. ASSUME NEW o \in Objects, Upload(o)
      PROVE  commands' # commands /\ Rotation!Upload(o)
  <2>1. PICK k \in {k \in 0..epoch : k + 1 >= epoch} :
          PutObject(o, FreshPayload(drawn + 1, drawn + 1), FreshMetadata(drawn + 1, k))
    BY <1>2 DEF Upload
  <2>2. Settled(o) /\ commands' = commands + 1 /\ UNCHANGED <<events, functions, epoch>>
    BY <1>1, <1>2 DEF Upload, daemon
  <2>3. /\ store'[o].md.key = k /\ store'[o].payload.content = drawn + 1
        /\ \A p \in Objects : p # o => store'[p] = store[p]
    BY <1>1, <2>1 DEF PutObject, FreshPayload, FreshMetadata
  <2>4. \A p \in Objects : store[p].payload.content \in Nat /\ store[p].payload.content <= drawn
    BY <1>1 DEF StoredObject, Payload, IInv, Stored
  <2>5. \A p \in Objects : store'[p].payload.content \in Nat
    BY <1>1, <2>3, <2>4
  <2>6. \A p \in Objects : Settled(p)' <=> Settled(p)
    BY <2>2 DEF Settled
  <2>7. store[o].payload.content < drawn + 1
    BY <1>1, <2>4
  <2>8. Rotation!Upload(o)
    BY <2>2, <2>3, <2>5, <2>6, <2>7 DEF Rotation!Upload
  <2> QED BY <1>1, <2>2, <2>8
<1>3. CASE (\E o \in Objects : ReaderAttrs(o)) \/ ReaderPayload \/ ReaderDone
  <2>1. UNCHANGED <<store, events, functions, epoch>>
    BY <1>3 DEF ReaderAttrs, ReaderPayload, ReaderDone, cloud, daemon
  <2> QED BY <2>1, Stutters DEF Settled
<1> QED BY <1>1, <1>2, <1>3 DEF CloudCp, ManualUpdate

LEMMA MainLoopRotates ==
  ASSUME Allowed \subseteq SafeConditions, IInv, MainLoop
  PROVE  (UNCHANGED Rotation!vars \/ Rotation!NextKey) /\ UNCHANGED store
<1>1. "overlap" \notin Allowed /\ epoch \in Nat
  BY DEF SafeConditions, IInv, TypeOK
<1>2. CASE StartRound
  <2>1. Drained /\ epoch' = epoch + 1 /\ UNCHANGED <<store, events, functions>>
    BY <1>1, <1>2 DEF StartRound, cloud
  <2>2. \A o \in Objects : Settled(o) /\ Settled(o)'
    BY <2>1 DEF Drained, Settled
  <2> QED BY <1>1, <2>1, <2>2 DEF Rotation!NextKey
<1>3. CASE ~StartRound
  <2>1. UNCHANGED <<store, events, functions, epoch>>
    BY <1>3 DEF MainLoop, RemoveNotification, AddNotification, NotificationFails, StartCall, EndRound, cloud
  <2> QED BY <2>1, Stutters DEF Settled
<1> QED BY <1>2, <1>3

\* The steps that are neither the main loop's, nor a call's, a function's or a user's.
LEMMA OthersRotate ==
  ASSUME Crash \/ Restart \/ UNCHANGED vars
  PROVE  UNCHANGED Rotation!vars /\ UNCHANGED store
<1>1. UNCHANGED <<store, events, functions, epoch>>
  BY DEF Crash, Restart, cloud, vars
<1> QED BY <1>1, Stutters DEF Settled

\* Only an upload takes an object back to an earlier key: neither the daemon nor the
\* cloud function writes a header computed from what it read too long ago.
THEOREM NoRollBack == ASSUME Allowed \subseteq SafeConditions
                      PROVE  Spec => KeyNeverRollsBack
<1>1. ASSUME IInv, [Next]_vars, commands' = commands, NEW o \in Objects
      PROVE  store'[o].md.key >= store[o].md.key
  <2>1. store[o].md.key \in Nat
    BY <1>1 DEF IInv, TypeOK, StoredObject, Metadata
  <2>2. CASE \E c \in calls : AkesoUpdate(c)
    BY <1>1, <2>2, AkesoUpdateRotates
  <2> QED BY <1>1, <2>1, <2>2, MainLoopRotates, CloudFunctionRotates, CloudCpRotates, OthersRotate DEF Next
<1>2. IInv /\ [Next]_vars
        => [commands' = commands => \A o \in Objects : store'[o].md.key >= store[o].md.key]_vars
  BY <1>1
<1> QED BY <1>2, Inductive, PTL DEF Spec, KeyNeverRollsBack

\* Seen through the refinement mapping, the header writes, messages and functions of
\* the rounds are the rotations of KeyRotation and nothing else.
THEOREM Refinement == ASSUME Allowed \subseteq SafeConditions
                      PROVE  Spec => ImplementsKeyRotation
<1>1. Init => Rotation!Init
  <2> SUFFICES ASSUME Init PROVE Rotation!Init
    OBVIOUS
  <2>1. \A o \in Objects : store[o].md.key = 0 /\ store[o].payload.content = 1 /\ Settled(o)
    BY DEF Init, FreshPayload, FreshMetadata, Settled
  <2> QED BY <2>1 DEF Rotation!Init, Init
<1>2. ASSUME IInv, [Next]_vars PROVE [Rotation!Next]_(Rotation!vars)
  <2>1. CASE \E c \in calls : AkesoUpdate(c)
    BY <1>2, <2>1, AkesoUpdateRotates DEF Rotation!Next
  <2> QED BY <1>2, <2>1, MainLoopRotates, CloudFunctionRotates, CloudCpRotates, OthersRotate
          DEF Next, Rotation!Next
<1> QED BY <1>1, <1>2, Inductive, PTL DEF Spec, ImplementsKeyRotation, Rotation!Spec
-----------------------------------------------------------------------------
(***************************************************************************)
(* What holds whatever the environment does: the payload a call or a user  *)
(* has read is the object's as long as its generation is the one read.     *)
(* The header is too, as long as the calls for one object rotate over      *)
(* disjoint spans of keys: two that rotate from one key need an operator   *)
(* who does not wait for the calls of the object.                          *)
(***************************************************************************)

ReadsOf(c) ==
  /\ c.gen <= store[c.obj].gen
  /\ c.pc \in {"payload", "put"} => c.gen <= c.readGen /\ c.readGen <= store[c.obj].gen
  /\ c.pc = "put" /\ store[c.obj].gen = c.readGen => store[c.obj].payload.content = c.content

CallReads == \A c \in calls : ReadsOf(c)

\* A metadata write keeps the generation, so that only the span of its keys tells a
\* call that the header is still the one it read.
KeyReadOf(c) ==
  /\ c.pc = "metadata" /\ store[c.obj].gen = c.gen => store[c.obj].md.key = c.old_key
  /\ c.pc \in {"payload", "put"} /\ store[c.obj].gen = c.readGen => store[c.obj].md.key = c.old_key

KeyReads == \A c \in calls : KeyReadOf(c)

KeySpans ==
  \A c \in calls : /\ c.old_key < c.new_key /\ c.new_key <= epoch
                   /\ round.pc \in {"remove", "add", "files"} /\ c.obj \in round.todo => c.new_key < epoch
                   /\ \A d \in calls : c.obj = d.obj /\ c # d
                                         => c.new_key <= d.old_key \/ d.new_key <= c.old_key

ReaderReads ==
  /\ reader.pc = "payload"
       => /\ reader.gen <= store[reader.obj].gen
          /\ store[reader.obj].gen = reader.gen
               => (Decrypts(store[reader.obj].payload, reader.md, reader.md.key) <=> reader.whole)
  /\ reader.pc = "garbled" => ~reader.whole

ReadInv == /\ TypeOK
           /\ RoundHasEpoch
           /\ CallReads
           /\ ReaderReads

SpanInv == /\ KeyReads
           /\ KeySpans

LEMMA StoreType ==
  ASSUME TypeOK, NEW o \in Objects
  PROVE  /\ store[o] \in StoredObject /\ store[o].gen \in Nat /\ store[o].md \in Metadata
         /\ store[o].md.key \in Nat /\ store[o].payload \in Payload
  BY DEF TypeOK, StoredObject, Metadata

LEMMA CallType ==
  ASSUME TypeOK, NEW c \in calls
  PROVE  /\ c \in Call /\ c.obj \in Objects /\ c.old_key \in Nat /\ c.new_key \in Nat /\ c.gen \in Nat
         /\ c.readGen \in Nat /\ c.md \in Metadata /\ c.content \in Nat
  BY DEF TypeOK, Call

\* An object is left alone, or written whole and of a later generation, or its header
\* is written by a call that has read its current generation.
LeftAlone(o) == store'[o] = store[o]
Written(o) == store'[o].gen > store[o].gen
HeaderWritten(o, c) ==
  /\ c.obj = o /\ c.pc = "metadata" /\ store[o].gen = c.gen
  /\ store'[o].gen = store[o].gen /\ store'[o].payload = store[o].payload
  /\ store'[o].md.key = c.new_key
  /\ calls' = calls \ {c}

LEMMA PutWrites ==
  ASSUME TypeOK, NEW o \in Objects, NEW payload, NEW md, PutObject(o, payload, md)
  PROVE  /\ \A p \in Objects : LeftAlone(p) \/ Written(p)
         /\ store'[o].payload = payload /\ store'[o].md = md
         /\ \A p \in Objects : p # o => LeftAlone(p)
<1>1. store \in [Objects -> StoredObject] /\ store[o].gen \in Nat
  BY StoreType DEF TypeOK
<1> QED BY <1>1 DEF PutObject, LeftAlone, Written

\* What each step does to the objects.
LEMMA StoreSteps ==
  ASSUME TypeOK, [Next]_vars, NEW o \in Objects
  PROVE  LeftAlone(o) \/ Written(o) \/ \E c \in calls : UpdateMetadata(c) /\ HeaderWritten(o, c)
<1>1. CASE MainLoop \/ Crash \/ Restart \/ UNCHANGED vars
  <2>1. store' = store
    BY <1>1 DEF MainLoop, StartRound, RemoveNotification, AddNotification, NotificationFails, StartCall,
                EndRound, Crash, Restart, cloud, vars
  <2> QED BY <2>1 DEF LeftAlone
<1>2. ASSUME NEW c \in calls, UpdateAttrs(c) \/ DownloadAttrs(c) \/ DownloadPayload(c)
      PROVE  LeftAlone(o)
  BY <1>2 DEF UpdateAttrs, DownloadAttrs, DownloadPayload, Fail, cloud, LeftAlone
<1>3. ASSUME NEW c \in calls, UpdateMetadata(c)
      PROVE  LeftAlone(o) \/ HeaderWritten(o, c)
  <2>1. CASE Fail(c)
    BY <2>1 DEF Fail, cloud, LeftAlone
  <2>2. CASE ~Fail(c)
    <3>1. /\ c.pc = "metadata" /\ store[c.obj].gen = c.gen /\ calls' = calls \ {c}
          /\ store' = [store EXCEPT ![c.obj].md = UpdatedMetadata(c)]
      BY <1>3, <2>2 DEF UpdateMetadata, Return
    <3>2. store \in [Objects -> StoredObject] /\ c.obj \in Objects
      BY CallType DEF TypeOK
    <3>3. CASE o = c.obj
      <4>1. store'[o] = [store[o] EXCEPT !.md = UpdatedMetadata(c)]
        BY <3>1, <3>2, <3>3
      <4>2. UpdatedMetadata(c).key = c.new_key
        BY DEF UpdatedMetadata
      <4> QED BY <3>1, <3>3, <4>1, <4>2, StoreType DEF HeaderWritten, StoredObject
    <3>4. CASE o # c.obj
      BY <3>1, <3>2, <3>4 DEF LeftAlone
    <3> QED BY <3>3, <3>4
  <2> QED BY <2>1, <2>2
<1>4. ASSUME NEW c \in calls, PutReencrypted(c) PROVE LeftAlone(o) \/ Written(o)
  <2>1. CASE UNCHANGED cloud
    BY <2>1 DEF cloud, LeftAlone
  <2>2. CASE PutObject(c.obj, FreshPayload(c.dek, c.content), FreshMetadata(c.dek, c.new_key))
    BY <2>2, CallType, PutWrites
  <2> QED BY <1>4, <2>1, <2>2 DEF PutReencrypted
<1>5. CASE CloudFunction
  <2>1. ASSUME NEW f \in functions, FunctionWrites(f) PROVE LeftAlone(o) \/ Written(o)
    <3>1. f.event.obj \in Objects
      BY DEF TypeOK, Function, Event
    <3>2. PICK payload, md : PutObject(f.event.obj, payload, md)
      BY <2>1 DEF FunctionWrites
    <3> QED BY <3>1, <3>2, PutWrites
  <2>2. (\E e \in events : FunctionReads(e)) \/ (\E f \in functions : FunctionFails(f)) => LeftAlone(o)
    BY DEF FunctionReads, FunctionFails, LeftAlone
  <2> QED BY <1>5, <2>1, <2>2 DEF CloudFunction
<1>6. CASE CloudCp
  <2>1. ASSUME NEW p \in Objects, Upload(p) PROVE LeftAlone(o) \/ Written(o)
    <3>1. PICK payload, md : PutObject(p, payload, md)
      BY <2>1 DEF Upload
    <3> QED BY <3>1, PutWrites
  <2>2. (\E p \in Objects : ManualUpdate(p) \/ ReaderAttrs(p)) \/ ReaderPayload \/ ReaderDone => LeftAlone(o)
    BY DEF ManualUpdate, ReaderAttrs, ReaderPayload, ReaderDone, cloud, LeftAlone
  <2> QED BY <1>6, <2>1, <2>2 DEF CloudCp
<1> QED BY <1>1, <1>2, <1>3, <1>4, <1>5, <1>6 DEF Next, AkesoUpdate

\* A call that goes on knows what it has just read.
Advances(c, d) ==
  /\ store' = store /\ epoch' = epoch /\ round' = round
  /\ calls' = (calls \ {c}) \cup {d}
  /\ d.obj = c.obj /\ d.old_key = c.old_key /\ d.new_key = c.new_key
  /\ \/ /\ d.pc \in {"metadata", "download"} /\ d.gen = store[c.obj].gen
        /\ store[c.obj].md.key = c.old_key
     \/ /\ d.pc = "payload" /\ d.gen = c.gen /\ d.readGen = store[c.obj].gen
        /\ store[c.obj].md.key = c.old_key
     \/ /\ c.pc = "payload" /\ d.pc = "put" /\ d.gen = c.gen /\ d.readGen = c.readGen
        /\ d.content = store[c.obj].payload.content

Begins(o, d) ==
  /\ store' = store /\ epoch' = epoch
  /\ calls' = calls \cup {d}
  /\ d.obj = o /\ d.pc = "attrs" /\ d.gen = 0 /\ d.new_key = epoch
  /\ \/ /\ round.pc = "files" /\ o \in round.todo /\ d.old_key = epoch - 1
        /\ round' = [round EXCEPT !.todo = @ \ {o}]
     \/ /\ d.old_key < epoch /\ round' = round
        /\ "manual_race" \in Allowed \/ ~AtWork(o)

\* What each step does to the calls.
LEMMA CallSteps ==
  ASSUME TypeOK, [Next]_vars
  PROVE  \/ \E o \in Objects : \E d : Begins(o, d)
         \/ \E c \in calls : \E d : Advances(c, d)
         \/ calls' \subseteq calls
<1>1. ASSUME NEW o \in Objects, StartCall(o) PROVE \E d : Begins(o, d)
  <2> DEFINE d == NewCall(o, "akesod", epoch - 1, epoch, round.dek)
  <2>1. d.obj = o /\ d.pc = "attrs" /\ d.gen = 0 /\ d.new_key = epoch /\ d.old_key = epoch - 1
    BY DEF NewCall
  <2> HIDE DEF d
  <2>2. /\ store' = store /\ epoch' = epoch /\ calls' = calls \cup {d} /\ round.pc = "files"
        /\ o \in round.todo /\ round' = [round EXCEPT !.todo = @ \ {o}]
    BY <1>1 DEF StartCall, cloud, d
  <2> QED BY <2>1, <2>2 DEF Begins
<1>2. ASSUME NEW o \in Objects, ManualUpdate(o) PROVE \E d : Begins(o, d)
  <2> DEFINE d == NewCall(o, "cloud-cp", store[o].md.key, epoch, drawn + 1)
  <2>1. d.obj = o /\ d.pc = "attrs" /\ d.gen = 0 /\ d.new_key = epoch /\ d.old_key = store[o].md.key
    BY DEF NewCall
  <2> HIDE DEF d
  <2>2. /\ store' = store /\ epoch' = epoch /\ calls' = calls \cup {d} /\ round' = round
        /\ store[o].md.key < epoch /\ ("manual_race" \in Allowed \/ ~AtWork(o))
    BY <1>2 DEF ManualUpdate, cloud, daemon, d
  <2> QED BY <2>1, <2>2 DEF Begins
<1>3. CASE \/ StartRound \/ RemoveNotification \/ AddNotification \/ NotificationFails \/ EndRound
           \/ Crash \/ Restart \/ CloudFunction \/ UNCHANGED vars \/ ReaderPayload \/ ReaderDone
           \/ \E o \in Objects : Upload(o) \/ ReaderAttrs(o)
  BY <1>3 DEF StartRound, RemoveNotification, AddNotification, NotificationFails, EndRound, Crash,
              ProcessExits, Restart, CloudFunction, FunctionReads, FunctionWrites, FunctionFails, vars,
              ReaderPayload, ReaderDone, Upload, ReaderAttrs
<1>4. ASSUME NEW c \in calls, UpdateAttrs(c) PROVE (\E d : Advances(c, d)) \/ calls' \subseteq calls
  <2>1. CASE Fail(c)
    BY <2>1 DEF Fail, ProcessExits
  <2>2. CASE ~Fail(c)
    <3> DEFINE pc == IF HeaderOnly(store[c.obj].md) THEN "metadata" ELSE "download"
               d == [c EXCEPT !.pc = pc, !.gen = store[c.obj].gen, !.md = store[c.obj].md]
    <3>1. Advance(c, d) /\ store[c.obj].md.key = c.old_key /\ UNCHANGED cloud
      BY <1>4, <2>2 DEF UpdateAttrs
    <3>2. /\ d.obj = c.obj /\ d.old_key = c.old_key /\ d.new_key = c.new_key /\ d.gen = store[c.obj].gen
          /\ d.pc \in {"metadata", "download"}
      BY CallType DEF Call
    <3> HIDE DEF d
    <3> QED BY <3>1, <3>2 DEF Advances, Advance, cloud, daemon
  <2> QED BY <2>1, <2>2
<1>5. ASSUME NEW c \in calls, DownloadAttrs(c) PROVE (\E d : Advances(c, d)) \/ calls' \subseteq calls
  <2>1. CASE Fail(c)
    BY <2>1 DEF Fail, ProcessExits
  <2>2. CASE ~Fail(c)
    <3> DEFINE d == [c EXCEPT !.pc = "payload", !.readGen = store[c.obj].gen, !.md = store[c.obj].md]
    <3>1. Advance(c, d) /\ store[c.obj].md.key = c.old_key /\ UNCHANGED cloud
      BY <1>5, <2>2 DEF DownloadAttrs
    <3>2. /\ d.obj = c.obj /\ d.old_key = c.old_key /\ d.new_key = c.new_key /\ d.gen = c.gen
          /\ d.pc = "payload" /\ d.readGen = store[c.obj].gen
      BY CallType DEF Call
    <3> HIDE DEF d
    <3> QED BY <3>1, <3>2 DEF Advances, Advance, cloud, daemon
  <2> QED BY <2>1, <2>2
<1>6. ASSUME NEW c \in calls, DownloadPayload(c) PROVE (\E d : Advances(c, d)) \/ calls' \subseteq calls
  <2>1. CASE Fail(c)
    BY <2>1 DEF Fail, ProcessExits
  <2>2. CASE ~Fail(c)
    <3> DEFINE d == [c EXCEPT !.pc = "put", !.content = store[c.obj].payload.content]
    <3>1. Advance(c, d) /\ c.pc = "payload" /\ UNCHANGED cloud
      BY <1>6, <2>2 DEF DownloadPayload
    <3>2. /\ d.obj = c.obj /\ d.old_key = c.old_key /\ d.new_key = c.new_key /\ d.gen = c.gen
          /\ d.pc = "put" /\ d.readGen = c.readGen /\ d.content = store[c.obj].payload.content
      BY CallType DEF Call
    <3> HIDE DEF d
    <3> QED BY <3>1, <3>2 DEF Advances, Advance, cloud, daemon
  <2> QED BY <2>1, <2>2
<1>7. ASSUME NEW c \in calls, UpdateMetadata(c) \/ PutReencrypted(c) PROVE calls' \subseteq calls
  BY <1>7 DEF UpdateMetadata, PutReencrypted, Return, Fail, ProcessExits
<1> QED BY <1>1, <1>2, <1>3, <1>4, <1>5, <1>6, <1>7 DEF Next, MainLoop, AkesoUpdate, CloudCp

\* What a call has read of a generation stays true of the payload under every step,
\* and of the header under a step that does not write the header alone.
LEMMA ReadsKept ==
  ASSUME TypeOK, TypeOK', NEW c \in calls, ReadsOf(c),
         \/ LeftAlone(c.obj)
         \/ Written(c.obj)
         \/ store'[c.obj].gen = store[c.obj].gen /\ store'[c.obj].payload = store[c.obj].payload
  PROVE  /\ c.gen <= store'[c.obj].gen
         /\ c.pc \in {"payload", "put"} => c.gen <= c.readGen /\ c.readGen <= store'[c.obj].gen
         /\ c.pc = "put" /\ store'[c.obj].gen = c.readGen => store'[c.obj].payload.content = c.content
<1>1. /\ c.gen \in Nat /\ c.readGen \in Nat /\ store[c.obj].gen \in Nat /\ store'[c.obj].gen \in Nat
  BY CallType, StoreType DEF TypeOK, StoredObject
<1>2. CASE store'[c.obj].gen = store[c.obj].gen /\ store'[c.obj].payload = store[c.obj].payload
  BY <1>2 DEF ReadsOf
<1>3. CASE Written(c.obj)
  BY <1>1, <1>3 DEF ReadsOf, Written
<1> QED BY <1>2, <1>3 DEF LeftAlone

LEMMA KeyReadKept ==
  ASSUME TypeOK, TypeOK', NEW c \in calls, ReadsOf(c), KeyReadOf(c), LeftAlone(c.obj) \/ Written(c.obj)
  PROVE  /\ c.pc = "metadata" /\ store'[c.obj].gen = c.gen => store'[c.obj].md.key = c.old_key
         /\ c.pc \in {"payload", "put"} /\ store'[c.obj].gen = c.readGen
              => store'[c.obj].md.key = c.old_key
<1>1. /\ c.gen \in Nat /\ c.readGen \in Nat /\ store[c.obj].gen \in Nat /\ store'[c.obj].gen \in Nat
  BY CallType, StoreType DEF TypeOK, StoredObject
<1>2. CASE LeftAlone(c.obj)
  BY <1>2 DEF KeyReadOf, LeftAlone
<1>3. CASE Written(c.obj)
  BY <1>1, <1>3 DEF ReadsOf, Written
<1> QED BY <1>2, <1>3

LEMMA CallReadsStep ==
  ASSUME ReadInv, TypeOK', [Next]_vars
  PROVE  CallReads'
<1>0. TypeOK /\ CallReads
  BY DEF ReadInv
<1>1. ASSUME NEW c \in calls, c \in calls' PROVE ReadsOf(c)'
  <2>1. c.obj \in Objects /\ ReadsOf(c)
    BY <1>0, CallType DEF CallReads
  <2>2. \/ LeftAlone(c.obj)
        \/ Written(c.obj)
        \/ store'[c.obj].gen = store[c.obj].gen /\ store'[c.obj].payload = store[c.obj].payload
    BY <1>0, <2>1, StoreSteps DEF HeaderWritten
  <2> QED BY <1>0, <2>1, <2>2, ReadsKept DEF ReadsOf
<1>2. ASSUME NEW o \in Objects, NEW d, Begins(o, d) PROVE CallReads'
  <2>1. store'[o].gen \in Nat /\ 0 <= store'[o].gen
    BY <1>0, <1>2, StoreType DEF Begins
  <2>2. ReadsOf(d)'
    BY <1>2, <2>1 DEF Begins, ReadsOf
  <2> QED BY <1>1, <1>2, <2>2 DEF Begins, CallReads
<1>3. ASSUME NEW c \in calls, NEW d, Advances(c, d) PROVE CallReads'
  <2>1. c.gen \in Nat /\ c.obj \in Objects /\ store[c.obj].gen \in Nat /\ ReadsOf(c)
    BY <1>0, CallType, StoreType DEF CallReads
  <2>2. ReadsOf(d)'
    BY <1>3, <2>1 DEF Advances, ReadsOf
  <2> QED BY <1>1, <1>3, <2>2 DEF Advances, CallReads
<1>4. CASE calls' \subseteq calls
  BY <1>1, <1>4 DEF CallReads
<1> QED BY <1>0, <1>2, <1>3, <1>4, CallSteps

\* A header write of another call leaves the object under a key that the call does
\* not rotate from.
LEMMA KeyReadsStep ==
  ASSUME ReadInv, SpanInv, TypeOK', [Next]_vars
  PROVE  KeyReads'
<1>0. TypeOK /\ CallReads /\ KeyReads /\ KeySpans
  BY DEF ReadInv, SpanInv
<1>1. ASSUME NEW c \in calls, c \in calls' PROVE KeyReadOf(c)'
  <2>1. c.obj \in Objects /\ ReadsOf(c) /\ KeyReadOf(c)
    BY <1>0, CallType DEF CallReads, KeyReads
  <2>2. CASE LeftAlone(c.obj) \/ Written(c.obj)
    BY <1>0, <2>1, <2>2, KeyReadKept DEF KeyReadOf
  <2>3. ASSUME NEW d \in calls, HeaderWritten(c.obj, d) PROVE KeyReadOf(c)'
    <3>1. c # d /\ d.obj = c.obj
      BY <1>1, <2>3 DEF HeaderWritten
    <3>2. store[c.obj].md.key = d.old_key
      BY <1>0, <2>3, <3>1 DEF HeaderWritten, KeyReads, KeyReadOf
    <3>3. /\ c.old_key \in Nat /\ c.new_key \in Nat /\ d.old_key \in Nat /\ d.new_key \in Nat
          /\ c.old_key < c.new_key /\ d.old_key < d.new_key
          /\ c.new_key <= d.old_key \/ d.new_key <= c.old_key
      BY <1>0, <3>1, CallType DEF KeySpans
    <3>4. store[c.obj].md.key # c.old_key
      BY <3>2, <3>3
    <3>5. store'[c.obj].gen = store[c.obj].gen
      BY <2>3 DEF HeaderWritten
    <3> QED BY <2>1, <3>4, <3>5 DEF KeyReadOf
  <2> QED BY <1>0, <2>1, <2>2, <2>3, StoreSteps
<1>2. ASSUME NEW o \in Objects, NEW d, Begins(o, d) PROVE KeyReads'
  <2>1. KeyReadOf(d)'
    BY <1>2 DEF Begins, KeyReadOf
  <2> QED BY <1>1, <1>2, <2>1 DEF Begins, KeyReads
<1>3. ASSUME NEW c \in calls, NEW d, Advances(c, d) PROVE KeyReads'
  <2>1. KeyReadOf(c)
    BY <1>0 DEF KeyReads
  <2>2. KeyReadOf(d)'
    BY <1>3, <2>1 DEF Advances, KeyReadOf
  <2> QED BY <1>1, <1>3, <2>2 DEF Advances, KeyReads
<1>4. CASE calls' \subseteq calls
  BY <1>1, <1>4 DEF KeyReads
<1> QED BY <1>0, <1>2, <1>3, <1>4, CallSteps

\* A round lists objects only as it begins, with a key of its own.
LEMMA RoundSteps ==
  ASSUME TypeOK, [Next]_vars
  PROVE  /\ epoch' >= epoch
         /\ round'.pc \in {"remove", "add", "files"}
              => epoch' > epoch \/ (round.pc \in {"remove", "add", "files"} /\ round'.todo \subseteq round.todo)
<1>0. epoch \in Nat /\ round \in Round
  BY DEF TypeOK
<1>1. CASE StartRound
  BY <1>0, <1>1 DEF StartRound
<1>2. CASE RemoveNotification \/ AddNotification \/ NotificationFails \/ EndRound \/ \E o \in Objects : StartCall(o)
  BY <1>0, <1>2 DEF RemoveNotification, AddNotification, NotificationFails, EndRound, StartCall, users, Round, Idle
<1>3. CASE Crash \/ Restart \/ UNCHANGED vars
  BY <1>0, <1>3 DEF Crash, ProcessExits, Restart, vars, Idle
<1>4. ASSUME NEW c \in calls, AkesoUpdate(c)
      PROVE  epoch' = epoch /\ (round' = round \/ round' = Idle)
  BY <1>4 DEF AkesoUpdate, UpdateAttrs, UpdateMetadata, DownloadAttrs, DownloadPayload, PutReencrypted,
              Advance, Return, Fail, ProcessExits, daemon
<1>5. CASE CloudFunction \/ CloudCp
  <2>1. epoch' = epoch /\ round' = round
    BY <1>5 DEF CloudFunction, FunctionReads, FunctionWrites, FunctionFails, CloudCp, Upload, ManualUpdate,
                ReaderAttrs, ReaderPayload, ReaderDone, daemon
  <2> QED BY <1>0, <2>1
<1> QED BY <1>0, <1>1, <1>2, <1>3, <1>4, <1>5 DEF Next, MainLoop, Idle

\* Without manual_race a call begins with an object that no other is at work on, or
\* rotates from a key that those before it rotate to.
LEMMA KeySpansStep ==
  ASSUME "manual_race" \notin Allowed, ReadInv, SpanInv, TypeOK', [Next]_vars
  PROVE  KeySpans'
<1>0. TypeOK /\ KeySpans /\ RoundHasEpoch /\ epoch \in Nat /\ epoch' \in Nat /\ epoch' >= epoch
  BY RoundSteps DEF ReadInv, SpanInv, TypeOK
<1>1. \A d \in calls' : d.old_key \in Nat /\ d.new_key \in Nat
  BY DEF TypeOK, Call
<1>2. ASSUME NEW c \in calls
      PROVE  /\ c.old_key < c.new_key /\ c.new_key <= epoch'
             /\ round'.pc \in {"remove", "add", "files"} /\ c.obj \in round'.todo => c.new_key < epoch'
  <2>1. c.old_key < c.new_key /\ c.new_key <= epoch /\ c.new_key \in Nat
    BY <1>0, CallType DEF KeySpans
  <2>2. ASSUME round'.pc \in {"remove", "add", "files"}, c.obj \in round'.todo
        PROVE  epoch' > epoch \/ c.new_key < epoch
    BY <1>0, <2>2, RoundSteps DEF KeySpans
  <2> QED BY <1>0, <2>1, <2>2
<1>3. \A c, d \in calls : c.obj = d.obj /\ c # d => c.new_key <= d.old_key \/ d.new_key <= c.old_key
  BY <1>0 DEF KeySpans
<1>4. ASSUME NEW o \in Objects, NEW d, Begins(o, d) PROVE KeySpans'
  <2>1. /\ d \in calls' /\ epoch' = epoch /\ d.obj = o /\ d.new_key = epoch /\ calls' = calls \cup {d}
        /\ d.old_key \in Nat
    BY <1>1, <1>4 DEF Begins
  <2>2. d.old_key < epoch /\ ~(round'.pc \in {"remove", "add", "files"} /\ o \in round'.todo)
    <3>1. CASE /\ round.pc = "files" /\ o \in round.todo /\ d.old_key = epoch - 1
               /\ round' = [round EXCEPT !.todo = @ \ {o}]
      BY <1>0, <3>1 DEF TypeOK, Round
    <3>2. CASE d.old_key < epoch /\ round' = round /\ ~AtWork(o)
      BY <3>2 DEF AtWork
    <3> QED BY <1>4, <3>1, <3>2 DEF Begins
  <2>3. ASSUME NEW c \in calls, c.obj = o PROVE c.new_key <= d.old_key
    <3>1. round.pc = "files" /\ o \in round.todo /\ d.old_key = epoch - 1
      BY <1>4, <2>3 DEF Begins, AtWork
    <3>2. c.new_key < epoch /\ c.new_key \in Nat
      BY <1>0, <2>3, <3>1, CallType DEF KeySpans
    <3> QED BY <1>0, <3>1, <3>2
  <2>4. ASSUME NEW c \in calls'
        PROVE  /\ c.old_key < c.new_key /\ c.new_key <= epoch'
               /\ round'.pc \in {"remove", "add", "files"} /\ c.obj \in round'.todo => c.new_key < epoch'
    BY <1>0, <1>2, <2>1, <2>2
  <2>5. ASSUME NEW c \in calls', NEW e \in calls', c.obj = e.obj, c # e
        PROVE  c.new_key <= e.old_key \/ e.new_key <= c.old_key
    BY <1>3, <2>1, <2>3, <2>5
  <2> QED BY <2>4, <2>5 DEF KeySpans
<1>5. ASSUME NEW c \in calls, NEW d, Advances(c, d) PROVE KeySpans'
  <2>1. /\ calls' = (calls \ {c}) \cup {d} /\ d.obj = c.obj /\ d.old_key = c.old_key /\ d.new_key = c.new_key
    BY <1>5 DEF Advances
  <2>2. ASSUME NEW x \in calls'
        PROVE  /\ x.old_key < x.new_key /\ x.new_key <= epoch'
               /\ round'.pc \in {"remove", "add", "files"} /\ x.obj \in round'.todo => x.new_key < epoch'
    BY <1>2, <2>1
  <2>3. ASSUME NEW x \in calls', NEW y \in calls', x.obj = y.obj, x # y
        PROVE  x.new_key <= y.old_key \/ y.new_key <= x.old_key
    BY <1>3, <2>1, <2>3
  <2> QED BY <2>2, <2>3 DEF KeySpans
<1>6. CASE calls' \subseteq calls
  BY <1>2, <1>3, <1>6 DEF KeySpans
<1> QED BY <1>0, <1>4, <1>5, <1>6, CallSteps

LEMMA ReaderReadsStep ==
  ASSUME ReadInv, TypeOK', [Next]_vars
  PROVE  ReaderReads'
<1>0. TypeOK /\ ReaderReads /\ reader \in Reader
  BY DEF ReadInv, TypeOK
<1>1. CASE reader' = reader
  <2>1. ASSUME reader.pc = "payload"
        PROVE  /\ reader.gen <= store'[reader.obj].gen
               /\ store'[reader.obj].gen = reader.gen
                    => (Decrypts(store'[reader.obj].payload, reader.md, reader.md.key) <=> reader.whole)
    <3>1. /\ reader.obj \in Objects /\ reader.gen \in Nat /\ store[reader.obj].gen \in Nat
          /\ store'[reader.obj].gen \in Nat
      BY <1>0, StoreType DEF Reader, TypeOK, StoredObject
    <3>2. /\ reader.gen <= store[reader.obj].gen
          /\ store[reader.obj].gen = reader.gen
               => (Decrypts(store[reader.obj].payload, reader.md, reader.md.key) <=> reader.whole)
      BY <1>0, <2>1 DEF ReaderReads
    <3>3. CASE LeftAlone(reader.obj) \/ \E c \in calls : HeaderWritten(reader.obj, c)
      <4>1. store'[reader.obj].gen = store[reader.obj].gen /\ store'[reader.obj].payload = store[reader.obj].payload
        BY <3>3 DEF LeftAlone, HeaderWritten
      <4> QED BY <3>2, <4>1
    <3>4. CASE Written(reader.obj)
      BY <3>1, <3>2, <3>4 DEF Written
    <3> QED BY <1>0, <3>1, <3>3, <3>4, StoreSteps
  <2> QED BY <1>0, <1>1, <2>1 DEF ReaderReads
<1>2. ASSUME NEW o \in Objects, ReaderAttrs(o) PROVE ReaderReads'
  <2>1. /\ store' = store
        /\ reader'.pc = "payload" /\ reader'.obj = o /\ reader'.gen = store[o].gen /\ reader'.md = store[o].md
        /\ reader'.whole = Decrypts(store[o].payload, store[o].md, store[o].md.key)
    BY <1>2 DEF ReaderAttrs, cloud
  <2>2. store[o].gen \in Nat
    BY <1>0, StoreType
  <2>3. reader'.gen <= store'[reader'.obj].gen
    BY <2>1, <2>2
  <2>4. Decrypts(store'[reader'.obj].payload, reader'.md, reader'.md.key) <=> reader'.whole
    BY <2>1
  <2> QED BY <2>1, <2>3, <2>4 DEF ReaderReads
<1>3. CASE ReaderPayload
  <2>1. reader.pc = "payload" /\ reader' = [reader EXCEPT !.pc = ReaderOutcome(reader)]
    BY <1>3 DEF ReaderPayload
  <2>2. reader'.pc = ReaderOutcome(reader) /\ reader'.whole = reader.whole
    BY <1>0, <2>1 DEF Reader
  <2>3. reader'.pc # "payload"
    BY <2>2 DEF ReaderOutcome
  <2>4. ASSUME ReaderOutcome(reader) = "garbled" PROVE ~reader.whole
    <3>1. /\ store[reader.obj].gen = reader.gen
          /\ ~Decrypts(store[reader.obj].payload, reader.md, reader.md.key)
      BY <2>4 DEF ReaderOutcome
    <3> QED BY <1>0, <2>1, <3>1 DEF ReaderReads
  <2> QED BY <2>2, <2>3, <2>4 DEF ReaderReads
<1>4. CASE ReaderDone
  BY <1>4 DEF ReaderDone, NoReader, ReaderReads
<1>5. CASE MainLoop \/ Crash \/ Restart \/ CloudFunction \/ UNCHANGED vars
           \/ (\E c \in calls : AkesoUpdate(c)) \/ (\E o \in Objects : Upload(o) \/ ManualUpdate(o))
  BY <1>1, <1>5 DEF MainLoop, StartRound, RemoveNotification, AddNotification, NotificationFails, StartCall,
       EndRound, Crash, Restart, CloudFunction, FunctionReads, FunctionWrites, FunctionFails, vars, AkesoUpdate,
       UpdateAttrs, UpdateMetadata, DownloadAttrs, DownloadPayload, PutReencrypted, Advance, Return, Fail,
       Upload, ManualUpdate, users
<1> QED BY <1>2, <1>3, <1>4, <1>5 DEF Next, CloudCp

LEMMA ReadsInductive == Spec => []ReadInv
<1>1. Init => ReadInv
  <2> SUFFICES ASSUME Init PROVE ReadInv
    OBVIOUS
  <2>1. CallReads /\ RoundHasEpoch
    BY DEF Init, CallReads, RoundHasEpoch, Idle
  <2>2. ReaderReads
    BY DEF Init, NoReader, ReaderReads
  <2> QED BY <2>1, <2>2, InitType DEF ReadInv
<1>2. ReadInv /\ [Next]_vars => ReadInv'
  <2> SUFFICES ASSUME ReadInv, [Next]_vars PROVE ReadInv'
    OBVIOUS
  <2>1. TypeOK' /\ RoundHasEpoch'
    BY StepType DEF ReadInv
  <2> QED BY <2>1, CallReadsStep, ReaderReadsStep DEF ReadInv
<1> QED BY <1>1, <1>2, PTL DEF Spec

LEMMA SpansInductive ==
  ASSUME "manual_race" \notin Allowed
  PROVE  Spec => []SpanInv
<1>1. Init => SpanInv
  BY DEF Init, SpanInv, KeyReads, KeySpans
<1>2. ReadInv /\ ReadInv' /\ SpanInv /\ [Next]_vars => SpanInv'
  <2> SUFFICES ASSUME ReadInv, ReadInv', SpanInv, [Next]_vars PROVE SpanInv'
    OBVIOUS
  <2>1. TypeOK'
    BY DEF ReadInv
  <2> QED BY <2>1, KeyReadsStep, KeySpansStep DEF SpanInv
<1> QED BY <1>1, <1>2, ReadsInductive, PTL DEF Spec

\* The generation-match of GetObject makes a torn download an error, whoever writes
\* between its Attrs and it.
THEOREM DownloadsWhole == Spec => []NoTornRead
<1>1. ReadInv => NoTornRead
  BY DEF ReadInv, ReaderReads, NoTornRead
<1> QED BY <1>1, ReadsInductive, PTL

\* The generation-match of its write lets a re-encryption through only if neither of
\* its two reads is out of date, with whatever went on in between.
THEOREM ContentKept == Spec => ReencryptionKeepsContent
<1>1. ASSUME ReadInv, [Next]_vars, NEW o \in Objects, store'[o].gen # store[o].gen,
             store'[o].md.updated_by = "akesod", commands' = commands
      PROVE  store'[o].payload.content = store[o].payload.content
  <2>0. TypeOK /\ CallReads /\ commands \in Nat /\ store[o].gen \in Nat
    BY <1>1, StoreType DEF ReadInv, TypeOK
  <2>1. CASE \E c \in calls : AkesoUpdate(c)
    <3>1. PICK c \in calls : AkesoUpdate(c)
      BY <2>1
    <3>2. \A p \in Objects : UpdateMetadata(c) => store'[p].gen = store[p].gen
      BY <2>0 DEF UpdateMetadata, Fail, cloud, TypeOK, StoredObject
    <3>3. /\ c.pc = "put" /\ store[c.obj].gen = c.gen
          /\ PutObject(c.obj, FreshPayload(c.dek, c.content), FreshMetadata(c.dek, c.new_key))
      BY <1>1, <3>1, <3>2 DEF AkesoUpdate, UpdateAttrs, DownloadAttrs, DownloadPayload, PutReencrypted, Fail, cloud
    <3>4. c.obj \in Objects /\ ReadsOf(c) /\ c.gen \in Nat /\ c.readGen \in Nat
      BY <2>0, CallType DEF CallReads
    <3>5. o = c.obj /\ store'[o].payload = FreshPayload(c.dek, c.content)
      BY <1>1, <2>0, <3>3, <3>4, PutWrites DEF LeftAlone
    <3>6. c.readGen = store[c.obj].gen
      BY <2>0, <3>3, <3>4, <3>5 DEF ReadsOf
    <3>7. store[c.obj].payload.content = c.content
      BY <3>3, <3>4, <3>6 DEF ReadsOf
    <3> QED BY <3>5, <3>7 DEF FreshPayload
  <2>2. CASE CloudFunction
    <3>1. PICK f \in functions : FunctionWrites(f)
      BY <1>1, <2>2 DEF CloudFunction, FunctionReads, FunctionFails
    <3> DEFINE md == [f.event.md EXCEPT !.updated_by = "cloud-function", !.ongoing_reencryption = FALSE]
    <3>2. f.event.obj \in Objects /\ f.event.md \in Metadata
      BY <2>0 DEF TypeOK, Function, Event
    <3>3. PICK payload : PutObject(f.event.obj, payload, md)
      BY <3>1 DEF FunctionWrites
    <3>4. md.updated_by = "cloud-function"
      BY <3>2 DEF Metadata
    <3> HIDE DEF md
    <3>5. store'[f.event.obj].md = md /\ \A p \in Objects : p # f.event.obj => LeftAlone(p)
      BY <2>0, <3>2, <3>3, PutWrites
    <3> QED BY <1>1, <3>4, <3>5 DEF LeftAlone
  <2>3. CASE CloudCp
    BY <1>1, <2>0, <2>3 DEF CloudCp, Upload, ManualUpdate, ReaderAttrs, ReaderPayload, ReaderDone, cloud
  <2>4. CASE MainLoop \/ Crash \/ Restart \/ UNCHANGED vars
    BY <1>1, <2>4 DEF MainLoop, StartRound, RemoveNotification, AddNotification, NotificationFails, StartCall,
                EndRound, Crash, Restart, cloud, vars
  <2> QED BY <1>1, <2>1, <2>2, <2>3, <2>4 DEF Next
<1>2. ReadInv /\ [Next]_vars
        => [\A o \in Objects : (/\ store'[o].gen # store[o].gen
                                /\ store'[o].md.updated_by = "akesod"
                                /\ commands' = commands)
                                  => store'[o].payload.content = store[o].payload.content]_vars
  BY <1>1
<1> QED BY <1>2, ReadsInductive, PTL DEF Spec, ReencryptionKeepsContent

\* A header write keeps the generation, so that the generation-match alone does not
\* tell AkesoUpdate of another one: that no two calls rotate from the same key does,
\* which holds as long as operators wait for the calls of the object they rotate.
THEOREM UpdatesGoForward ==
  ASSUME "manual_race" \notin Allowed
  PROVE  Spec => AkesoUpdateNeverRollsBack
<1>1. ASSUME ReadInv, SpanInv, [Next]_vars, NEW o \in Objects, commands' = commands, functions' = functions
      PROVE  store'[o].md.key >= store[o].md.key
  <2>0. /\ TypeOK /\ CallReads /\ KeyReads /\ KeySpans /\ commands \in Nat /\ store[o].gen \in Nat /\ store[o].md.key \in Nat
    BY <1>1, StoreType DEF ReadInv, SpanInv, TypeOK
  <2>1. CASE \E c \in calls : AkesoUpdate(c)
    <3>1. PICK c \in calls : AkesoUpdate(c)
      BY <2>1
    <3>2. /\ c.obj \in Objects /\ ReadsOf(c) /\ KeyReadOf(c) /\ c.gen \in Nat /\ c.readGen \in Nat /\ c.old_key \in Nat
          /\ c.new_key \in Nat /\ c.old_key < c.new_key
      BY <2>0, CallType DEF CallReads, KeyReads, KeySpans
    <3>3. CASE UpdateMetadata(c)
      <4>1. CASE Fail(c)
        BY <2>0, <4>1 DEF Fail, cloud
      <4>2. CASE ~Fail(c)
        <5>1. c.pc = "metadata" /\ store[c.obj].gen = c.gen /\ store' = [store EXCEPT ![c.obj].md = UpdatedMetadata(c)]
          BY <3>3, <4>2 DEF UpdateMetadata
        <5>2. store[c.obj].md.key = c.old_key
          BY <3>2, <5>1 DEF KeyReadOf
        <5>3. UpdatedMetadata(c).key = c.new_key
          BY DEF UpdatedMetadata
        <5>4. CASE o = c.obj
          <6>1. store'[o].md = UpdatedMetadata(c)
            BY <2>0, <3>2, <5>1, <5>4 DEF TypeOK, StoredObject
          <6> QED BY <3>2, <5>2, <5>3, <5>4, <6>1
        <5>5. CASE o # c.obj
          BY <2>0, <5>1, <5>5 DEF TypeOK
        <5> QED BY <5>4, <5>5
      <4> QED BY <4>1, <4>2
    <3>4. CASE PutReencrypted(c)
      <4>1. CASE UNCHANGED cloud
        BY <2>0, <4>1 DEF cloud
      <4>2. CASE /\ store[c.obj].gen = c.gen
                 /\ PutObject(c.obj, FreshPayload(c.dek, c.content), FreshMetadata(c.dek, c.new_key))
        <5>1. c.pc = "put"
          BY <3>4 DEF PutReencrypted
        <5>2. c.readGen = store[c.obj].gen
          <6>1. store[c.obj].gen \in Nat
            BY <2>0, <3>2, StoreType
          <6> QED BY <3>2, <4>2, <5>1, <6>1 DEF ReadsOf
        <5>3. store[c.obj].md.key = c.old_key
          BY <3>2, <5>1, <5>2 DEF KeyReadOf
        <5>4. store'[c.obj].md = FreshMetadata(c.dek, c.new_key) /\ \A p \in Objects : p # c.obj => LeftAlone(p)
          BY <2>0, <3>2, <4>2, PutWrites
        <5>5. store'[c.obj].md.key = c.new_key
          BY <5>4 DEF FreshMetadata
        <5> QED BY <2>0, <3>2, <5>3, <5>4, <5>5 DEF LeftAlone
      <4> QED BY <3>4, <4>1, <4>2 DEF PutReencrypted
    <3>5. CASE UpdateAttrs(c) \/ DownloadAttrs(c) \/ DownloadPayload(c)
      BY <2>0, <3>5 DEF UpdateAttrs, DownloadAttrs, DownloadPayload, Fail, cloud
    <3> QED BY <3>1, <3>3, <3>4, <3>5 DEF AkesoUpdate
  <2>2. CASE CloudFunction
    <3>1. ASSUME NEW e \in events, FunctionReads(e)
          PROVE  store'[o].md.key >= store[o].md.key
      BY <2>0, <3>1 DEF FunctionReads
    <3>2. ASSUME NEW f \in functions, FunctionFails(f)
          PROVE  store'[o].md.key >= store[o].md.key
      BY <2>0, <3>2 DEF FunctionFails
    <3>3. ASSUME NEW f \in functions, FunctionWrites(f)
          PROVE  FALSE
      <4>1. functions' = functions \ {f}
        BY <3>3 DEF FunctionWrites
      <4> QED BY <1>1, <3>3, <4>1
    <3> QED BY <2>2, <3>1, <3>2, <3>3 DEF CloudFunction
  <2>3. CASE CloudCp
    BY <1>1, <2>0, <2>3 DEF CloudCp, Upload, ManualUpdate, ReaderAttrs, ReaderPayload, ReaderDone, cloud
  <2>4. CASE MainLoop \/ Crash \/ Restart \/ UNCHANGED vars
    BY <2>0, <2>4 DEF MainLoop, StartRound, RemoveNotification, AddNotification, NotificationFails, StartCall,
                EndRound, Crash, Restart, cloud, vars
  <2> QED BY <1>1, <2>1, <2>2, <2>3, <2>4 DEF Next
<1>2. ReadInv /\ SpanInv /\ [Next]_vars
        => [(commands' = commands /\ functions' = functions)
              => \A o \in Objects : store'[o].md.key >= store[o].md.key]_vars
  BY <1>1
<1> QED BY <1>2, ReadsInductive, SpansInductive, PTL DEF Spec, AkesoUpdateNeverRollsBack
-----------------------------------------------------------------------------
(***************************************************************************)
(* Without faults and without users that lag behind, a round leaves no     *)
(* object under an earlier key: no call fails, since what it reads is what *)
(* it wrote its expectations from.  That nothing crashes is a condition    *)
(* the program meets in a bucket of one object: with several, the second   *)
(* close of pubsub.go:220 ends the process in every round, which           *)
(* AkesodDaemonProofs treats.                                              *)
(***************************************************************************)
OneObject == \A o, p \in Objects : o = p

\* What a call has read is still the object's, whatever its generation was.
StillRead(c) ==
  /\ c.pc # "attrs" => c.gen = store[c.obj].gen
  /\ c.pc \in {"payload", "put"} => c.readGen = store[c.obj].gen
  /\ c.pc = "payload" => c.md = store[c.obj].md

RotationInv == /\ up
               /\ round.pc # "ended"
               /\ round.pc = "idle" => round.todo = {}
               /\ \A o \in Objects : IF AtWork(o) THEN store[o].md.key + 1 = epoch
                                                  ELSE store[o].md.key = epoch
               /\ \A c \in calls : StillRead(c)

\* Every remote call of AkesoUpdate succeeds: the call goes on, or writes and returns.
LEMMA NothingFails ==
  ASSUME Allowed \subseteq {"download"}, IInv, RotationInv, NEW c \in calls, AkesoUpdate(c)
  PROVE  \/ \E d : Advance(c, d) /\ UNCHANGED cloud /\ d.obj = c.obj /\ StillRead(d)
         \/ Return(c) /\ store' = [store EXCEPT ![c.obj].md = UpdatedMetadata(c)]
         \/ Return(c) /\ PutObject(c.obj, FreshPayload(c.dek, c.content), FreshMetadata(c.dek, c.new_key))
<1>1. /\ c \in Call /\ c.obj \in Objects /\ store[c.obj] \in StoredObject /\ epoch \in Nat
      /\ store[c.obj].md.key \in Nat /\ c.old_key \in Nat
  BY DEF IInv, TypeOK, Call, StoredObject, Metadata
<1>2. UpToDate(c) /\ StillRead(c) /\ Settled(c.obj) /\ AtWork(c.obj)
  BY DEF IInv, CallsUpToDate, RotationInv, AtMostOneAtWork, AtWork
<1>3. store[c.obj].md.key + 1 = epoch /\ c.old_key + 1 = epoch
  BY <1>1, <1>2 DEF RotationInv, UpToDate
<1>4. store[c.obj].md.key = c.old_key
  BY <1>1, <1>3
<1>5. Decrypts(store[c.obj].payload, store[c.obj].md, c.old_key)
  BY <1>1, <1>2, <1>4 DEF IInv, SettledLayers, Stored, Decrypts
<1>6. CASE UpdateAttrs(c)
  <2> DEFINE d == [c EXCEPT !.pc = IF HeaderOnly(store[c.obj].md) THEN "metadata" ELSE "download",
                            !.gen = store[c.obj].gen,
                            !.md = store[c.obj].md]
  <2>1. Advance(c, d) /\ UNCHANGED cloud
    BY <1>4, <1>6 DEF UpdateAttrs
  <2>2. d.obj = c.obj /\ d.pc \in {"metadata", "download"} /\ d.gen = store[c.obj].gen
    BY <1>1 DEF Call
  <2>3. StillRead(d)
    BY <2>2 DEF StillRead
  <2> HIDE DEF d
  <2> QED BY <2>1, <2>2, <2>3
<1>7. CASE UpdateMetadata(c)
  <2>1. store[c.obj].gen = c.gen
    BY <1>2, <1>7 DEF UpdateMetadata, StillRead
  <2> QED BY <1>7, <2>1 DEF UpdateMetadata
<1>8. CASE DownloadAttrs(c)
  <2> DEFINE d == [c EXCEPT !.pc = "payload", !.readGen = store[c.obj].gen, !.md = store[c.obj].md]
  <2>1. Advance(c, d) /\ UNCHANGED cloud
    BY <1>4, <1>8 DEF DownloadAttrs
  <2>2. /\ d.obj = c.obj /\ d.pc = "payload" /\ d.gen = c.gen
        /\ d.readGen = store[c.obj].gen /\ d.md = store[c.obj].md
    BY <1>1 DEF Call
  <2>3. c.gen = store[c.obj].gen
    BY <1>2, <1>8 DEF DownloadAttrs, StillRead
  <2>4. StillRead(d)
    BY <2>2, <2>3 DEF StillRead
  <2> HIDE DEF d
  <2> QED BY <2>1, <2>2, <2>4
<1>9. CASE DownloadPayload(c)
  <2> DEFINE d == [c EXCEPT !.pc = "put", !.content = store[c.obj].payload.content]
  <2>1. c.pc = "payload" /\ store[c.obj].gen = c.readGen /\ c.md = store[c.obj].md
    BY <1>2, <1>9 DEF DownloadPayload, StillRead
  <2>2. Advance(c, d) /\ UNCHANGED cloud
    BY <1>5, <1>9, <2>1 DEF DownloadPayload
  <2>3. d.obj = c.obj /\ d.pc = "put" /\ d.gen = c.gen /\ d.readGen = c.readGen
    BY <1>1 DEF Call
  <2>4. StillRead(d)
    BY <1>2, <2>1, <2>3 DEF StillRead
  <2> HIDE DEF d
  <2> QED BY <2>2, <2>3, <2>4
<1>10. CASE PutReencrypted(c)
  <2>1. store[c.obj].gen = c.gen /\ "put_fault" \notin Allowed
    BY <1>2, <1>10 DEF PutReencrypted, StillRead
  <2> QED BY <1>10, <2>1 DEF PutReencrypted
<1> QED BY <1>6, <1>7, <1>8, <1>9, <1>10 DEF AkesoUpdate

\* The steps that leave the bucket and the round to be done alone.
LEMMA RotationKept ==
  ASSUME RotationInv, UNCHANGED <<store, epoch, calls>>, up', round'.pc # "ended",
         round'.todo = round.todo, round'.pc = "idle" => round.todo = {}
  PROVE  RotationInv'
BY DEF RotationInv, AtWork, StillRead

\* A write that takes the object of a call that returns to the daemon's key.
LEMMA CallRotated ==
  ASSUME IInv, RotationInv, NEW c \in calls, calls' = calls \ {c}, UNCHANGED <<epoch, round, up>>,
         store'[c.obj].md.key = epoch,
         \A o \in Objects : o # c.obj => store'[o] = store[o]
  PROVE  RotationInv'
<1>1. \A d \in calls' : d \in calls /\ d.obj # c.obj /\ d.obj \in Objects
  BY DEF IInv, AtMostOneAtWork, TypeOK, Call
<1>2. c.obj \notin round.todo
  BY DEF IInv, AtMostOneAtWork, RoundPhases, RotationInv
<1>3. \A d \in calls' : StillRead(d)'
  BY <1>1 DEF RotationInv, StillRead
<1>4. ~AtWork(c.obj)' /\ \A o \in Objects : o # c.obj => (AtWork(o)' <=> AtWork(o))
  BY <1>1, <1>2 DEF AtWork
<1>5. ASSUME NEW o \in Objects
      PROVE  IF AtWork(o)' THEN store'[o].md.key + 1 = epoch' ELSE store'[o].md.key = epoch'
  <2>1. CASE o = c.obj
    BY <1>4, <2>1
  <2>2. CASE o # c.obj
    BY <1>4, <2>2 DEF RotationInv
  <2> QED BY <2>1, <2>2
<1> QED BY <1>3, <1>5 DEF RotationInv

LEMMA RotationStep ==
  ASSUME Allowed \subseteq {"download"}, MaxCommands = 0, IInv, RotationInv, [Next]_vars
  PROVE  RotationInv'
<1>0. /\ epoch \in Nat /\ round \in Round /\ commands \in Nat /\ store \in [Objects -> StoredObject]
      /\ Allowed \subseteq SafeConditions /\ up
  BY DEF IInv, TypeOK, SafeConditions, RotationInv
<1>1. CASE StartRound
  <2>1. /\ round.pc = "idle" /\ Drained /\ epoch' = epoch + 1
        /\ round' = [pc |-> "remove", dek |-> drawn + 1, todo |-> Objects]
        /\ UNCHANGED <<store, calls, up>>
    BY <1>0, <1>1 DEF StartRound, cloud
  <2>2. calls = {} /\ \A o \in Objects : ~AtWork(o) /\ AtWork(o)'
    BY <2>1 DEF Drained, RotationInv, AtWork
  <2> QED BY <1>0, <2>1, <2>2 DEF RotationInv
<1>2. CASE RemoveNotification \/ AddNotification \/ EndRound
  <2>1. /\ UNCHANGED <<store, epoch, calls, up>> /\ round'.pc # "ended" /\ round'.todo = round.todo
        /\ round'.pc = "idle" => round.todo = {}
    <3>1. CASE RemoveNotification
      BY <1>0, <3>1 DEF RemoveNotification, Round
    <3>2. CASE AddNotification
      BY <1>0, <3>2 DEF AddNotification, Round
    <3>3. CASE EndRound
      BY <3>3 DEF EndRound, Idle, cloud
    <3> QED BY <1>2, <3>1, <3>2, <3>3
  <2> QED BY <1>0, <2>1, RotationKept
<1>3. ASSUME NEW o \in Objects, StartCall(o) PROVE RotationInv'
  <2> DEFINE c == NewCall(o, "akesod", epoch - 1, epoch, round.dek)
  <2>1. /\ round.pc = "files" /\ o \in round.todo /\ calls' = calls \cup {c}
        /\ round' = [round EXCEPT !.todo = round.todo \ {o}]
        /\ UNCHANGED <<store, up, epoch>>
    BY <1>3 DEF StartCall, cloud
  <2>2. c.obj = o /\ c.pc = "attrs"
    BY DEF NewCall
  <2> HIDE DEF c
  <2>3. round'.todo = round.todo \ {o} /\ round'.pc = "files"
    BY <1>0, <2>1 DEF Round
  <2>4. \A p \in Objects : AtWork(p)' <=> AtWork(p)
    BY <2>1, <2>2, <2>3 DEF AtWork
  <2>5. \A d \in calls' : StillRead(d)'
    BY <2>1, <2>2 DEF RotationInv, StillRead
  <2> QED BY <2>1, <2>3, <2>4, <2>5 DEF RotationInv
<1>4. ASSUME NEW c \in calls, AkesoUpdate(c) PROVE RotationInv'
  <2>1. c.obj \in Objects /\ c.new_key = epoch
    BY DEF IInv, TypeOK, Call, CallsUpToDate, UpToDate
  <2>2. ASSUME NEW d, Advance(c, d), UNCHANGED cloud, d.obj = c.obj, StillRead(d)
        PROVE  RotationInv'
    <3>1. calls' = (calls \ {c}) \cup {d} /\ UNCHANGED <<store, up, epoch, round>>
      BY <2>2 DEF Advance, cloud, daemon
    <3>2. \A p \in Objects : AtWork(p)' <=> AtWork(p)
      BY <2>2, <3>1 DEF AtWork
    <3>3. \A b \in calls' : StillRead(b)'
      BY <2>2, <3>1 DEF RotationInv, StillRead
    <3> QED BY <3>1, <3>2, <3>3 DEF RotationInv
  <2>3. CASE Return(c) /\ store' = [store EXCEPT ![c.obj].md = UpdatedMetadata(c)]
    <3>1. calls' = calls \ {c} /\ UNCHANGED <<epoch, round, up>>
      BY <2>3 DEF Return, daemon
    <3>2. UpdatedMetadata(c).key = epoch
      BY <2>1 DEF UpdatedMetadata
    <3>3. store'[c.obj].md = UpdatedMetadata(c) /\ \A o \in Objects : o # c.obj => store'[o] = store[o]
      BY <1>0, <2>1, <2>3 DEF StoredObject
    <3>4. store'[c.obj].md.key = epoch
      BY <3>2, <3>3
    <3> QED BY <3>1, <3>3, <3>4, CallRotated
  <2>4. CASE Return(c) /\ PutObject(c.obj, FreshPayload(c.dek, c.content), FreshMetadata(c.dek, c.new_key))
    <3>1. calls' = calls \ {c} /\ UNCHANGED <<epoch, round, up>>
      BY <2>4 DEF Return, daemon
    <3>2. FreshMetadata(c.dek, c.new_key).key = epoch
      BY <2>1 DEF FreshMetadata
    <3>3. /\ store'[c.obj].md = FreshMetadata(c.dek, c.new_key)
          /\ \A o \in Objects : o # c.obj => store'[o] = store[o]
      BY <1>0, <2>1, <2>4 DEF PutObject
    <3>4. store'[c.obj].md.key = epoch
      BY <3>2, <3>3
    <3> QED BY <3>1, <3>3, <3>4, CallRotated
  <2> QED BY <1>4, <2>2, <2>3, <2>4, NothingFails
<1>5. CASE CloudFunction
  <2>1. /\ UNCHANGED <<up, epoch, round, calls>>
        /\ \A o \in Objects : store'[o].md.key = store[o].md.key
    BY <1>0, <1>5, CloudFunctionRotates DEF CloudFunction, FunctionReads, FunctionWrites, FunctionFails, daemon
  <2>2. \A c \in calls : store'[c.obj] = store[c.obj]
    <3>1. ASSUME NEW f \in functions, FunctionWrites(f), NEW c \in calls
          PROVE  store'[c.obj] = store[c.obj]
      <4>1. f.event.obj # c.obj /\ c.obj \in Objects
        BY DEF IInv, AtMostOneAtWork, Settled, TypeOK, Call
      <4> QED BY <1>0, <3>1, <4>1 DEF FunctionWrites, PutObject
    <3> QED BY <1>5, <3>1 DEF CloudFunction, FunctionReads, FunctionFails
  <2>3. \A o \in Objects : AtWork(o)' <=> AtWork(o)
    BY <2>1 DEF AtWork
  <2>4. \A c \in calls' : StillRead(c)'
    BY <2>1, <2>2 DEF RotationInv, StillRead
  <2> QED BY <2>1, <2>3, <2>4 DEF RotationInv
<1>6. CASE CloudCp
  <2>1. \A o \in Objects : ~Upload(o) /\ ~ManualUpdate(o)
    BY <1>0 DEF Upload, ManualUpdate
  <2>2. UNCHANGED <<store, up, epoch, round, calls>>
    BY <1>6, <2>1 DEF CloudCp, ReaderAttrs, ReaderPayload, ReaderDone, cloud, daemon
  <2> QED BY <2>2, RotationKept DEF RotationInv
<1>7. CASE UNCHANGED vars
  <2>1. UNCHANGED <<store, up, epoch, round, calls>>
    BY <1>7 DEF vars
  <2> QED BY <2>1, RotationKept DEF RotationInv
<1>8. ~Crash /\ ~Restart /\ ~NotificationFails
  BY <1>0 DEF Crash, Restart, NotificationFails
<1> QED BY <1>1, <1>2, <1>3, <1>4, <1>5, <1>6, <1>7, <1>8 DEF Next, MainLoop

\* Between rounds the object of a bucket is under the daemon's key, through both
\* branches of AkesoUpdate, however many rounds there are and whatever downloads run
\* (akesod.go, akeso.go).
THEOREM RoundsRotateAll == ASSUME OneObject, Allowed \subseteq {"download"}, MaxCommands = 0
                           PROVE  Spec => []RoundRotatesAll
<1>1. Init => RotationInv
  BY DEF Init, RotationInv, AtWork, Idle, FreshMetadata
<1>2. IInv /\ RotationInv /\ [Next]_vars => RotationInv'
  BY RotationStep
<1>3. Spec => []IInv
  <2>1. Allowed \subseteq SafeConditions
    BY DEF SafeConditions
  <2> QED BY <2>1, Inductive
<1>4. RotationInv => RoundRotatesAll
  BY DEF RotationInv, RoundRotatesAll, AtWork
<1> QED BY <1>1, <1>2, <1>3, <1>4, PTL DEF Spec

\* And once the round's message is handled too, the daemon's key decrypts the
\* object: what is left of EveryUpdateTakesEffect is that this comes about.
THEOREM RoundsTakeEffect ==
  ASSUME OneObject, Allowed \subseteq {"download"}, MaxCommands = 0
  PROVE  Spec => []((round.pc = "idle" /\ Drained)
                      => \A o \in Objects : Decrypts(store[o].payload, store[o].md, epoch))
<1>1. ASSUME IInv, RoundRotatesAll, round.pc = "idle", Drained, NEW o \in Objects
      PROVE  Decrypts(store[o].payload, store[o].md, epoch)
  <2>1. Settled(o) /\ store[o].md.key = epoch
    BY <1>1 DEF Drained, Settled, RoundRotatesAll
  <2> QED BY <1>1, <2>1 DEF IInv, SettledLayers, Stored, Decrypts
<1>2. IInv /\ RoundRotatesAll
        => ((round.pc = "idle" /\ Drained)
              => \A o \in Objects : Decrypts(store[o].payload, store[o].md, epoch))
  BY <1>1
<1>3. Spec => []IInv
  <2>1. Allowed \subseteq SafeConditions
    BY DEF SafeConditions
  <2> QED BY <2>1, Inductive
<1> QED BY <1>2, <1>3, RoundsRotateAll, PTL
=============================================================================
