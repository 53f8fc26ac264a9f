----------------------- MODULE ObjectStrategiesProofs -----------------------
(***************************************************************************)
(* Theorems about ObjectStrategies, for every set of objects, every choice *)
(* of strategies and every bound.                                          *)
(***************************************************************************)
EXTENDS ObjectStrategies, TLAPS

(***************************************************************************)
(* Type correctness, whatever the environment does.                        *)
(***************************************************************************)

\* A round is of some epoch after the first, so that its calls have an old key.
RoundHasEpoch == todo # {} => epoch > 0

LEMMA NoReaderType == NoReader \in Reader
<1>1. (CHOOSE o \in Objects : TRUE) \in Objects
  BY ObjectsAssumption
<1> QED BY <1>1 DEF NoReader, Reader

LEMMA TagType == ASSUME NEW n \in Nat PROVE Tag(n) \in Nat
  BY DEF Tag

LEMMA PutType ==
  ASSUME TypeOK, NEW o \in Objects, NEW key \in Nat, NEW content \in Nat, NEW tag \in Nat,
         PutObject(o, key, content, tag)
  PROVE  store' \in [Objects -> StoredObject]
  BY DEF TypeOK, PutObject, StoredObject, Metadata, Payload

LEMMA MetadataType ==
  ASSUME TypeOK, NEW o \in Objects, NEW md \in Metadata, store' = [store EXCEPT ![o].md = md]
  PROVE  store' \in [Objects -> StoredObject]
  BY DEF TypeOK, StoredObject

LEMMA ObjectType ==
  ASSUME TypeOK, NEW o \in Objects
  PROVE  /\ store[o].gen \in Nat /\ store[o].md.key \in Nat /\ store[o].md.tag \in Nat
         /\ store[o].payload.content \in Nat /\ store[o].payload.tag \in Nat
         /\ store[o] \in StoredObject /\ store[o].md \in Metadata
  BY DEF TypeOK, StoredObject, Metadata, Payload

LEMMA CallType ==
  ASSUME TypeOK, NEW c \in calls
  PROVE  /\ c \in Call /\ c.obj \in Objects /\ c.old_key \in Nat /\ c.new_key \in Nat
         /\ c.gen \in Nat /\ c.tag \in Nat /\ c.content \in Nat
  BY DEF TypeOK, Call

LEMMA FailType ==
  ASSUME TypeOK, RoundHasEpoch, NEW c \in calls, Fail(c)
  PROVE  TypeOK' /\ RoundHasEpoch'
<1>1. calls' \subseteq calls /\ up' \in BOOLEAN /\ todo' \in {todo, {}}
  BY DEF TypeOK, Fail, ProcessExits
<1> QED BY <1>1 DEF TypeOK, RoundHasEpoch, Fail, users

\* A call that goes on, or returns having written an object of the right type.
LEMMA AdvanceType ==
  ASSUME TypeOK, RoundHasEpoch, NEW c \in calls, NEW d \in Call, Advance(c, d)
  PROVE  TypeOK' /\ RoundHasEpoch'
  BY DEF TypeOK, RoundHasEpoch, Advance, daemon, users

LEMMA ReturnType ==
  ASSUME TypeOK, RoundHasEpoch, NEW c \in calls, Return(c), drawn' \in Nat,
         store' \in [Objects -> StoredObject]
  PROVE  TypeOK' /\ RoundHasEpoch'
  BY DEF TypeOK, RoundHasEpoch, Return, daemon, users

LEMMA UpdateType ==
  ASSUME TypeOK, RoundHasEpoch, NEW c \in calls, Update(c)
  PROVE  TypeOK' /\ RoundHasEpoch'
<1>0. /\ c \in Call /\ c.obj \in Objects /\ c.old_key \in Nat /\ c.new_key \in Nat
      /\ c.tag \in Nat /\ c.content \in Nat
      /\ store[c.obj].gen \in Nat /\ store[c.obj].md.tag \in Nat
      /\ store[c.obj].payload.content \in Nat
      /\ drawn \in Nat /\ Tag(drawn) \in Nat /\ Tag(drawn + 1) \in Nat
  BY CallType, ObjectType, TagType DEF TypeOK
<1>1. CASE Fail(c)
  BY <1>1, FailType
<1>2. CASE StrawmanAttrs(c)
  <2>1. [c EXCEPT !.pc = "read", !.gen = store[c.obj].gen, !.tag = store[c.obj].md.tag] \in Call
    BY <1>0 DEF Call
  <2> QED BY <1>2, <2>1, AdvanceType DEF StrawmanAttrs
<1>3. CASE StrawmanPayload(c) /\ ~Fail(c)
  <2>1. [c EXCEPT !.pc = "write", !.content = store[c.obj].payload.content] \in Call
    BY <1>0 DEF Call
  <2> QED BY <1>3, <2>1, AdvanceType DEF StrawmanPayload
<1>4. CASE StrawmanPut(c)
  <2>1. store' \in [Objects -> StoredObject] /\ drawn' \in Nat
    BY <1>0, <1>4, PutType DEF StrawmanPut
  <2> QED BY <1>4, <2>1, ReturnType DEF StrawmanPut
<1>5. CASE KeyWrapAttrs(c) /\ ~Fail(c)
  <2>1. [c EXCEPT !.pc = "write", !.gen = store[c.obj].gen, !.tag = store[c.obj].md.tag] \in Call
    BY <1>0 DEF Call
  <2> QED BY <1>5, <2>1, AdvanceType DEF KeyWrapAttrs
<1>6. CASE KeyWrapMetadata(c) /\ ~Fail(c)
  <2>1. [key |-> c.new_key, tag |-> c.tag] \in Metadata
    BY <1>0 DEF Metadata
  <2>2. store' \in [Objects -> StoredObject] /\ drawn' \in Nat
    BY <1>0, <1>6, <2>1, MetadataType DEF KeyWrapMetadata
  <2> QED BY <1>6, <2>2, ReturnType DEF KeyWrapMetadata
<1>7. CASE CsekAttrs(c)
  <2>1. [c EXCEPT !.pc = "write", !.gen = store[c.obj].gen] \in Call
    BY <1>0 DEF Call
  <2> QED BY <1>7, <2>1, AdvanceType DEF CsekAttrs
<1>8. CASE CsekRewrite(c) /\ ~Fail(c)
  <2>1. store' \in [Objects -> StoredObject] /\ drawn' \in Nat
    BY <1>0, <1>8, PutType DEF CsekRewrite
  <2> QED BY <1>8, <2>1, ReturnType DEF CsekRewrite
<1>9. CASE CmekOpen(c)
  <2>1. [c EXCEPT !.pc = "read", !.content = store[c.obj].payload.content] \in Call
    BY <1>0 DEF Call
  <2> QED BY <1>9, <2>1, AdvanceType DEF CmekOpen
<1>10. CASE CmekAttrs(c) /\ ~Fail(c)
  <2>1. [c EXCEPT !.pc = "write", !.gen = store[c.obj].gen] \in Call
    BY <1>0 DEF Call
  <2> QED BY <1>10, <2>1, AdvanceType DEF CmekAttrs
<1>11. CASE CmekPut(c) /\ ~Fail(c)
  <2>1. store' \in [Objects -> StoredObject] /\ drawn' \in Nat
    BY <1>0, <1>11, PutType DEF CmekPut
  <2> QED BY <1>11, <2>1, ReturnType DEF CmekPut
<1> QED BY <1>1, <1>2, <1>3, <1>4, <1>5, <1>6, <1>7, <1>8, <1>9, <1>10, <1>11
        DEF Update, StrawmanUpdate, KeyWrapUpdate, RotateCSEKKey, UpdateCMEKKey

LEMMA CloudCpType ==
  ASSUME TypeOK, RoundHasEpoch, CloudCp
  PROVE  TypeOK' /\ RoundHasEpoch'
<1>1. ASSUME NEW o \in Objects, Upload(o) PROVE TypeOK' /\ RoundHasEpoch'
  <2>1. PICK k \in 0..epoch : PutObject(o, k, drawn + 1, Tag(drawn + 1))
    BY <1>1 DEF Upload
  <2>2. k \in Nat /\ drawn + 1 \in Nat /\ Tag(drawn + 1) \in Nat
    BY TagType DEF TypeOK
  <2>3. store' \in [Objects -> StoredObject]
    BY <2>1, <2>2, PutType
  <2>4. /\ drawn' \in Nat /\ commands' \in Nat /\ uploaded' \in [Objects -> Nat]
        /\ UNCHANGED <<strategy, up, epoch, todo, calls, reader>>
    BY <1>1 DEF Upload, TypeOK, daemon
  <2> QED BY <2>3, <2>4 DEF TypeOK, RoundHasEpoch
<1>2. ASSUME NEW o \in Objects, ManualUpdate(o) PROVE TypeOK' /\ RoundHasEpoch'
  <2>1. store[o].md.key \in Nat /\ commands + 1 \in Nat /\ epoch \in Nat
    BY ObjectType DEF TypeOK
  <2>2. NewCall(o, "cloud-cp", commands + 1, store[o].md.key, epoch) \in Call
    BY <2>1 DEF NewCall, Call
  <2> QED BY <1>2, <2>1, <2>2 DEF ManualUpdate, TypeOK, RoundHasEpoch, daemon
<1>3. ASSUME NEW o \in Objects, ReaderAttrs(o) PROVE TypeOK' /\ RoundHasEpoch'
  <2>1. store[o].gen \in Nat /\ store[o].md.tag \in Nat /\ uploaded[o] \in Nat
    BY ObjectType DEF TypeOK
  <2>2. reader' \in Reader
    BY <1>3, <2>1 DEF ReaderAttrs, Reader
  <2> QED BY <1>3, <2>2 DEF ReaderAttrs, TypeOK, RoundHasEpoch, daemon
<1>4. CASE ReaderPayload
  <2>1. reader' \in Reader
    BY <1>4 DEF ReaderPayload, Reader, TypeOK
  <2> QED BY <1>4, <2>1 DEF ReaderPayload, TypeOK, RoundHasEpoch, daemon
<1>5. CASE ReaderDone
  BY <1>5, NoReaderType DEF ReaderDone, TypeOK, RoundHasEpoch, daemon
<1> QED BY <1>1, <1>2, <1>3, <1>4, <1>5 DEF CloudCp

LEMMA StartCallType ==
  ASSUME TypeOK, RoundHasEpoch, NEW o \in Objects, StartCall(o)
  PROVE  TypeOK' /\ RoundHasEpoch'
<1>1. epoch - 1 \in Nat /\ epoch \in Nat /\ epoch > 0
  BY DEF StartCall, RoundHasEpoch, TypeOK
<1>2. NewCall(o, "akesod", 0, epoch - 1, epoch) \in Call
  BY <1>1 DEF NewCall, Call
<1> QED BY <1>1, <1>2 DEF StartCall, TypeOK, RoundHasEpoch, users

LEMMA StepType == TypeOK /\ RoundHasEpoch /\ [Next]_vars => TypeOK' /\ RoundHasEpoch'
<1> SUFFICES ASSUME TypeOK, RoundHasEpoch, [Next]_vars PROVE TypeOK' /\ RoundHasEpoch'
  OBVIOUS
<1>1. CASE StartRound
  BY <1>1 DEF StartRound, TypeOK, RoundHasEpoch, users
<1>2. CASE Crash
  BY <1>2 DEF Crash, ProcessExits, TypeOK, RoundHasEpoch, users
<1>3. CASE Restart
  BY <1>3 DEF Restart, TypeOK, RoundHasEpoch, users
<1>4. CASE UNCHANGED vars
  BY <1>4 DEF vars, TypeOK, RoundHasEpoch
<1> QED BY <1>1, <1>2, <1>3, <1>4, StartCallType, UpdateType, CloudCpType DEF Next

LEMMA InitType == Init => TypeOK /\ RoundHasEpoch
<1> SUFFICES ASSUME Init PROVE TypeOK /\ RoundHasEpoch
  OBVIOUS
<1>1. Tag(1) \in Nat
  BY TagType
<1>2. store \in [Objects -> StoredObject]
  BY <1>1 DEF Init, StoredObject, Metadata, Payload
<1> QED BY <1>2, NoReaderType DEF Init, TypeOK, RoundHasEpoch

\* Every variable keeps its type in every behaviour, whatever the environment does.
THEOREM TypeCorrect == Spec => []TypeOK
  BY InitType, StepType, PTL DEF Spec

-----------------------------------------------------------------------------
(***************************************************************************)
(* What holds whatever races there are.  A call or a download that has     *)
(* read a generation knows its metadata as long as the generation is the   *)
(* same; for cmek, its key too, because there every write is a new         *)
(* generation.                                                             *)
(***************************************************************************)
KnowsGeneration(c) ==
  /\ c.old_key < c.new_key
  /\ c.gen <= store[c.obj].gen
  /\ (strategy = "keywrap" /\ c.pc = "write" /\ Unchanged(c)) => c.tag = store[c.obj].md.tag
  /\ (strategy = "cmek" /\ c.pc = "write" /\ Unchanged(c)) => store[c.obj].md.key = c.old_key

ReaderKnows ==
  /\ KeywrapReadersUndisturbed
  /\ (strategy = "keywrap" /\ reader.pc = "payload")
       => /\ reader.gen <= store[reader.obj].gen
          /\ reader.gen = store[reader.obj].gen => reader.tag = store[reader.obj].payload.tag
          /\ reader.gen # store[reader.obj].gen => uploaded[reader.obj] # reader.seen

Numbered == /\ \A o \in Objects : uploaded[o] <= drawn
            /\ reader.seen <= drawn

Inv == /\ TypeOK
       /\ RoundHasEpoch
       /\ \A c \in calls : KnowsGeneration(c)
       /\ UploadsSurvive
       /\ ReaderKnows
       /\ Numbered

\* The steps that neither write an object nor start an upload.
LEMMA NoWriteInv ==
  ASSUME Inv, TypeOK', RoundHasEpoch', UNCHANGED <<strategy, store, drawn, reader, uploaded>>,
         \A c \in calls' : c \in calls \/ KnowsGeneration(c)
  PROVE  Inv'
<1>1. \A c \in calls' : KnowsGeneration(c)'
  BY DEF Inv, KnowsGeneration, Unchanged
<1>2. UploadsSurvive' /\ ReaderKnows' /\ Numbered'
  BY DEF Inv, UploadsSurvive, ReaderKnows, KeywrapReadersUndisturbed, Numbered
<1> QED BY <1>1, <1>2 DEF Inv

\* A write of object o that is a new generation of the content it has.
LEMMA RewriteInv ==
  ASSUME Inv, TypeOK', RoundHasEpoch', NEW o \in Objects, NEW key, NEW content, NEW tag,
         PutObject(o, key, content, tag), strategy # "keywrap",
         strategy = "csek" => content = store[o].payload.content,
         UNCHANGED <<strategy, reader, uploaded>>, drawn <= drawn', drawn' \in Nat, calls' \subseteq calls
  PROVE  Inv'
<1>1. /\ store'[o].gen = store[o].gen + 1 /\ store'[o].payload.content = content
      /\ store'[o].md.tag = store'[o].payload.tag
      /\ \A p \in Objects : p # o => store'[p] = store[p]
  BY DEF Inv, TypeOK, PutObject
<1>2. \A p \in Objects : store[p].gen \in Nat /\ uploaded[p] \in Nat
  BY ObjectType DEF Inv, TypeOK
<1>3. drawn \in Nat /\ reader.seen \in Nat /\ \A c \in calls : c.obj \in Objects /\ c.gen \in Nat
  BY CallType DEF Inv, TypeOK, Reader
<1>4. ASSUME NEW c \in calls' PROVE KnowsGeneration(c)'
  <2>1. KnowsGeneration(c) /\ c.obj \in Objects /\ c.gen \in Nat
    BY <1>3 DEF Inv
  <2>2. CASE c.obj = o
    BY <1>1, <1>2, <2>1, <2>2 DEF KnowsGeneration, Unchanged
  <2>3. CASE c.obj # o
    BY <1>1, <2>1, <2>3 DEF KnowsGeneration, Unchanged
  <2> QED BY <2>2, <2>3
<1>5. UploadsSurvive'
  BY <1>1 DEF Inv, UploadsSurvive
<1>6. ReaderKnows'
  BY DEF Inv, ReaderKnows, KeywrapReadersUndisturbed
<1>7. Numbered'
  BY <1>2, <1>3 DEF Inv, Numbered
<1> QED BY <1>4, <1>5, <1>6, <1>7 DEF Inv

LEMMA UpdateInv ==
  ASSUME Inv, TypeOK', RoundHasEpoch', NEW c \in calls, Update(c)
  PROVE  Inv'
<1>0. /\ c \in Call /\ c.obj \in Objects /\ drawn \in Nat /\ KnowsGeneration(c)
      /\ store[c.obj].gen \in Nat /\ store \in [Objects -> StoredObject]
  BY CallType, ObjectType DEF Inv, TypeOK
<1>1. CASE Fail(c)
  <2>1. calls' \subseteq calls /\ UNCHANGED <<strategy, store, drawn, reader, uploaded>>
    BY <1>1 DEF Fail, ProcessExits, users
  <2> QED BY <2>1, NoWriteInv
<1>2. ASSUME NEW d, Advance(c, d), KnowsGeneration(d) PROVE Inv'
  BY <1>2, NoWriteInv DEF Advance, users
<1>3. CASE strategy = "strawman" /\ StrawmanUpdate(c) /\ ~Fail(c)
  <2>1. CASE StrawmanAttrs(c)
    <3> DEFINE d == [c EXCEPT !.pc = "read", !.gen = store[c.obj].gen, !.tag = store[c.obj].md.tag]
    <3>1. d.obj = c.obj /\ d.old_key = c.old_key /\ d.new_key = c.new_key /\ d.gen = store[c.obj].gen
      BY <1>0 DEF Call
    <3>2. Advance(c, d)
      BY <2>1 DEF StrawmanAttrs
    <3> HIDE DEF d
    <3> QED BY <1>0, <1>2, <1>3, <3>1, <3>2 DEF KnowsGeneration
  <2>2. CASE StrawmanPayload(c)
    <3> DEFINE d == [c EXCEPT !.pc = "write", !.content = store[c.obj].payload.content]
    <3>1. d.obj = c.obj /\ d.old_key = c.old_key /\ d.new_key = c.new_key /\ d.gen = c.gen
      BY <1>0 DEF Call
    <3>2. Advance(c, d)
      BY <1>3, <2>2 DEF StrawmanPayload
    <3> HIDE DEF d
    <3> QED BY <1>0, <1>2, <1>3, <3>1, <3>2 DEF KnowsGeneration
  <2>3. CASE StrawmanPut(c)
    <3>1. /\ PutObject(c.obj, c.new_key, c.content, Tag(drawn + 1)) /\ drawn' = drawn + 1
          /\ calls' \subseteq calls /\ UNCHANGED <<strategy, reader, uploaded>>
      BY <2>3 DEF StrawmanPut, Return, users
    <3> QED BY <1>0, <1>3, <3>1, RewriteInv
  <2> QED BY <1>3, <2>1, <2>2, <2>3 DEF StrawmanUpdate
<1>4. CASE strategy = "keywrap" /\ KeyWrapUpdate(c) /\ ~Fail(c)
  <2>1. CASE KeyWrapAttrs(c)
    <3> DEFINE d == [c EXCEPT !.pc = "write", !.gen = store[c.obj].gen, !.tag = store[c.obj].md.tag]
    <3>1. /\ d.obj = c.obj /\ d.old_key = c.old_key /\ d.new_key = c.new_key /\ d.gen = store[c.obj].gen
          /\ d.tag = store[c.obj].md.tag
      BY <1>0 DEF Call
    <3>2. Advance(c, d)
      BY <1>4, <2>1 DEF KeyWrapAttrs
    <3> HIDE DEF d
    <3> QED BY <1>0, <1>2, <1>4, <3>1, <3>2 DEF KnowsGeneration
  <2>2. CASE KeyWrapMetadata(c)
    <3> DEFINE o == c.obj
               md == [key |-> c.new_key, tag |-> c.tag]
    <3>1. /\ c.pc = "write" /\ Unchanged(c) /\ store' = [store EXCEPT ![o].md = md]
          /\ calls' = calls \ {c} /\ UNCHANGED <<strategy, drawn, reader, uploaded>>
      BY <1>4, <2>2 DEF KeyWrapMetadata, Return, users
    <3>2. md.tag = store[o].md.tag
      BY <1>0, <1>4, <3>1 DEF KnowsGeneration
    <3> HIDE DEF md
    <3>3. /\ store'[o].gen = store[o].gen /\ store'[o].md.tag = store[o].md.tag
          /\ store'[o].payload = store[o].payload
          /\ \A p \in Objects : p # o => store'[p] = store[p]
      BY <1>0, <3>1, <3>2 DEF StoredObject
    <3>4. \A p \in Objects : /\ store'[p].gen = store[p].gen /\ store'[p].md.tag = store[p].md.tag
                             /\ store'[p].payload = store[p].payload
      BY <3>3
    <3>5. \A d \in calls' : KnowsGeneration(d)'
      BY <1>4, <3>1, <3>4, CallType DEF Inv, KnowsGeneration, Unchanged
    <3>6. UploadsSurvive'
      BY <3>1, <3>4 DEF Inv, UploadsSurvive
    <3>7. reader.obj \in Objects
      BY DEF Inv, TypeOK, Reader
    <3>8. ReaderKnows' /\ Numbered'
      BY <3>1, <3>4, <3>7 DEF Inv, ReaderKnows, KeywrapReadersUndisturbed, Numbered
    <3> QED BY <3>5, <3>6, <3>8 DEF Inv
  <2> QED BY <1>4, <2>1, <2>2 DEF KeyWrapUpdate
<1>5. CASE strategy = "csek" /\ RotateCSEKKey(c) /\ ~Fail(c)
  <2>1. CASE CsekAttrs(c)
    <3> DEFINE d == [c EXCEPT !.pc = "write", !.gen = store[c.obj].gen]
    <3>1. d.obj = c.obj /\ d.old_key = c.old_key /\ d.new_key = c.new_key /\ d.gen = store[c.obj].gen
      BY <1>0 DEF Call
    <3>2. Advance(c, d)
      BY <2>1 DEF CsekAttrs
    <3> HIDE DEF d
    <3> QED BY <1>0, <1>2, <1>5, <3>1, <3>2 DEF KnowsGeneration
  <2>2. CASE CsekRewrite(c)
    <3>1. /\ PutObject(c.obj, c.new_key, store[c.obj].payload.content, Tag(drawn)) /\ drawn' = drawn
          /\ calls' \subseteq calls /\ UNCHANGED <<strategy, reader, uploaded>>
      BY <1>5, <2>2 DEF CsekRewrite, Return, users
    <3> QED BY <1>0, <1>5, <3>1, RewriteInv
  <2> QED BY <1>5, <2>1, <2>2 DEF RotateCSEKKey
<1>6. CASE strategy = "cmek" /\ UpdateCMEKKey(c) /\ ~Fail(c)
  <2>1. CASE CmekOpen(c)
    <3> DEFINE d == [c EXCEPT !.pc = "read", !.content = store[c.obj].payload.content]
    <3>1. d.obj = c.obj /\ d.old_key = c.old_key /\ d.new_key = c.new_key /\ d.gen = c.gen /\ d.pc = "read"
      BY <1>0 DEF Call
    <3>2. Advance(c, d)
      BY <2>1 DEF CmekOpen
    <3> HIDE DEF d
    <3> QED BY <1>0, <1>2, <1>6, <3>1, <3>2 DEF KnowsGeneration
  <2>2. CASE CmekAttrs(c)
    <3> DEFINE d == [c EXCEPT !.pc = "write", !.gen = store[c.obj].gen]
    <3>1. d.obj = c.obj /\ d.old_key = c.old_key /\ d.new_key = c.new_key /\ d.gen = store[c.obj].gen
      BY <1>0 DEF Call
    <3>2. Advance(c, d) /\ store[c.obj].md.key = c.old_key
      BY <1>6, <2>2 DEF CmekAttrs
    <3> HIDE DEF d
    <3> QED BY <1>0, <1>2, <1>6, <3>1, <3>2 DEF KnowsGeneration
  <2>3. CASE CmekPut(c)
    <3>1. /\ PutObject(c.obj, c.new_key, c.content, Tag(drawn)) /\ drawn' = drawn
          /\ calls' \subseteq calls /\ UNCHANGED <<strategy, reader, uploaded>>
      BY <1>6, <2>3 DEF CmekPut, Return, users
    <3> QED BY <1>0, <1>6, <3>1, RewriteInv
  <2> QED BY <1>6, <2>1, <2>2, <2>3 DEF UpdateCMEKKey
<1> QED BY <1>1, <1>3, <1>4, <1>5, <1>6 DEF Update

LEMMA UploadInv ==
  ASSUME Inv, TypeOK', RoundHasEpoch', NEW o \in Objects, Upload(o)
  PROVE  Inv'
<1>0. /\ store[o].gen \in Nat /\ drawn \in Nat /\ reader.seen \in Nat /\ reader.obj \in Objects
      /\ \A p \in Objects : store[p].gen \in Nat /\ uploaded[p] \in Nat
      /\ \A c \in calls : c.obj \in Objects /\ c.gen \in Nat
  BY ObjectType, CallType DEF Inv, TypeOK, Reader
<1>1. PICK k \in 0..epoch : PutObject(o, k, drawn + 1, Tag(drawn + 1))
  BY DEF Upload
<1>2. drawn' = drawn + 1 /\ uploaded' = [uploaded EXCEPT ![o] = drawn + 1]
      /\ UNCHANGED <<strategy, calls, reader>>
  BY DEF Upload
<1>3. /\ store'[o].gen = store[o].gen + 1 /\ store'[o].payload.content = drawn + 1
      /\ store'[o].md.tag = store'[o].payload.tag /\ uploaded'[o] = drawn + 1
      /\ \A p \in Objects : p # o => store'[p] = store[p] /\ uploaded'[p] = uploaded[p]
  BY <1>1, <1>2 DEF Inv, TypeOK, PutObject
<1>4. ASSUME NEW c \in calls' PROVE KnowsGeneration(c)'
  <2>1. KnowsGeneration(c) /\ c.obj \in Objects /\ c.gen \in Nat
    BY <1>0, <1>2 DEF Inv
  <2>2. CASE c.obj = o
    BY <1>0, <1>2, <1>3, <2>1, <2>2 DEF KnowsGeneration, Unchanged
  <2>3. CASE c.obj # o
    BY <1>2, <1>3, <2>1, <2>3 DEF KnowsGeneration, Unchanged
  <2> QED BY <2>2, <2>3
<1>5. UploadsSurvive'
  BY <1>2, <1>3 DEF Inv, UploadsSurvive
<1>6. reader.seen <= drawn
  BY DEF Inv, Numbered
<1>7. ASSUME reader.obj = o PROVE ReaderKnows'
  <2>1. uploaded'[reader'.obj] # reader'.seen
    BY <1>0, <1>2, <1>3, <1>6, <1>7
  <2>2. reader' = reader /\ strategy' = strategy
    BY <1>2
  <2>3. /\ store'[o].gen = store[o].gen + 1
        /\ strategy = "keywrap" /\ reader.pc = "payload" => reader.gen <= store[o].gen
        /\ reader.gen \in Nat /\ store[o].gen \in Nat
    BY <1>0, <1>3, <1>7 DEF Inv, ReaderKnows, TypeOK, Reader
  <2>4. strategy = "keywrap" /\ reader.pc = "payload"
          => reader'.gen <= store'[reader'.obj].gen /\ reader'.gen # store'[reader'.obj].gen
    BY <1>7, <2>2, <2>3
  <2>5. strategy' = "keywrap" => reader'.pc # "garbled"
    BY <2>2 DEF Inv, ReaderKnows, KeywrapReadersUndisturbed
  <2> QED BY <2>1, <2>2, <2>4, <2>5 DEF ReaderKnows, KeywrapReadersUndisturbed
<1>8. ASSUME reader.obj # o PROVE ReaderKnows'
  <2>1. /\ reader' = reader /\ strategy' = strategy
        /\ store'[reader.obj] = store[reader.obj] /\ uploaded'[reader.obj] = uploaded[reader.obj]
    BY <1>0, <1>2, <1>3, <1>8
  <2> QED BY <2>1 DEF Inv, ReaderKnows, KeywrapReadersUndisturbed
<1>9. Numbered'
  BY <1>0, <1>2, <1>3 DEF Inv, Numbered
<1> QED BY <1>4, <1>5, <1>7, <1>8, <1>9 DEF Inv

LEMMA ReaderInv ==
  ASSUME Inv, TypeOK', RoundHasEpoch', (\E o \in Objects : ReaderAttrs(o)) \/ ReaderPayload \/ ReaderDone
  PROVE  Inv'
<1>0. UNCHANGED <<strategy, store, drawn, uploaded, calls>>
  BY DEF ReaderAttrs, ReaderPayload, ReaderDone
<1>1. \A c \in calls' : KnowsGeneration(c)'
  BY <1>0 DEF Inv, KnowsGeneration, Unchanged
<1>2. UploadsSurvive'
  BY <1>0 DEF Inv, UploadsSurvive
<1>3. ASSUME NEW o \in Objects, ReaderAttrs(o) PROVE ReaderKnows' /\ Numbered'
  <2>1. /\ reader'.pc = "payload" /\ reader'.obj = o /\ reader'.gen = store[o].gen
        /\ reader'.tag = store[o].md.tag /\ reader'.seen = uploaded[o] /\ store[o].gen \in Nat
    BY <1>3, ObjectType DEF ReaderAttrs, Inv
  <2> QED BY <1>0, <2>1 DEF Inv, ReaderKnows, KeywrapReadersUndisturbed, Numbered, UploadsSurvive
<1>4. ASSUME ReaderPayload PROVE ReaderKnows' /\ Numbered'
  <2>1. /\ reader.pc = "payload" /\ reader \in Reader /\ reader'.obj = reader.obj /\ reader'.seen = reader.seen
        /\ reader'.pc = IF store[reader.obj].gen # reader.gen THEN "mismatch"
                        ELSE IF store[reader.obj].payload.tag = reader.tag THEN "content"
                        ELSE "garbled"
    BY <1>4 DEF ReaderPayload, Inv, TypeOK, Reader
  <2>2. ReaderKnows'
    BY <1>0, <2>1 DEF Inv, ReaderKnows, KeywrapReadersUndisturbed
  <2> QED BY <1>0, <2>1, <2>2 DEF Inv, Numbered
<1>5. ASSUME ReaderDone PROVE ReaderKnows' /\ Numbered'
  <2>1. reader'.pc = "none" /\ reader'.seen = 0 /\ drawn \in Nat
    BY <1>5 DEF ReaderDone, NoReader, Inv, TypeOK
  <2> QED BY <1>0, <2>1 DEF Inv, ReaderKnows, KeywrapReadersUndisturbed, Numbered
<1> QED BY <1>1, <1>2, <1>3, <1>4, <1>5 DEF Inv

LEMMA InitInv == Init => Inv
<1> SUFFICES ASSUME Init PROVE Inv
  OBVIOUS
<1>1. \A o \in Objects : /\ store[o].payload.content = 1 /\ store[o].md.tag = store[o].payload.tag
                         /\ uploaded[o] = 1
  BY DEF Init
<1>2. reader.pc = "none" /\ reader.seen = 0 /\ drawn = 1 /\ calls = {}
  BY DEF Init, NoReader
<1> QED BY <1>1, <1>2, InitType
        DEF Inv, UploadsSurvive, ReaderKnows, KeywrapReadersUndisturbed, Numbered

LEMMA StepInv ==
  ASSUME Inv, [Next]_vars
  PROVE  Inv'
<1>0. TypeOK' /\ RoundHasEpoch'
  BY StepType DEF Inv
<1>1. ASSUME NEW o \in Objects, StartCall(o) PROVE Inv'
  <2> DEFINE d == NewCall(o, "akesod", 0, epoch - 1, epoch)
  <2>1. /\ epoch \in Nat /\ epoch > 0 /\ store[o].gen \in Nat /\ calls' = calls \cup {d}
        /\ UNCHANGED <<strategy, store, drawn, reader, uploaded>>
    BY <1>1, ObjectType DEF StartCall, Inv, RoundHasEpoch, TypeOK, users
  <2>2. d.obj = o /\ d.old_key = epoch - 1 /\ d.new_key = epoch /\ d.gen = 0 /\ d.pc = "begin"
    BY DEF NewCall
  <2> HIDE DEF d
  <2>3. KnowsGeneration(d)
    BY <2>1, <2>2 DEF KnowsGeneration
  <2> QED BY <1>0, <2>1, <2>3, NoWriteInv
<1>2. ASSUME NEW o \in Objects, ManualUpdate(o) PROVE Inv'
  <2> DEFINE d == NewCall(o, "cloud-cp", commands + 1, store[o].md.key, epoch)
  <2>1. /\ store[o].md.key < epoch /\ store[o].gen \in Nat /\ calls' = calls \cup {d}
        /\ UNCHANGED <<strategy, store, drawn, reader, uploaded>>
    BY <1>2, ObjectType DEF ManualUpdate, Inv
  <2>2. d.obj = o /\ d.old_key = store[o].md.key /\ d.new_key = epoch /\ d.gen = 0 /\ d.pc = "begin"
    BY DEF NewCall
  <2> HIDE DEF d
  <2>3. KnowsGeneration(d)
    BY <2>1, <2>2 DEF KnowsGeneration
  <2> QED BY <1>0, <2>1, <2>3, NoWriteInv
<1>3. CASE StartRound \/ Crash \/ Restart \/ UNCHANGED vars
  <2>1. calls' \subseteq calls /\ UNCHANGED <<strategy, store, drawn, reader, uploaded>>
    BY <1>3 DEF StartRound, Crash, ProcessExits, Restart, vars, users
  <2> QED BY <1>0, <2>1, NoWriteInv
<1> QED BY <1>0, <1>1, <1>2, <1>3, UpdateInv, UploadInv, ReaderInv DEF Next, CloudCp

LEMMA Inductive == Spec => []Inv
  BY InitInv, StepInv, PTL DEF Spec

\* keywrap and csek never lose an upload and never leave metadata that does not fit
\* the payload, whatever races there are between rotations, uploads and operators.
THEOREM Survive == Spec => []UploadsSurvive
<1>1. Inv => UploadsSurvive
  BY DEF Inv
<1> QED BY <1>1, Inductive, PTL

\* A keywrap download fails only if the object was uploaded while it ran: rotations
\* leave the generation it is conditional on.
THEOREM Undisturbed == Spec => []KeywrapReadersUndisturbed
<1>1. Inv => KeywrapReadersUndisturbed
  BY DEF Inv, ReaderKnows
<1> QED BY <1>1, Inductive, PTL

\* With csek and cmek only an upload takes an object back to an earlier key, whatever
\* races there are: every write is conditional on the generation it follows.
THEOREM GuardsKey == Spec => GenerationGuardsKey
<1>1. ASSUME Inv, [Next]_vars, strategy \in {"csek", "cmek"}, commands' = commands, NEW o \in Objects
      PROVE  store'[o].md.key >= store[o].md.key
  <2>0. /\ store[o].md.key \in Nat /\ store \in [Objects -> StoredObject] /\ commands \in Nat
    BY <1>1, ObjectType DEF Inv, TypeOK
  <2>1. ASSUME NEW c \in calls, Update(c) PROVE store'[o].md.key >= store[o].md.key
    <3>1. CASE UNCHANGED store
      BY <2>0, <3>1
    <3>2. CASE ~UNCHANGED store
      <4>1. KnowsGeneration(c) /\ c.obj \in Objects /\ c.old_key \in Nat /\ c.new_key \in Nat
        BY <1>1, CallType DEF Inv
      <4>2. /\ store[c.obj].md.key = c.old_key
            /\ \E content, tag : PutObject(c.obj, c.new_key, content, tag)
        <5>1. CASE strategy = "csek"
          BY <1>1, <2>1, <3>2, <5>1 DEF Update, RotateCSEKKey, CsekAttrs, CsekRewrite, Advance, Fail
        <5>2. CASE strategy = "cmek"
          BY <1>1, <2>1, <3>2, <4>1, <5>2
             DEF Update, UpdateCMEKKey, CmekOpen, CmekAttrs, CmekPut, Advance, Fail, KnowsGeneration
        <5> QED BY <1>1, <5>1, <5>2
      <4> QED BY <2>0, <4>1, <4>2 DEF PutObject, KnowsGeneration
    <3> QED BY <3>1, <3>2
  <2>2. CASE CloudCp
    <3>1. UNCHANGED store
      BY <1>1, <2>0, <2>2 DEF CloudCp, Upload, ManualUpdate, ReaderAttrs, ReaderPayload, ReaderDone
    <3> QED BY <2>0, <3>1
  <2>3. CASE StartRound \/ (\E p \in Objects : StartCall(p)) \/ Crash \/ Restart \/ UNCHANGED vars
    BY <2>0, <2>3 DEF StartRound, StartCall, Crash, Restart, vars
  <2> QED BY <1>1, <2>1, <2>2, <2>3 DEF Next
<1>2. Inv /\ [Next]_vars
        => [(strategy \in {"csek", "cmek"} /\ commands' = commands)
              => \A o \in Objects : store'[o].md.key >= store[o].md.key]_vars
  BY <1>1
<1> QED BY <1>2, Inductive, PTL DEF Spec, GenerationGuardsKey
-----------------------------------------------------------------------------
(***************************************************************************)
(* Rounds that wait for each other, with crashes and uploads between them, *)
(* implement KeyRotation.  No write is atomic with the reads it follows,   *)
(* and strawman's is not even conditional: what makes it a rotation is     *)
(* that a call has its object to itself.                                   *)
(***************************************************************************)

\* A call of this round, the only one for its object.
SoleCall(c) ==
  /\ c.by = "akesod"
  /\ c.old_key + 1 = epoch
  /\ c.new_key = epoch
  /\ c.obj \notin todo
  /\ \A d \in calls : d.obj = c.obj => d = c

\* What a call is about to write follows from what the object still is; no call of the
\* daemon gets as far as cmek's write.
ReadStillHolds(c) ==
  /\ (strategy \in {"strawman", "keywrap"} /\ c.pc = "write") => store[c.obj].md.key = c.old_key
  /\ (strategy = "strawman" /\ c.pc = "write") => store[c.obj].payload.content = c.content
  /\ strategy = "cmek" => c.pc # "write"

RoundInv == /\ TypeOK
            /\ RoundHasEpoch
            /\ \A c \in calls : SoleCall(c) /\ ReadStillHolds(c)
            /\ \A o \in Objects : store[o].payload.content <= drawn

\* A step of a call that leaves the objects alone: it goes on, or its process exits.
GoesOn(c) ==
  /\ UNCHANGED <<strategy, store, epoch, drawn>>
  /\ \/ calls' = {}
     \/ /\ UNCHANGED todo
        /\ \E d : /\ calls' = (calls \ {c}) \cup {d}
                  /\ d.obj = c.obj /\ d.by = c.by /\ d.old_key = c.old_key /\ d.new_key = c.new_key
                  /\ ReadStillHolds(d)

\* A step of a call that takes its object from the old key to the current one.
TakesOver(c) ==
  /\ UNCHANGED <<strategy, epoch, todo>>
  /\ drawn' \in Nat /\ drawn <= drawn'
  /\ calls' = calls \ {c}
  /\ store[c.obj].md.key = c.old_key
  /\ store'[c.obj].md.key = c.new_key
  /\ store'[c.obj].payload.content = store[c.obj].payload.content
  /\ \A o \in Objects : o # c.obj => store'[o] = store[o]

\* A write of the whole object that keeps its content is such a step.
LEMMA WriteTakesOver ==
  ASSUME TypeOK, NEW c \in calls, NEW content, NEW tag, PutObject(c.obj, c.new_key, content, tag),
         Return(c), drawn' \in Nat, drawn <= drawn',
         store[c.obj].md.key = c.old_key, store[c.obj].payload.content = content
  PROVE  TakesOver(c)
<1>1. c.obj \in Objects /\ store \in [Objects -> StoredObject]
  BY CallType DEF TypeOK
<1>2. /\ store'[c.obj].md.key = c.new_key
      /\ store'[c.obj].payload.content = content
      /\ \A o \in Objects : o # c.obj => store'[o] = store[o]
  BY <1>1 DEF PutObject
<1> QED BY <1>2 DEF TakesOver, Return, daemon

LEMMA UpdateGoesOnOrTakesOver ==
  ASSUME RoundInv, NEW c \in calls, Update(c)
  PROVE  GoesOn(c) \/ TakesOver(c)
<1>0. /\ c \in Call /\ c.obj \in Objects /\ drawn \in Nat /\ store \in [Objects -> StoredObject]
      /\ SoleCall(c) /\ ReadStillHolds(c) /\ TypeOK
  BY CallType DEF RoundInv, TypeOK
<1>1. CASE Fail(c)
  <2>1. calls' = {}
    BY <1>0, <1>1 DEF Fail, ProcessExits, RoundInv, SoleCall
  <2> QED BY <1>1, <2>1 DEF Fail, GoesOn
<1>2. ASSUME NEW d, Advance(c, d), d.obj = c.obj, d.by = c.by, d.old_key = c.old_key,
             d.new_key = c.new_key, ReadStillHolds(d)
      PROVE  GoesOn(c)
  BY <1>2 DEF Advance, GoesOn, daemon
<1>3. CASE strategy = "strawman" /\ StrawmanUpdate(c) /\ ~Fail(c)
  <2>1. CASE StrawmanAttrs(c)
    <3> DEFINE d == [c EXCEPT !.pc = "read", !.gen = store[c.obj].gen, !.tag = store[c.obj].md.tag]
    <3>1. /\ d.obj = c.obj /\ d.by = c.by /\ d.old_key = c.old_key /\ d.new_key = c.new_key
          /\ d.pc = "read"
      BY <1>0 DEF Call
    <3>2. Advance(c, d)
      BY <2>1 DEF StrawmanAttrs
    <3> HIDE DEF d
    <3>3. ReadStillHolds(d)
      BY <1>3, <3>1 DEF ReadStillHolds
    <3> QED BY <1>2, <3>1, <3>2, <3>3
  <2>2. CASE StrawmanPayload(c)
    <3> DEFINE d == [c EXCEPT !.pc = "write", !.content = store[c.obj].payload.content]
    <3>1. /\ d.obj = c.obj /\ d.by = c.by /\ d.old_key = c.old_key /\ d.new_key = c.new_key
          /\ d.content = store[c.obj].payload.content
      BY <1>0 DEF Call
    <3>2. Advance(c, d) /\ store[c.obj].md.key = c.old_key
      BY <1>3, <2>2 DEF StrawmanPayload
    <3> HIDE DEF d
    <3>3. ReadStillHolds(d)
      BY <1>3, <3>1, <3>2 DEF ReadStillHolds
    <3> QED BY <1>2, <3>1, <3>2, <3>3
  <2>3. CASE StrawmanPut(c)
    <3>1. /\ c.pc = "write" /\ PutObject(c.obj, c.new_key, c.content, Tag(drawn + 1))
          /\ drawn' = drawn + 1 /\ Return(c)
      BY <2>3 DEF StrawmanPut
    <3>2. store[c.obj].md.key = c.old_key /\ store[c.obj].payload.content = c.content
      BY <1>0, <1>3, <3>1 DEF ReadStillHolds
    <3>3. drawn' \in Nat /\ drawn <= drawn'
      BY <1>0, <3>1
    <3> QED BY <1>0, <3>1, <3>2, <3>3, WriteTakesOver
  <2> QED BY <1>3, <2>1, <2>2, <2>3 DEF StrawmanUpdate
<1>4. CASE strategy = "keywrap" /\ KeyWrapUpdate(c) /\ ~Fail(c)
  <2>1. CASE KeyWrapAttrs(c)
    <3> DEFINE d == [c EXCEPT !.pc = "write", !.gen = store[c.obj].gen, !.tag = store[c.obj].md.tag]
    <3>1. d.obj = c.obj /\ d.by = c.by /\ d.old_key = c.old_key /\ d.new_key = c.new_key
      BY <1>0 DEF Call
    <3>2. Advance(c, d) /\ store[c.obj].md.key = c.old_key
      BY <1>4, <2>1 DEF KeyWrapAttrs
    <3> HIDE DEF d
    <3>3. ReadStillHolds(d)
      BY <1>4, <3>1, <3>2 DEF ReadStillHolds
    <3> QED BY <1>2, <3>1, <3>2, <3>3
  <2>2. CASE KeyWrapMetadata(c)
    <3> DEFINE md == [key |-> c.new_key, tag |-> c.tag]
    <3>1. /\ c.pc = "write" /\ store' = [store EXCEPT ![c.obj].md = md]
          /\ drawn' = drawn /\ Return(c)
      BY <1>4, <2>2 DEF KeyWrapMetadata
    <3>2. store[c.obj].md.key = c.old_key
      BY <1>0, <1>4, <3>1 DEF ReadStillHolds
    <3>3. md.key = c.new_key
      OBVIOUS
    <3> HIDE DEF md
    <3>4. /\ store'[c.obj].md = md
          /\ store'[c.obj].payload = store[c.obj].payload
          /\ \A o \in Objects : o # c.obj => store'[o] = store[o]
      BY <1>0, <3>1 DEF StoredObject
    <3>5. drawn' \in Nat /\ drawn <= drawn'
      BY <1>0, <3>1
    <3> QED BY <3>1, <3>2, <3>3, <3>4, <3>5 DEF TakesOver, Return, daemon
  <2> QED BY <1>4, <2>1, <2>2 DEF KeyWrapUpdate
<1>5. CASE strategy = "csek" /\ RotateCSEKKey(c) /\ ~Fail(c)
  <2>1. CASE CsekAttrs(c)
    <3> DEFINE d == [c EXCEPT !.pc = "write", !.gen = store[c.obj].gen]
    <3>1. d.obj = c.obj /\ d.by = c.by /\ d.old_key = c.old_key /\ d.new_key = c.new_key
      BY <1>0 DEF Call
    <3>2. Advance(c, d)
      BY <2>1 DEF CsekAttrs
    <3> HIDE DEF d
    <3>3. ReadStillHolds(d)
      BY <1>5 DEF ReadStillHolds
    <3> QED BY <1>2, <3>1, <3>2, <3>3
  <2>2. CASE CsekRewrite(c)
    <3>1. /\ PutObject(c.obj, c.new_key, store[c.obj].payload.content, Tag(drawn))
          /\ store[c.obj].md.key = c.old_key /\ drawn' = drawn /\ Return(c)
      BY <1>5, <2>2 DEF CsekRewrite
    <3>2. drawn' \in Nat /\ drawn <= drawn'
      BY <1>0, <3>1
    <3> QED BY <1>0, <3>1, <3>2, WriteTakesOver
  <2> QED BY <1>5, <2>1, <2>2 DEF RotateCSEKKey
<1>6. CASE strategy = "cmek" /\ UpdateCMEKKey(c) /\ ~Fail(c)
  <2>1. CASE CmekOpen(c)
    <3> DEFINE d == [c EXCEPT !.pc = "read", !.content = store[c.obj].payload.content]
    <3>1. /\ d.obj = c.obj /\ d.by = c.by /\ d.old_key = c.old_key /\ d.new_key = c.new_key
          /\ d.pc = "read"
      BY <1>0 DEF Call
    <3>2. Advance(c, d)
      BY <2>1 DEF CmekOpen
    <3> HIDE DEF d
    <3>3. ReadStillHolds(d)
      BY <1>6, <3>1 DEF ReadStillHolds
    <3> QED BY <1>2, <3>1, <3>2, <3>3
  <2>2. ~CmekAttrs(c)
    BY <1>0, <1>6 DEF CmekAttrs, SoleCall
  <2>3. ~CmekPut(c)
    BY <1>0, <1>6 DEF CmekPut, ReadStillHolds
  <2> QED BY <1>6, <2>1, <2>2, <2>3 DEF UpdateCMEKKey
<1> QED BY <1>1, <1>3, <1>4, <1>5, <1>6 DEF Update

\* Seen from outside, a step that leaves keys and contents alone, and one that takes
\* one object to the current key.
LEMMA Stutters ==
  ASSUME epoch' = epoch,
         \A o \in Objects : /\ store'[o].md.key = store[o].md.key
                            /\ store'[o].payload.content = store[o].payload.content
  PROVE  UNCHANGED Rotation!vars
  BY DEF Rotation!vars

LEMMA Rotates ==
  ASSUME NEW o \in Objects, epoch \in Nat, epoch' = epoch, store[o].md.key < epoch,
         store'[o].md.key = epoch,
         \A p \in Objects : /\ p # o => store'[p].md.key = store[p].md.key
                            /\ store'[p].payload.content = store[p].payload.content
  PROVE  Rotation!Rotate(o)
<1>1. epoch \in 0..epoch
  OBVIOUS
<1> QED BY <1>1 DEF Rotation!Rotate

\* The invariant after steps that change neither the objects nor the kind of calls.
LEMMA RoundKept ==
  ASSUME RoundInv, TypeOK', RoundHasEpoch', UNCHANGED <<strategy, store, drawn>>,
         calls' = {} \/ UNCHANGED <<epoch, todo, calls>>
  PROVE  RoundInv'
<1>1. \A c \in calls' : SoleCall(c)' /\ ReadStillHolds(c)'
  BY DEF RoundInv, SoleCall, ReadStillHolds
<1>2. \A o \in Objects : store'[o].payload.content <= drawn'
  BY DEF RoundInv
<1> QED BY <1>1, <1>2 DEF RoundInv

\* The daemon's steps.
LEMMA DaemonRotates ==
  ASSUME Allowed \subseteq {"crash"}, RoundInv, TypeOK', RoundHasEpoch',
         StartRound \/ (\E o \in Objects : StartCall(o)) \/ Crash \/ Restart
  PROVE  RoundInv' /\ [Rotation!Next]_(Rotation!vars)
<1>0. epoch \in Nat /\ RoundHasEpoch
  BY DEF RoundInv, TypeOK
<1>1. CASE StartRound
  <2>1. /\ calls = {} /\ calls' = {} /\ epoch' = epoch + 1
        /\ UNCHANGED <<strategy, store, drawn>>
    BY <1>1 DEF StartRound
  <2>2. RoundInv'
    BY <2>1, RoundKept
  <2>3. Rotation!NextKey
    BY <1>0, <2>1 DEF Rotation!NextKey
  <2> QED BY <2>2, <2>3 DEF Rotation!Next
<1>2. ASSUME NEW o \in Objects, StartCall(o)
      PROVE  RoundInv' /\ UNCHANGED Rotation!vars
  <2> DEFINE d == NewCall(o, "akesod", 0, epoch - 1, epoch)
  <2>1. /\ o \in todo /\ todo' = todo \ {o} /\ calls' = calls \cup {d}
        /\ UNCHANGED <<strategy, store, epoch, drawn>>
    BY <1>2 DEF StartCall
  <2>2. /\ d.obj = o /\ d.by = "akesod" /\ d.old_key = epoch - 1 /\ d.new_key = epoch
        /\ d.pc = "begin"
    BY DEF NewCall
  <2> HIDE DEF d
  <2>3. \A c \in calls : SoleCall(c) /\ ReadStillHolds(c) /\ c.obj # o
    BY <2>1 DEF RoundInv, SoleCall
  <2>4. d.old_key + 1 = epoch
    BY <1>0, <2>1, <2>2 DEF RoundHasEpoch
  <2>5. ASSUME NEW c \in calls' PROVE SoleCall(c)'
    <3>1. CASE c \in calls
      BY <2>1, <2>2, <2>3, <3>1 DEF SoleCall
    <3>2. CASE c = d
      BY <2>1, <2>2, <2>3, <2>4, <3>2 DEF SoleCall
    <3> QED BY <2>1, <2>5, <3>1, <3>2
  <2>6. \A c \in calls' : ReadStillHolds(c)'
    BY <2>1, <2>2, <2>3 DEF ReadStillHolds
  <2>7. RoundInv'
    BY <2>1, <2>5, <2>6 DEF RoundInv
  <2> QED BY <2>1, <2>7, Stutters
<1>3. CASE Crash \/ Restart
  <2>1. /\ UNCHANGED <<strategy, store, drawn, epoch>>
        /\ calls' = {} \/ UNCHANGED <<epoch, todo, calls>>
    BY <1>3 DEF Crash, Restart, ProcessExits, RoundInv, SoleCall
  <2> QED BY <2>1, RoundKept, Stutters
<1> QED BY <1>1, <1>2, <1>3

LEMMA UpdateRotates ==
  ASSUME RoundInv, TypeOK', RoundHasEpoch', NEW c \in calls, Update(c)
  PROVE  RoundInv' /\ [Rotation!Next]_(Rotation!vars)
<1>0. /\ c.obj \in Objects /\ epoch \in Nat /\ drawn \in Nat /\ c.old_key \in Nat
      /\ \A o \in Objects : store[o].payload.content \in Nat
      /\ \A d \in calls : SoleCall(d) /\ ReadStillHolds(d) /\ d.obj \in Objects
  BY CallType, ObjectType DEF RoundInv, TypeOK
<1>1. CASE GoesOn(c)
  <2>1. CASE calls' = {}
    BY <1>1, <2>1, RoundKept, Stutters DEF GoesOn
  <2>2. CASE calls' # {}
    <3>1. PICK d : /\ calls' = (calls \ {c}) \cup {d}
                   /\ d.obj = c.obj /\ d.by = c.by /\ d.old_key = c.old_key /\ d.new_key = c.new_key
                   /\ ReadStillHolds(d)
      BY <1>1, <2>2 DEF GoesOn
    <3>2. UNCHANGED <<strategy, store, epoch, drawn, todo>>
      BY <1>1, <2>2 DEF GoesOn
    <3>3. \A b \in calls' : SoleCall(b)' /\ ReadStillHolds(b)'
      BY <1>0, <3>1, <3>2 DEF SoleCall, ReadStillHolds
    <3>4. RoundInv'
      BY <3>2, <3>3 DEF RoundInv
    <3> QED BY <3>2, <3>4, Stutters
  <2> QED BY <2>1, <2>2
<1>2. CASE TakesOver(c)
  <2>1. /\ calls' = calls \ {c} /\ UNCHANGED <<strategy, epoch, todo>>
        /\ drawn' \in Nat /\ drawn <= drawn'
        /\ store[c.obj].md.key = c.old_key /\ store'[c.obj].md.key = c.new_key
        /\ store'[c.obj].payload.content = store[c.obj].payload.content
        /\ \A o \in Objects : o # c.obj => store'[o] = store[o]
    BY <1>2 DEF TakesOver
  <2>2. c.old_key + 1 = epoch /\ c.new_key = epoch
    BY <1>0 DEF SoleCall
  <2>3. store[c.obj].md.key < epoch
    BY <1>0, <2>1, <2>2
  <2>4. Rotation!Rotate(c.obj)
    BY <1>0, <2>1, <2>2, <2>3, Rotates
  <2>5. \A d \in calls' : d \in calls /\ d.obj # c.obj
    BY <1>0, <2>1 DEF SoleCall
  <2>6. \A d \in calls' : SoleCall(d)' /\ ReadStillHolds(d)'
    BY <1>0, <2>1, <2>5 DEF SoleCall, ReadStillHolds
  <2>7. \A o \in Objects : store'[o].payload.content <= drawn'
    <3>1. \A o \in Objects : store'[o].payload.content = store[o].payload.content
      BY <2>1
    <3> QED BY <1>0, <2>1, <3>1 DEF RoundInv
  <2>8. RoundInv'
    BY <2>6, <2>7 DEF RoundInv
  <2> QED BY <1>0, <2>4, <2>8 DEF Rotation!Next
<1> QED BY <1>1, <1>2, UpdateGoesOnOrTakesOver

LEMMA CloudCpRotates ==
  ASSUME Allowed \subseteq {"crash"}, RoundInv, TypeOK', RoundHasEpoch', CloudCp
  PROVE  RoundInv' /\ [Rotation!Next]_(Rotation!vars)
<1>1. ASSUME NEW o \in Objects, Upload(o)
      PROVE  RoundInv' /\ Rotation!Upload(o)
  <2>0. /\ drawn \in Nat /\ epoch \in Nat /\ store \in [Objects -> StoredObject]
        /\ \A p \in Objects : store[p].payload.content \in Nat /\ store[p].payload.content <= drawn
    BY ObjectType DEF RoundInv, TypeOK
  <2>1. PICK k \in {k \in 0..epoch : k + 1 >= epoch} : PutObject(o, k, drawn + 1, Tag(drawn + 1))
    BY <1>1 DEF Upload
  <2>2. /\ ~AtWork(o) /\ drawn' = drawn + 1
        /\ UNCHANGED <<strategy, epoch, todo, calls>>
    BY <1>1 DEF Upload, daemon
  <2>3. /\ store'[o].md.key = k /\ store'[o].payload.content = drawn + 1
        /\ \A p \in Objects : p # o => store'[p] = store[p]
    BY <2>0, <2>1 DEF PutObject
  <2>4. \A c \in calls' : c \in calls /\ c.obj # o /\ c.obj \in Objects
    BY <2>2, CallType DEF AtWork, RoundInv
  <2>5. \A c \in calls' : SoleCall(c)' /\ ReadStillHolds(c)'
    BY <2>2, <2>3, <2>4 DEF RoundInv, SoleCall, ReadStillHolds
  <2>6. \A p \in Objects : store'[p].payload.content \in Nat /\ store'[p].payload.content <= drawn'
    BY <2>0, <2>2, <2>3
  <2>7. RoundInv'
    BY <2>5, <2>6 DEF RoundInv
  <2>8. store[o].payload.content < drawn + 1
    BY <2>0
  <2>9. Rotation!Upload(o)
    BY <2>2, <2>3, <2>6, <2>8 DEF Rotation!Upload
  <2> QED BY <2>7, <2>9
<1>2. CASE (\E o \in Objects : ReaderAttrs(o)) \/ ReaderPayload \/ ReaderDone
  <2>1. UNCHANGED <<strategy, store, drawn, epoch, todo, calls>>
    BY <1>2 DEF ReaderAttrs, ReaderPayload, ReaderDone, daemon
  <2> QED BY <2>1, RoundKept, Stutters
<1>3. \A o \in Objects : ~ManualUpdate(o)
  BY DEF ManualUpdate
<1> QED BY <1>1, <1>2, <1>3 DEF CloudCp, Rotation!Next

\* Whatever the strategy, and wherever the daemon crashes, the calls of rounds that
\* wait for each other are the rotations of KeyRotation and nothing else.
THEOREM Refinement == ASSUME Allowed \subseteq {"crash"}
                      PROVE  Spec => ImplementsKeyRotation
<1>1. Init => RoundInv /\ Rotation!Init
  <2> SUFFICES ASSUME Init PROVE RoundInv /\ Rotation!Init
    OBVIOUS
  <2>1. \A o \in Objects : store[o].md.key = 0 /\ store[o].payload.content = 1
    BY DEF Init
  <2>2. RoundInv
    BY <2>1, InitType DEF Init, RoundInv
  <2>3. Rotation!Init
    BY <2>1 DEF Rotation!Init, Init
  <2> QED BY <2>2, <2>3
<1>2. RoundInv /\ [Next]_vars => RoundInv' /\ [Rotation!Next]_(Rotation!vars)
  <2> SUFFICES ASSUME RoundInv, [Next]_vars PROVE RoundInv' /\ [Rotation!Next]_(Rotation!vars)
    OBVIOUS
  <2>1. TypeOK' /\ RoundHasEpoch'
    BY StepType DEF RoundInv
  <2>2. CASE UNCHANGED vars
    <3>1. UNCHANGED <<strategy, store, drawn, epoch, todo, calls>>
      BY <2>2 DEF vars
    <3> QED BY <2>1, <3>1, RoundKept, Stutters
  <2> QED BY <2>1, <2>2, DaemonRotates, UpdateRotates, CloudCpRotates DEF Next
<1> QED BY <1>1, <1>2, PTL DEF Spec, ImplementsKeyRotation, Rotation!Spec
=============================================================================
