# Akeso in TLA+

Akeso re-encrypts the objects of a Google Cloud Storage bucket whenever the key of a
group of users changes. The group agrees on its key with asynchronous ratchet trees (ART);
a daemon, `akesod`, follows the key updates that members publish, and rotates the bucket's
objects by one of five strategies. The strategy the system is named for writes only a small
header and lets a cloud function add a layer of encryption to the payload.

This directory holds models of the daemon, of the group's setup, of the strategies, of the cloud function, of
the benchmark drivers and of the `drat-bench` conversation, the TLC configurations that check them, and proofs of their
main safety properties. Paths below are relative to the repository. `PROJECT.json` lists, for every
definition that stands for code, the lines it stands for (`map`), and, for every hazard, the
properties that would catch it going wrong.

    tlc -config AkesoFaults.cfg MCAkesoObject      # one run
    tlapm AkesoObjectProofs.tla                    # one module of proofs

## 1. The system

### Components

| Component | State | Operations | Source (`src/`) | Module |
|---|---|---|---|---|
| akesod, start and group setup | key files, `setup.msg`, `state.json`, `stage-key.pem`, topic, subscription | generate keys, build and sign the setup message, publish SetupGroup, subscribe | `akesod/cmd/akesod/main.go`, `art.go` | `GroupSetup`, `AkesodDaemon` |
| akesod, key-update handler | `keys/state.json`, `keys/stage-key.pem`, the receiver's callbacks, `msgChan` | acknowledge, receive, apply the update to the tree, save, replace the notification, rotate | `akesod/cmd/akesod/pubsub.go` | `AkesodDaemon`, `AkesoObject` |
| akesod, fan-out | WaitGroup, semaphore, `errChan`, the captured `err` | a worker and a closer for every file | `pubsub.go:183-231` | `BucketFanout`, `AkesodDaemon` |
| akeso strategy | object payload and metadata (header, IV, tag) | `AkesoUpload`, `AkesoDownload`, `AkesoUpdate` | `akesod/internal/encstr/akeso.go` | `AkesoObject` |
| cloud function | none of its own | read, add a CTR layer, write | `akesod/cmd/gcs-utils/cloud-functions/encrypt-object` | `AkesoObject` |
| strawman, keywrap, csek, cmek | object payload and metadata | upload, download, update | `akesod/internal/encstr/*.go` | `ObjectStrategies` |
| gcsx | none | put, get, update metadata, notifications | `akesod/internal/gcsx/gcsx.go` | steps of the above (partly) |
| cloud-cp | none | upload, download, rotate one object | `akesod/cmd/cloud-cp` | the users of `AkesoObject`, `ObjectStrategies` |
| trigger-key-update | none | publish an `update_key` message | `akesod/cmd/trigger-key-update` | `AkesodDaemon` |
| drat-bench, alice and bob | key pair, root key, chain key, three goroutines each | send a line, receive a PDU, ratchet | `figure2/drat-bench/cmd/{alice,bob}`, `internal/drat` | `DoubleRatchet` |
| drat-bench, key manager | none kept | benchmark | `figure2/drat-bench/internal/key-manager` | not modelled |
| benchmark drivers | `generated_files`, buckets, found log entries | prepare files, buckets and notifications; upload, update, poll the log | `akesod/evaluations-*/evaluations.go` | `Benchmark` (partly) |
| gcs-utils | none | replace a bucket's notification | `akesod/cmd/gcs-utils` | a step of `Benchmark` |
| aesx, aesgcm, option parsing, scripts | none or configuration | | | not modelled |

ART, the nested AES header, `mu`, Cloud Storage, Pub/Sub and KMS are not in the repository;
they are modelled from how the code uses them and marked external in the map.

### How the parts interact

A member's update message reaches the daemon through a Pub/Sub subscription. A callback
acknowledges it and hands it to the main loop, which replaces the two files, lists the
bucket, under akeso replaces the bucket's notification by one that carries a fresh
`new_dek`, and starts one goroutine per file. `AkesoUpdate` adds that DEK to the object's header
by a metadata write; Cloud Storage publishes the write, with the `new_dek` the notification has *then*,
to the cloud function, which reads the payload and writes it back with one more layer. Once the
header would list `max_reencryptions` DEKs, `AkesoUpdate` instead downloads and encrypts
from scratch. Users read and write the same objects with `cloud-cp`, at any time, and with
a key that may be one update behind. The benchmark drivers run `cloud-cp` and `gcs-utils` and read what
the cloud function has logged.

### What is hard about it

- Every operation on an object is two to four remote calls; the calls of the daemon,
  of the cloud function and of the users interleave between any two of them, guarded at some
  writes by a generation, at others by nothing.
- The header and the payload of one object are written by different processes, one after
  the other, with a message in between that may be delayed, repeated or reordered.
- A message is acknowledged before it is handled; every `mu.Fatalf`, panic and library
  exit is a crash, and four file operations lie between the two key files' old and new contents.
- The goroutines of one round share a channel that each of them closes, and an error
  variable that each of them assigns; from the second file on, the main loop does not wait for them.
- A start with `setup_required` on writes twenty files and a message, over those of an earlier start, and
  the subscription still holds the earlier group's updates.
- The drivers' goroutines make files of the same names, and the log they read has entries of earlier sizes and runs.
- Both parties of the ratchet have one chain for both directions, and choose between the
  user's line and the peer's PDU as the scheduler likes.

### What makes it correct

| Component | Must always hold | Must happen |
|---|---|---|
| object under akeso | header and payload fit each other when nothing is outstanding; uploads are kept; the key moves forward; `max_reencryptions` is a bound | each key update reaches each object |
| object under another strategy | uploads and readers are not disturbed, where the writes are conditional | |
| daemon | nothing is encrypted under a key that was not saved; the files stay usable; no update is applied twice | each published update is applied |
| group setup | what is announced was saved, and can be verified and joined; a rotation stays within one group and on one branch of its keys | |
| fan-out | the first file is updated alone; no panic before two updates have returned | the round ends |
| benchmark drivers | what is uploaded is whole; a time is of the size it is given for | a run ends |
| conversation | no message key encrypts twice; parties stay in step; what is lost is noticed | each line is printed |

## 2. The models

    KeyRotation        what every round promises to the users of a bucket
     |-- AkesodDaemon       the process, its files and its messages; a rotation is one step
     |-- AkesoObject        the akeso strategy taken apart, with the cloud function
     `-- ObjectStrategies   the other four strategies taken apart
    GroupSetup         starts that set a group up, and members of several groups
    BucketFanout       the goroutines of one round, seen from inside the process
    Benchmark          the two drivers, over the buckets and the function's log
    DoubleRatchet      drat-bench's conversation

`AkesodDaemon`, `AkesoObject` and `ObjectStrategies` each implement `KeyRotation` (by a refinement
mapping at the end of the module). They meet there: what is one step, `RotateObject`, in
the daemon is what the other two split into remote calls. `AkesodDaemon` and `BucketFanout` meet in a round: the worker, the wait for the first
file, the slots and the doom of the second close are each one step or one variable in the daemon, and taken apart in the other.
`GroupSetup` has the daemon's loop again, with keys that belong to a group instead of epochs.

Definitions that begin with "Variant" in their comment are not part of a model. They are
plausible mistakes in the definition they precede, kept to show that a property notices them.

### KeyRotation

The abstract specification: the group's `epoch`, and for each object the `key` it is under, its
`content` and whether it is `moving`. `NextKey` waits for every move to finish; `Rotate` takes
an object forward to the current key, or, where rounds may overlap (`Overlap`), to any key up to it; `Finish` ends its move; only `Upload` changes
contents or takes a key back. Contents are numbered in the order of their uploads, so that a
rotation that brings an older one back is no step of it.

### AkesoObject

One action per remote call. The daemon's loop is `StartRound`, `RemoveNotification`,
`AddNotification`, `StartCall`, `EndRound`; `AkesoUpdate` is the chain `UpdateAttrs`, then
`UpdateMetadata`, or `DownloadAttrs`, `DownloadPayload`, `PutReencrypted`, kept as a record with
a program counter in `calls` so that several run at once. `FunctionReads` and
`FunctionWrites` are the cloud function. A failing call ends the process (`Fail`), as
`mu.Fatalf` does.

Keys are epochs and DEKs are numbers. A payload is the DEK of its innermost encryption, a
content and the *set* of keystreams that were XORed onto it: a second XOR with the same
keystream removes it, as it does in counter mode, and the keystream is named by DEK, base IV and
offset, so that the two places that compute the IV (`encrypt-object.go:88` and the
download's loop) have to agree.

`Allowed` is the set of adverse conditions that may occur. Under `SafeConditions` (crashes,
failing notification calls and failing re-encryption writes, downloads) messages are delivered once, a round
waits for the messages of the last, and users do not upload an object while its message is outstanding; these are
assumptions about the deployment and nothing in the code enforces them. Without them the code gives
weaker guarantees, which the run `akeso_adverse` checks. An operator may run `cloud-cp -updateKey` at any time. Under `manual` she does so only while
neither the round nor another call is at work on the object (`AtWork`), also an assumption; `manual_race` lifts it, and with it goes `AkesoUpdateNeverRollsBack` (section 5);
what the generations still guarantee then is proved (`DownloadsWhole`, `ContentKept`) and has no run.

### AkesodDaemon

`pc` follows the process from `PublishSetup` and `Subscribe` through the main loop. `tree` and
`stage` are the epochs of `keys/state.json` and `keys/stage-key.pem`, or `NoFile`. `pending` is what
Pub/Sub has not had acknowledged, `handed` the callbacks that have acknowledged and wait to
send to `msgChan`. `ProcessUpdate` is guarded by `Applies`: both files are there and the MAC
verifies, which it does for the tree's successor only; any other message but `update_key`
ends the process (`RejectUpdate`). The four file operations are four actions, with a crash
possible between any two.

A round starts `workers`, up to `Slots` at once, each with the round's two keys. It waits for the first alone (`StartFirst`,
`FirstEnds`); the others run on while the loop takes the next message and starts the next round. A worker whose object is not under its old key fails:
it ends the process, or finds the success of another worker in the `err` they share (`FailsUnnoticed`). The last worker of a round
to end, if it is not the round's first, dooms the process (`doomed`): the second close of `errChan`, which `BucketFanout` takes apart, is `Panic`.
So no round over more than one object leaves the process alive, and with three objects the panic may come before the third is rotated.

### GroupSetup

Starts with `setup_required` on or off, in any order. `Generate` writes the key files one by one in the form of `outform`;
`SetupGroup`, `SaveMsg`, `SaveGroupTree`, `SaveGroupKey`, `Sign` and `PublishSetup` follow `setup_group` and `main`, with an exit possible between any two. A file
is the number of the start that wrote it, so that what is left of an earlier start can be told apart; the tree is built on, and the message signed with,
PEM files whatever the form is. A key of a group is the path of member updates that led to it: two members that update from
the same key make two branches, and the daemon's tree is on one of them (`Applies`). Members join late, follow updates or miss them, and upload under the key they have.

### BucketFanout

One round: the main goroutine (`Add`, `Acquire`, `Spawn`, `RangeReceives`, `RangeEnds`), a
worker per file (`Update`, `Test`, `Send`, `Fatal`, `Release`, `Done`) and a closer per file (`Wait`, `Woken`,
`Close`). `err` is one variable, as in the code: the worker that tests it may see another
worker's value, and every assignment and test is a step of its own. The race is modelled at the level of whole
assignments; a torn interface value is not.

### ObjectStrategies

The four strategies in one module, since they share the daemon's loop and the users;
`strategy` is chosen at the start and constant. Each update is split at every remote
call (`StrawmanAttrs` .. `StrawmanPut`, `KeyWrapAttrs`, `KeyWrapMetadata`, `CsekAttrs`,
`CsekRewrite`, `CmekOpen`, `CmekAttrs`, `CmekPut`). A tag names what an encryption from scratch draws at random,
so that metadata fits a payload just when both carry the same tag. A remote call that fails
ends its process, which `Crash` covers, csek's ten-second timeout included. Under cmek the daemon
passes AES keys where names of KMS keys are expected, so that only an operator's `cloud-cp` rotates.

### DoubleRatchet

One connection of alice and bob. A key pair is a number, a Diffie-Hellman result the pair of both
parties' numbers, a root key the sequence of results it was derived from. `SendLine`,
`HandlePDU` and `ReceivePDU` are the goroutines; what the main loop's `select` picks is
nondeterministic. `ReceivePDU` makes a new decoder for each PDU, which may have read ahead into
the following ones, and loses them; the `Rest` is what remains of a PDU that was read in part. `after` in a PDU and
`disturbed` are history variables: they are read by properties only.

### Benchmark

Both drivers in one module, since they differ in names and one filter; `driver` says which. A run with `prepare` makes buckets and files and sets notifications
(`Prepare`, `Stat`, `CreateFile`, `WriteFile`, `SetNotifications`): a goroutine per file and size, also where the "bucket" driver's files of all sizes
have the same names. A run without uploads, updates and polls (`CopyFile`, `UpdateObject`, `Query`). `FunctionRuns` is the cloud function, as late as it likes, whose log is
one set for all sizes; a query returns any part of it. A run may be interrupted anywhere, and the next finds its files, buckets and log. A file or object is absent, there in part, or whole.

## 3. The runs

| Run | Instance | Distinct states | Question |
|---|---|---|---|
| `akeso_faults` | 2 objects, 4 updates, 2 uploads, `max_reencryptions` 4 | 242,000 | Do crashes and failing calls leave settled objects readable, with the uploaded content, and do all steps refine `KeyRotation`? |
| `akeso_adverse` | 1 object, 2 updates, 2 commands, limit 3, every condition but `manual_race` | 5,190,000 | What do the generation conditions of `AkesoUpdate` and `AkesoDownload` guarantee by themselves? |
| `akeso_progress` | 1 object, 6 updates, no fault | 1,400 | Does each update take effect? |
| `daemon_everything` | 2 objects, 3 updates, 2 slots, every condition | 818,000 | Do files and objects stay consistent wherever the process is killed and whatever arrives, rounds that overlap included? |
| `daemon_progress` | 2 objects, 6 updates, 1 slot, no fault | 562 | Is each published update applied, and each round complete when the loop waits? |
| `group_setup` | 2 objects, 2 members, 2 setups, 2 updates, both forms | 2,353,000 | Can announcements be joined and served, and do rotations stay on one branch of one group? |
| `fanout` | 5 files, 2 slots | 187,000 | First file alone, no panic before two results, the round ends, and the process with it |
| `benchmark` | 2 sizes of 2 files, 3 retries, 2 runs, both drivers | 897,000 | Whole uploads, times of their own size, runs that end |
| `strategies_races` | 1 object, 4 strategies, 3 updates, 2 commands, every condition | 652,000 | What do the conditional writes of each strategy guarantee? |
| `strategies_rounds` | 2 objects, 4 strategies, 3 updates, 2 uploads, crashes | 897,000 | Do paced rounds refine `KeyRotation` under each strategy? |
| `drat` | 4 lines of each party, every condition | 70,000 | Keys fresh, parties in step, losses noticed, lines printed |
| `daemon_panic` | 3 objects, 1 update, no fault | | ends in a counterexample: see section 5 |

The bounds, and why they are enough:

- `MaxReencryptions = 4` with `MaxEpoch = 4` takes an object through two header updates, the
  re-encryption at the limit and a header update after it; `akeso_progress` with six updates
  passes two re-encryptions. `akeso_adverse` has limit 3, where both branches occur within two updates, because
  it lets rounds overlap. `manual_race` is left out of it, since `AkesoUpdateNeverRollsBack` is false then; the theorems about its other
  properties, `TypeCorrect`, `DownloadsWhole` and `ContentKept`, allow it.
- Two objects are enough to see a round half done; the objects do not read one another. One object in
  `akeso_adverse` and `strategies_races` still has two rounds' calls, an operator's call, a download and
  two uploads racing for it.
- `MaxCommands = 2` allows one upload to invalidate what a call has read and another to come before the call's next step.
- `MaxUpdates = 3` allows a redelivered first update to arrive after the second and before the third.
- `daemon_progress` has two objects and one slot, so that the panic after the second comes with nothing left to do, and its restart is part of each round;
  `daemon_everything` has two slots, so that both workers run next to the loop.
- Two groups, two members and two updates are the least for objects of an old group, for its late updates, and for two branches from one key. `group_setup`
  treats the objects as interchangeable (`SYMMETRY`), which they are in every definition; none of its properties is a liveness property.
- Two runs of a driver are a preparation and a measurement, two preparations over the same files, or two measurements over the same log; two sizes and two files make names coincide,
  and three retries let new entries come between fruitless queries.
- Five files and two slots leave the loop at the limit, with files still to come, both before and after a close.
- Four lines each allow every change of direction to happen twice, and a read-ahead of several PDUs.

`MaxEpoch`, `MaxCommands`, `MaxUpdates`, `MaxGroups`, `MaxRuns` and `MaxLines` stand in guards and bound what the environment does;
they cut no step of the code. Deadlock is not checked in any run, because each model ends where its environment has used
its bound up (and `BucketFanout` where the round or its process ends).

Fairness:

- `AkesoObject`: weak fairness of the main loop after a round has begun, of the calls, and of delivery and
  the function. They are goroutines that can run and messages that Pub/Sub retains; starting a round is
  not fair, nor is any user.
- `AkesodDaemon`: weak fairness of the start, the loop, the rounds, their workers and the panic, all goroutines that can run; of a restart after an exit and, for every update
  on its own, of its delivery, which Pub/Sub retains. The members need not publish.
- `BucketFanout`: weak fairness of every goroutine, which Go's scheduler gives those that can run.
- `Benchmark`: weak fairness of the driver's own steps, one sequential process and its goroutines. The cloud function and the log owe nothing, and need not be asked twice.
- `DoubleRatchet`: weak fairness of the receiving goroutines and of the main loop taking a PDU; nobody has to type.

`EverythingPrinted`, `TurnsKeepInSync` are about users that take turns, which `disturbed` says: the rest of the run has them
interrupt each other.

## 4. The proofs

Everything below holds for every number of objects, updates, uploads and re-encryptions: the bounds
are constants of which nothing but their type is assumed.

**`AkesoObjectProofs`.** `TypeCorrect` holds for every set of adverse conditions. The others assume
`Allowed \subseteq SafeConditions`. None of the properties is inductive by itself: whether the next write
of the cloud function makes an object readable depends on what its message carries, on `new_dek`, and on which
DEK the header last got. `IInv` adds who may be at an object at one time, a call, a message or a function, and
never two of them (`AtMostOneAtWork`); that nothing is in flight while the notification is replaced, and that afterwards it carries
the DEK of the round (`RoundPhases`); that what a call has read is the object's as long as the generation is the one
it read, and that its DEK is the notification's (`CallsUpToDate`); that while a message or function is outstanding, its metadata is the header as it stands,
a function's copy of the payload is still the payload, and the one layer it will add is just the one the
payload lacks (`PendingLayer`), that an object is otherwise not behind its header (`SettledLayers`), and that
what is stored is what was uploaded last (`Stored`). From it follow `Readable`, `Kept`,
`Bounded`, `Ongoing`, `NoRollBack` and the `Refinement` of `KeyRotation`, for which
every action is shown to be a step of it or a stutter.

Two theorems of the module assume nothing of the environment, `DownloadsWhole` and `ContentKept`, and a third, `UpdatesGoForward`, only `"manual_race" \notin Allowed`. Under redelivery, overlap and racing uploads nearly all of `IInv` fails, and what is left is
what a generation fixes: `ReadInv` says that a call or a download whose generation is still the object's has read the payload the object still has
(`CallReads`, `ReaderReads`). For keys that is not enough, because a header write keeps the generation; `SpanInv` adds that the key read is still the object's (`KeyReads`), because the calls for one object, the daemon's of several rounds and
an operator's, rotate over disjoint spans of keys (`KeySpans`), so that two of them never have the same `old_key`. That is where the assumption is needed.

Two are of a bucket of one object (`OneObject`) and assume that nothing fails and that users only download (`Allowed \subseteq {"download"}`, `MaxCommands = 0`), which the property they prove is about: `RoundsRotateAll`, and with it `RoundsTakeEffect`, that after a round whose
message is handled the daemon's key decrypts the object. Over several objects every round ends in the panic of the second close, which is a crash in this module, so that a theorem without crashes would say nothing of the program there;
`NothingLeftOfTwo`, below, is about two objects and has the panic. `RotationInv` says whether the round still has to take the object to the new key (`AtWork`), and that what a call has read is still the object's,
so that no call fails (`NothingFails`); without the assumption it is false, since a call that fails leaves its object behind.

**`AkesodDaemonProofs`.** No assumption on the environment, but for `NothingLeft` and `NothingLeftOfTwo`. `Inv` is the type invariant,
`OneFileRemains`, `SavedBeforeUsed`, what the files and the two keys in memory are at each point of the sequence
of file operations (`FilesInv`), that every worker, of whatever round, has keys that were saved (`WorkersInv`), and that no message is from the future (`MessagesInv`); it is what a crash at any of these points leaves behind.
It gives `OneFile`, `Saved`, `LeadForward` and, with what holds while members publish one update at a time (`PacedInv`), the `Refinement`, where the group's key is the stage key, or while that is
removed the one before the tree's. `NothingLeft` is of one object and no crash, for which the loop does wait for its worker, and adds where the object is during a round (`RoundInv`).
`NothingLeftOfTwo` is of at most two objects, and of the members and Pub/Sub of run `daemon_progress` (`Orderly`: no crash, one update at a time, nothing twice, no message of another form). The second object's worker
runs while the loop is back at its channel, and whatever ends the process then leaves the object behind. `PairInv` says why nothing does: a key update waits only while no worker runs (`LastUpdateInv`),
one worker runs at a time and the panic finds none (`OneWorkerInv`), and each object is under the key its place in the round asks for (`ObjectsInv`). With three objects it is false, which run `daemon_panic` shows.

**`GroupSetupProofs`.** `TypeCorrect`, `JoinedAfterSaved`, `CanJoin` and `StayOnBranch`, for any number of members, setups and updates. The invariant has
that announcements come in the order of the groups (`GroupsInv`); that members' keys and messages are of announced groups (`KnownInv`); what each of the saves leaves (`FilesInv`, `PemInv`); that no file goes back to a group
before the last announced (`SavedInv`); and that the stage key, the tree and the keys of every round are on one branch, unless the tree is of a group nobody has heard of (`BranchInv`): that is the exit between saving the tree and announcing it,
after which no update verifies.

**`BucketFanoutProofs`.** `TypeCorrect`, `FirstAlone` and `TwoUpdates` for any number of files and slots. `Inv` counts the workers that the WaitGroup, the semaphore and `errChan` stand for (`CountInv`), and says that a closer
that has gone on is that of a worker that has ended (`EndedInv`), because at zero none runs. `NoSlotNoUpdate`: with a limit of 0, no file is ever updated. `NeverStuck`: with a limit of one or more,
some goroutine can go on as long as the process runs and the round is not over, and where several files are done, the closer whose close will panic is still to run. `CloserInv` has that whoever is in `Wait` is
there while the counter is above zero, and that one closer at most has survived its close.

**`BenchmarkProofs`.** `TypeCorrect`, `Whole` and `Own`. A file that is there in part has a goroutine that is still to write it (`MakingInv`), so that none is left when all have ended.

**`ObjectStrategiesProofs`.** `TypeCorrect`, `Survive`, `Undisturbed` and `GuardsKey`, under every adverse condition. `Inv` says that
a generation fixes what was read: under keywrap, a call or a download that holds the object's present generation also
holds its tag, and under cmek a call knows its key (`KnowsGeneration`, `ReaderKnows`); and that uploads are numbered in order (`Numbered`), so that
two of them can be told apart. The `Refinement` of `KeyRotation` is for `Allowed \subseteq {"crash"}`: `RoundInv` says that each call is the only one for its object and of this
round (`SoleCall`), so that what it is about to write follows from what the object still is (`ReadStillHolds`), though strawman's write is conditional on nothing. Every step of a call then
goes on without touching an object (`GoesOn`), which is a stutter, or takes the object from the last key to the current one (`TakesOver`), which is `Rotate`. The daemon's calls under cmek never get as far as a write.

**`DoubleRatchetProofs`.** `TypeCorrect`, `KeysFresh`, `Gaps` and `Crossing` hold for any number of lines and every set of conditions. The invariant is about roots and their order. Roots grow by one Diffie-Hellman
result at every change of direction, so that alice's have odd and bob's even length (`Own`), and a party has the peer's root just as long as it owes a key pair of its own (`PartyInv`). Message keys are ordered by the length of their root and
their number (`Before`), and a party's chain key moves up in this order with everything it sends or prints (`SentInv`, `PrintedInv`): that makes keys fresh, of one party by the order and of both by parity. The order also gives `Crossing`: a line
under a longer root was sent after all that was printed under shorter ones. `Gaps` is part of the invariant, because a PDU decrypts only if its number follows that of the last one printed under its root (`LastInv`).
`InSync` adds, for users that take turns, that one party leads: what is on its way is all its own, under consecutive keys from the one the other will use next, or will derive when it sees the new public key (`Leads`, `Sync`).

Only model-checked: all liveness properties (`EveryUpdateTakesEffect`, `EveryUpdateApplied`, `RoundEnds`, `SeveralFilesEndTheProcess`, `RunsEnd`,
`EverythingPrinted`), which rest on fairness and are beyond the prover. Every invariant, action property and refinement that a passing run checks is also a theorem, for the environment of that run or a wider one, and of some liveness properties the
part a state can say is one: `RoundsTakeEffect`, `NeverStuck`, `NothingLeftOfTwo`, `InSync`. No theorem needs induction over data: the ratchet's sequences are reasoned about by their indices.

## 5. Where the code does something else

`daemon_panic` ends in a counterexample and is kept for it. Each file of a round starts a goroutine that closes the round's one `errChan` (`pubsub.go:220`), and
the second close is a panic. With three objects, one key update and no fault it comes, in the run, before the third object is
rotated; the tree and the stage key are saved by then, so that the next start knows nothing of the object left behind, and no later round's `old_key` opens it.
That the panic comes in every round over several files, however it is scheduled, is `SeveralFilesEndTheProcess` of `fanout`.

The models also show the following, without a run of its own: the error of the re-encryption's write is dropped (`akeso.go:239`), and the object stays under the old key with no error reported; a message is
acknowledged before the main loop has it (`pubsub.go:104`), so that a process that exits in between never sees the update again, and no later one verifies against its tree; a restart with `setup_required` still on, as in a second `./akesod` without
editing the configuration, makes a new group, and the objects of the old one stay under keys the daemon no longer has (`main.go:34`); with `outform` der the members' keys are written where neither the tree nor the signature
looks for them, which takes those of an earlier start or ends the process (`art.go:190`); of two members that update from the same key one loses, and what is uploaded under its key stays there; the bucket-size driver looks for `[UPD]`
in the log (`evaluations-bktSizeVsLatency/evaluations.go:432`), which the function, that says `[ENC]`, never writes, so that its result for akeso is always missing; a cloud function that is late overwrites what the
next round or an upload has written (`encrypt-object.go:82`), and one that is started twice for a message takes its layer off
again (`:89`); `cloud-cp` without `-dekOverride` draws a DEK for the header that no notification carries (`akeso.go:138`); a
notification call that fails ends the handler while the process and its receiver stay, acknowledging messages
nobody handles (`pubsub.go:162`); any message that is neither `update_key` nor a valid update ends the process (`pubsub.go:129`);
the loop reports the round done while the last workers run (`pubsub.go:231`), once it has survived the first close; a
worker's error can be overwritten by another's success (`pubsub.go:212`); strawman and cmek replace uploads
that race with them, and keywrap's conditional write can take the wrapping key back, because metadata writes leave the generation as
it is; akeso's header write can do the same (`akeso.go:153` and `:199`) when an operator rotates an object while the daemon does: both read one header and one generation, the daemon's write and the next round's
leave that generation as it is, and the operator's late write puts the earlier key, and a list of DEKs without the later ones, back; messages that `drat-bench` sends at the end of a turn can be lost unnoticed. They are why the properties
under every condition are worded as they are.

## 6. What is not modelled

- The walk of `RemoveNotification` over the bucket's notifications: `AkesoObject` has the one that matters.
- Objects that appear or disappear: the bucket's names are fixed, and only their contents change.
- Cryptography. Authenticated encryption and the ART's MAC are taken for what they promise; that DEKs, IVs and
  tags drawn at random are all different is built into their numbering.
- bob's further connections, which reuse his key pair and his input; `drat-bench`'s key manager, which is a sequential
  benchmark; `aesx`, `aesgcm`, option parsing and the shell scripts, which keep no state.
- Of the benchmark drivers: the strategies that do not use the cloud function, whose times are added up as `cloud-cp` prints them; the parsing of times and the `.dat` file; soft deletion.
- `max_concurrent_updates` of 0 has no run, for every such state space is a handful of states before the process hangs; `NoSlotNoUpdate` is proved.

## 7. Plan

Done: `AkesoObject`, `AkesodDaemon`, `GroupSetup`, `BucketFanout`, `ObjectStrategies`, `Benchmark` and `DoubleRatchet`, and the proofs of section 4. Next, in this order:

1. Safety parts of the remaining liveness properties, as `NeverStuck` is of `RoundEnds`: that a driver of `Benchmark` or a turn of `DoubleRatchet` can always go on.
2. The conditions of the theorems about `AkesoObject` one by one: which of them survive `function_fault` or `manual` alone.
3. `DoubleRatchet`: bob's further connections.
