------------------------- MODULE GroupSetupProofs -------------------------
(***************************************************************************)
(* Proofs about GroupSetup, for every number of members, objects, starts   *)
(* and updates, and wherever the daemon is killed.                         *)
(***************************************************************************)
EXTENDS GroupSetup, TLAPS

SettingUp == pc \in {"generate", "save_msg", "save_group_tree", "save_group_key", "sign",
                     "publish"}
Applying == pc \in {"remove_tree", "save_tree", "remove_stage", "save_stage", "start"}

\* Groups are announced in order, each at the end of its own setup.
GroupsInv == /\ SettingUp => 0 < group
             /\ \A s \in setups : /\ 0 < s.group
                                  /\ s.group <= group
                                  /\ SettingUp => s.group < group

Announced(k) == \E s \in setups : s.group = k.group

\* Members have keys of announced groups only, and so have their updates.
KnownInv == /\ \A m \in Member : member[m] = NoKey \/ Announced(member[m])
            /\ \A u \in sent : Announced(u.from)
            /\ pending \subseteq sent

\* What the files are at each point at which the process can be killed.
FilesInv == /\ pc = "save_group_key" => tree = GroupKey(group)
            /\ pc \in {"sign", "publish"} => tree = GroupKey(group) /\ stage = GroupKey(group)
            /\ pc \in {"remove_tree", "save_tree", "remove_stage"} => stage = old_key
            /\ pc \in {"remove_stage", "save_stage", "start"} => tree = new_key
            /\ pc = "save_tree" => tree = NoKey
            /\ pc = "save_stage" => stage = NoKey

\* No file is of a group before the last that was announced.
SavedInv == \A s \in setups : /\ tree # NoKey => s.group <= tree.group
                              /\ stage # NoKey => s.group <= stage.group
                              /\ Applying => s.group <= new_key.group

\* The stage key is on the tree's branch, unless the tree is of a group that was not
\* announced, of which there are no updates; and so are the keys of every round.
BranchInv ==
  /\ (tree # NoKey /\ stage # NoKey) => (stage = tree \/ Before(stage, tree) \/ ~Announced(tree))
  /\ Applying => Before(old_key, new_key)
  /\ \A j \in jobs : Before(j.old, j.new)

\* What a setup with PEM files has done at each point.
PemInv ==
  /\ (pc = "generate" /\ form = "pem") => \A n \in 1..written : keyfile["pem"][n] = group
  /\ (pc \in {"save_msg", "save_group_tree", "save_group_key", "sign", "publish"}
      /\ form = "pem") => /\ \A i \in Owner : built[i] = group
                          /\ keyfile["pem"][PrivIK(0)] = group
  /\ pc \in {"save_group_tree", "save_group_key", "sign", "publish"} => msgfile = group
  /\ (pc = "publish" /\ form = "pem") => signed = group

Inv == /\ TypeOK
       /\ GroupsInv
       /\ KnownInv
       /\ FilesInv
       /\ SavedInv
       /\ BranchInv
       /\ PemInv
       /\ MembersCanJoin

USE MembersAssumption, FormsAssumption, BoundsAssumption

\* The key files are there to be read, and a setup message is as it should be.
LEMMA KeyFiles ==
  /\ \A i \in Owner : PubEK(i) \in KeyFile
  /\ PrivIK(0) \in KeyFile
  /\ \A n \in 0..4 * (NMembers + 1) :
       n < 4 * (NMembers + 1) => n + 1 \in KeyFile /\ n + 1 \in 0..4 * (NMembers + 1)
BY DEF Owner, KeyFile, PubEK, PrivIK
-----------------------------------------------------------------------------
(***************************************************************************)
(* Keys and branches.                                                      *)
(***************************************************************************)

LEMMA AfterIsKey ==
  ASSUME NEW u \in UpdateMessage
  PROVE  After(u) \in Key /\ After(u).group = u.from.group
BY DEF UpdateMessage, After, Key

LEMMA AfterComesLater ==
  ASSUME NEW u \in UpdateMessage
  PROVE  Before(u.from, After(u))
BY DEF UpdateMessage, After, Key, Before

LEMMA BeforeAfter ==
  ASSUME NEW u \in UpdateMessage, NEW k \in Key, Before(k, u.from)
  PROVE  Before(k, After(u))
BY DEF UpdateMessage, After, Key, Before

LEMMA KeysExist ==
  /\ NoKey \in Key
  /\ \A g \in Nat : GroupKey(g) \in Key
BY DEF NoKey, GroupKey, Key

LEMMA InitInv == Init => Inv
<1> SUFFICES ASSUME Init PROVE Inv
  OBVIOUS
<1>1. TypeOK
  <2>1. /\ built \in [Owner -> Nat]
        /\ keyfile \in [{"pem", "der"} -> [KeyFile -> Nat]]
    BY DEF Init
  <2>2. 0 \in 0..4 * (NMembers + 1)
    OBVIOUS
  <2> QED
    BY <2>1, <2>2, KeysExist DEF Init, TypeOK, Steps
<1>2. GroupsInv /\ KnownInv /\ FilesInv /\ MembersCanJoin
  BY DEF Init, GroupsInv, KnownInv, FilesInv, SettingUp, MembersCanJoin
<1>3. SavedInv /\ BranchInv /\ PemInv
  BY DEF Init, SavedInv, BranchInv, PemInv, Applying
<1> QED
  BY <1>1, <1>2, <1>3 DEF Inv
-----------------------------------------------------------------------------
(***************************************************************************)
(* The type invariant.                                                     *)
(***************************************************************************)

LEMMA ExitType ==
  ASSUME TypeOK, Exit
  PROVE  TypeOK'
BY DEF TypeOK, Exit, Steps, setting, files, members

LEMMA SetupType ==
  ASSUME TypeOK, Setup
  PROVE  TypeOK'
<1> USE DEF setting, files, round, members, outside
<1>1. CASE Generate
  <2>1. written' \in 0..4 * (NMembers + 1) /\ written + 1 \in KeyFile
    BY <1>1, KeyFiles DEF Generate, TypeOK
  <2>2. keyfile' \in [{"pem", "der"} -> [KeyFile -> Nat]]
    BY <1>1, <2>1 DEF Generate, TypeOK
  <2> QED
    BY <1>1, <2>1, <2>2 DEF Generate, TypeOK
<1>2. CASE SetupGroup
  <2>1. [i \in Owner |-> keyfile["pem"][PubEK(i)]] \in [Owner -> Nat]
    BY KeyFiles DEF TypeOK
  <2> QED
    BY <1>2, <2>1, ExitType DEF SetupGroup, TypeOK, Steps
<1>3. CASE SaveMsg
  BY <1>3 DEF SaveMsg, TypeOK, Steps
<1>4. CASE SaveGroupTree
  BY <1>4, KeysExist DEF SaveGroupTree, TypeOK, Steps
<1>5. CASE SaveGroupKey
  BY <1>5, KeysExist DEF SaveGroupKey, TypeOK, Steps
<1>6. CASE Sign
  <2>1. keyfile["pem"][PrivIK(0)] \in Nat
    BY KeyFiles DEF TypeOK
  <2> QED
    BY <1>6, <2>1 DEF Sign, TypeOK, Steps
<1>7. CASE PublishSetup
  BY <1>7 DEF PublishSetup, TypeOK, Steps, SetupMessage
<1> QED
  BY <1>1, <1>2, <1>3, <1>4, <1>5, <1>6, <1>7 DEF Setup

LEMMA MembersType ==
  ASSUME TypeOK,
         \/ \E m \in Member : Join(m) \/ MemberUpdates(m) \/ Follow(m)
         \/ \E o \in Objects : Upload(o)
  PROVE  TypeOK'
<1> USE DEF daemon, setting, files, round, members
<1>1. ASSUME NEW m \in Member, Join(m) PROVE TypeOK'
  <2> PICK s \in setups : member' = [member EXCEPT ![m] = GroupKey(s.group)]
    BY <1>1 DEF Join
  <2>1. GroupKey(s.group) \in Key
    BY KeysExist DEF TypeOK, SetupMessage
  <2> QED
    BY <1>1, <2>1 DEF Join, TypeOK
<1>2. ASSUME NEW m \in Member, MemberUpdates(m) PROVE TypeOK'
  <2> DEFINE u == [from |-> member[m], by |-> m]
  <2>1. u \in UpdateMessage
    BY DEF TypeOK, UpdateMessage
  <2>2. After(u) \in Key
    BY <2>1, AfterIsKey
  <2> QED
    BY <1>2, <2>1, <2>2 DEF MemberUpdates, TypeOK
<1>3. ASSUME NEW m \in Member, Follow(m) PROVE TypeOK'
  BY <1>3, AfterIsKey DEF Follow, TypeOK
<1>4. ASSUME NEW o \in Objects, Upload(o) PROVE TypeOK'
  BY <1>4 DEF Upload, TypeOK
<1> QED
  BY <1>1, <1>2, <1>3, <1>4

LEMMA HandlerType ==
  ASSUME TypeOK, Apply \/ (\E u \in pending : Receive(u)) \/ (\E j \in jobs : Work(j))
  PROVE  TypeOK'
<1> USE DEF setting, files, round, members, outside
<1>1. CASE RemoveTree \/ SaveTree \/ RemoveStageKey \/ SaveStageKey
  BY <1>1, KeysExist DEF RemoveTree, SaveTree, RemoveStageKey, SaveStageKey, TypeOK, Steps
<1>2. CASE StartWorkers
  <2>1. jobs' \subseteq Job
    BY <1>2 DEF StartWorkers, TypeOK, Job
  <2> QED
    BY <1>2, <2>1 DEF StartWorkers, TypeOK, Steps
<1>3. ASSUME NEW u \in pending, Receive(u) PROVE TypeOK'
  BY <1>3, AfterIsKey DEF Receive, TypeOK, Steps
<1>4. ASSUME NEW j \in jobs, Work(j) PROVE TypeOK'
  BY <1>4, ExitType DEF Work, RotateObject, RotateFails, FailsUnnoticed, TypeOK, Job
<1> QED
  BY <1>1, <1>2, <1>3, <1>4 DEF Apply

LEMMA StepType ==
  ASSUME TypeOK, [Next]_vars
  PROVE  TypeOK'
<1>1. CASE StartWithSetup
  <2>1. written' \in 0..4 * (NMembers + 1)
    BY <1>1 DEF StartWithSetup
  <2> QED
    BY <1>1, <2>1 DEF StartWithSetup, TypeOK, Steps, files, round, members, outside
<1>2. CASE StartWithout \/ Subscribe
  BY <1>2 DEF StartWithout, Subscribe, TypeOK, Steps, setting, files, round, members, outside
<1>3. CASE Crash \/ (\E u \in pending : Reject(u))
  BY <1>3, ExitType DEF Crash, Reject
<1>4. CASE UNCHANGED vars
  BY <1>4 DEF vars, TypeOK
<1> QED
  BY <1>1, <1>2, <1>3, <1>4, SetupType, MembersType, HandlerType DEF Next
-----------------------------------------------------------------------------
(***************************************************************************)
(* The rest of the invariant, one part at a time.                          *)
(***************************************************************************)

\* What members and users do.
Outside == \/ \E m \in Member : Join(m) \/ MemberUpdates(m) \/ Follow(m)
           \/ \E o \in Objects : Upload(o)

Exits == \/ Crash
         \/ SetupGroup /\ pc' = "off"
         \/ \E u \in pending : Reject(u)
         \/ \E j \in jobs : RotateFails(j)

\* The worker's steps that do not end the process.
Works == \E j \in jobs : RotateObject(j) \/ FailsUnnoticed(j)

LEMMA ExitFrame ==
  ASSUME Exits
  PROVE  Exit
BY DEF Exits, Crash, SetupGroup, Reject, RotateFails, Exit

LEMMA OutsideFrame ==
  ASSUME Outside
  PROVE  UNCHANGED <<pc, group, form, written, built, signed, keyfile, msgfile, tree, stage,
                     old_key, new_key, jobs, subscribed, setups>>
BY DEF Outside, Join, MemberUpdates, Follow, Upload, daemon, setting, files, round, members

LEMMA WorksFrame ==
  ASSUME Works
  PROVE  UNCHANGED <<pc, group, form, written, built, signed, keyfile, msgfile, tree, stage,
                     old_key, new_key, subscribed, pending, setups, sent, member>>
         /\ jobs' \subseteq jobs
BY DEF Works, RotateObject, FailsUnnoticed, setting, files, members, outside

\* The steps of the process, sorted for the lemmas that follow.
LEMMA Cases ==
  ASSUME [Next]_vars
  PROVE  \/ StartWithSetup \/ StartWithout \/ Subscribe
         \/ Generate \/ (SetupGroup /\ pc' # "off") \/ SaveMsg \/ SaveGroupTree
         \/ SaveGroupKey \/ Sign \/ PublishSetup
         \/ (\E u \in pending : Receive(u))
         \/ RemoveTree \/ SaveTree \/ RemoveStageKey \/ SaveStageKey \/ StartWorkers
         \/ Works \/ Exits \/ Outside \/ UNCHANGED vars
BY DEF Next, Setup, Apply, Work, Works, Exits, Outside

LEMMA GroupsStep ==
  ASSUME TypeOK, GroupsInv, [Next]_vars
  PROVE  GroupsInv'
<1> USE DEF GroupsInv, SettingUp, setting, files, round, members, outside
<1>1. CASE StartWithSetup
  BY <1>1 DEF StartWithSetup, TypeOK, SetupMessage
<1>2. CASE Generate \/ (SetupGroup /\ pc' # "off") \/ SaveMsg \/ SaveGroupTree
           \/ SaveGroupKey \/ Sign
  BY <1>2 DEF Generate, SetupGroup, SaveMsg, SaveGroupTree, SaveGroupKey, Sign, Exit
<1>3. CASE PublishSetup
  BY <1>3 DEF PublishSetup, TypeOK
<1>4. CASE \/ StartWithout \/ Subscribe \/ (\E u \in pending : Receive(u)) \/ RemoveTree
           \/ SaveTree \/ RemoveStageKey \/ SaveStageKey \/ StartWorkers
  BY <1>4 DEF StartWithout, Subscribe, Receive, RemoveTree, SaveTree, RemoveStageKey,
    SaveStageKey, StartWorkers
<1>5. CASE Exits
  BY <1>5, ExitFrame DEF Exit
<1>6. CASE Outside \/ Works \/ UNCHANGED vars
  BY <1>6, OutsideFrame, WorksFrame DEF vars
<1> QED
  BY <1>1, <1>2, <1>3, <1>4, <1>5, <1>6, Cases

LEMMA KnownStep ==
  ASSUME TypeOK, KnownInv, [Next]_vars
  PROVE  KnownInv'
<1> USE DEF KnownInv, Announced, setting, files, round, members, outside
<1>1. CASE PublishSetup
  BY <1>1 DEF PublishSetup
<1>2. ASSUME NEW m \in Member, Join(m) PROVE KnownInv'
  BY <1>2 DEF Join, daemon, GroupKey, TypeOK
<1>3. ASSUME NEW m \in Member, MemberUpdates(m) PROVE KnownInv'
  <2> DEFINE u == [from |-> member[m], by |-> m]
  <2>1. Announced(u.from) /\ After(u).group = u.from.group
    BY <1>3 DEF MemberUpdates, After
  <2>2. setups' = setups /\ sent' = sent \cup {u} /\ pending' \subseteq pending \cup {u}
    BY <1>3 DEF MemberUpdates
  <2>3. member' = [member EXCEPT ![m] = After(u)]
    BY <1>3 DEF MemberUpdates
  <2> QED
    BY <2>1, <2>2, <2>3 DEF TypeOK
<1>4. ASSUME NEW m \in Member, Follow(m) PROVE KnownInv'
  <2> PICK u \in sent : u.from = member[m] /\ member' = [member EXCEPT ![m] = After(u)]
    BY <1>4 DEF Follow
  <2>1. After(u).group = u.from.group
    BY DEF After
  <2> QED
    BY <1>4, <2>1 DEF Follow, TypeOK
<1>5. CASE (\E o \in Objects : Upload(o)) \/ UNCHANGED vars
  BY <1>5 DEF Upload, vars
<1>6. CASE Exits
  BY <1>6, ExitFrame DEF Exit
<1>7. CASE \/ Works \/ (\E u \in pending : Receive(u))
  BY <1>7, WorksFrame DEF Receive
<1>8. CASE StartWithSetup \/ StartWithout \/ Subscribe \/ Generate
           \/ (SetupGroup /\ pc' # "off") \/ SaveMsg \/ SaveGroupTree
           \/ SaveGroupKey \/ Sign \/ RemoveTree \/ SaveTree
           \/ RemoveStageKey \/ SaveStageKey \/ StartWorkers
  <2>1. UNCHANGED <<setups, sent, pending, member>>
    BY <1>8 DEF StartWithSetup, StartWithout, Subscribe, Generate, SetupGroup, SaveMsg,
      SaveGroupTree, SaveGroupKey, Sign, RemoveTree, SaveTree, RemoveStageKey, SaveStageKey,
      StartWorkers, Exit
  <2> QED
    BY <2>1
<1> QED
  BY <1>1, <1>2, <1>3, <1>4, <1>5, <1>6, <1>7, <1>8, Cases DEF Outside

LEMMA FilesStep ==
  ASSUME TypeOK, FilesInv, [Next]_vars
  PROVE  FilesInv'
<1> USE DEF FilesInv, setting, files, round, members, outside
<1>1. CASE StartWithSetup \/ StartWithout \/ Subscribe \/ PublishSetup
  BY <1>1 DEF StartWithSetup, StartWithout, Subscribe, PublishSetup
<1>2. CASE Generate \/ (SetupGroup /\ pc' # "off") \/ SaveMsg
  BY <1>2 DEF Generate, SetupGroup, SaveMsg, Exit
<1>3. CASE SaveGroupTree \/ SaveGroupKey \/ Sign
  BY <1>3 DEF SaveGroupTree, SaveGroupKey, Sign
<1>4. CASE (\E u \in pending : Receive(u)) \/ RemoveTree \/ SaveTree
  BY <1>4 DEF Receive, RemoveTree, SaveTree
<1>5. CASE RemoveStageKey \/ SaveStageKey \/ StartWorkers
  BY <1>5 DEF RemoveStageKey, SaveStageKey, StartWorkers
<1>6. CASE Exits
  BY <1>6, ExitFrame DEF Exit
<1>7. CASE Outside \/ Works \/ UNCHANGED vars
  BY <1>7, OutsideFrame, WorksFrame DEF vars
<1> QED
  BY <1>1, <1>2, <1>3, <1>4, <1>5, <1>6, <1>7, Cases

\* An update that is applied is one of an announced group, and of the tree's.
LEMMA ReceiveFacts ==
  ASSUME TypeOK, GroupsInv, KnownInv, NEW u \in pending, Receive(u)
  PROVE  /\ u \in UpdateMessage
         /\ u.from = tree
         /\ tree # NoKey
         /\ stage # NoKey
         /\ Announced(tree)
         /\ old_key' = stage
         /\ new_key' = After(u)
         /\ new_key'.group = tree.group
<1>1. u \in UpdateMessage /\ u.from = tree /\ stage # NoKey /\ Announced(tree)
  BY DEF Receive, Applies, KnownInv, TypeOK, Announced
<1>2. tree # NoKey
  BY <1>1 DEF Announced, GroupsInv, NoKey
<1> QED
  BY <1>1, <1>2, AfterIsKey DEF Receive

LEMMA SavedStep ==
  ASSUME TypeOK, GroupsInv, KnownInv, FilesInv, SavedInv, [Next]_vars
  PROVE  SavedInv'
<1> USE DEF SavedInv, Applying, setting, files, round, members, outside
<1>1. CASE StartWithSetup \/ StartWithout \/ Subscribe \/ Generate
           \/ (SetupGroup /\ pc' # "off") \/ SaveMsg \/ Sign
  BY <1>1 DEF StartWithSetup, StartWithout, Subscribe, Generate, SetupGroup, SaveMsg, Sign, Exit
<1>2. CASE SaveGroupTree \/ SaveGroupKey
  BY <1>2 DEF SaveGroupTree, SaveGroupKey, GroupKey, GroupsInv
<1>3. CASE PublishSetup
  BY <1>3 DEF PublishSetup, FilesInv, GroupKey, TypeOK
<1>4. ASSUME NEW u \in pending, Receive(u) PROVE SavedInv'
  BY <1>4, ReceiveFacts DEF Receive
<1>5. CASE RemoveTree \/ SaveTree
  BY <1>5 DEF RemoveTree, SaveTree
<1>6. CASE RemoveStageKey \/ SaveStageKey \/ StartWorkers
  BY <1>6 DEF RemoveStageKey, SaveStageKey, StartWorkers
<1>7. CASE Exits
  BY <1>7, ExitFrame DEF Exit
<1>8. CASE Outside \/ Works \/ UNCHANGED vars
  BY <1>8, OutsideFrame, WorksFrame DEF vars
<1> QED
  BY <1>1, <1>2, <1>3, <1>4, <1>5, <1>6, <1>7, <1>8, Cases

LEMMA BranchStep ==
  ASSUME TypeOK, GroupsInv, KnownInv, FilesInv, BranchInv, [Next]_vars
  PROVE  BranchInv'
<1> USE DEF BranchInv, Applying, setting, files, round, members, outside
<1>1. CASE StartWithSetup \/ StartWithout \/ Subscribe \/ Generate
           \/ (SetupGroup /\ pc' # "off") \/ SaveMsg \/ Sign
  BY <1>1 DEF StartWithSetup, StartWithout, Subscribe, Generate, SetupGroup, SaveMsg, Sign,
    Exit, Announced
<1>2. CASE SaveGroupTree
  <2>1. ~Announced(tree)'
    BY <1>2 DEF SaveGroupTree, Announced, GroupKey, GroupsInv, SettingUp, TypeOK, SetupMessage
  <2> QED
    BY <1>2, <2>1 DEF SaveGroupTree
<1>3. CASE SaveGroupKey
  BY <1>3 DEF SaveGroupKey, FilesInv
<1>4. CASE PublishSetup
  BY <1>4 DEF PublishSetup, FilesInv
<1>5. ASSUME NEW u \in pending, Receive(u) PROVE BranchInv'
  <2>1. Before(old_key', new_key')
    BY <1>5, ReceiveFacts, AfterComesLater, BeforeAfter DEF TypeOK
  <2> QED
    BY <1>5, <2>1 DEF Receive, Announced
<1>6. CASE RemoveTree \/ SaveTree
  BY <1>6 DEF RemoveTree, SaveTree, FilesInv
<1>7. CASE RemoveStageKey \/ SaveStageKey
  BY <1>7 DEF RemoveStageKey, SaveStageKey, FilesInv
<1>8. CASE StartWorkers
  BY <1>8 DEF StartWorkers, Announced
<1>9. CASE Exits
  BY <1>9, ExitFrame DEF Exit, Announced
<1>10. CASE Outside \/ Works \/ UNCHANGED vars
  BY <1>10, OutsideFrame, WorksFrame DEF vars, Announced
<1> QED
  BY <1>1, <1>2, <1>3, <1>4, <1>5, <1>6, <1>7, <1>8, <1>9, <1>10, Cases

LEMMA PemStep ==
  ASSUME TypeOK, PemInv, [Next]_vars
  PROVE  PemInv'
<1> USE DEF PemInv, setting, files, round, members, outside
<1>1. CASE StartWithSetup
  BY <1>1 DEF StartWithSetup
<1>2. CASE Generate
  <2>1. written \in Nat /\ written + 1 \in KeyFile
    BY <1>2, KeyFiles DEF Generate, TypeOK
  <2> QED
    BY <1>2, <2>1 DEF Generate, TypeOK, KeyFile
<1>3. CASE SetupGroup /\ pc' # "off"
  <2>1. form = "pem" => \A n \in KeyFile : keyfile["pem"][n] = group
    BY <1>3 DEF SetupGroup, Exit, KeyFile
  <2> QED
    BY <1>3, <2>1, KeyFiles DEF SetupGroup, Exit
<1>4. CASE SaveMsg \/ SaveGroupTree \/ SaveGroupKey \/ Sign
  BY <1>4 DEF SaveMsg, SaveGroupTree, SaveGroupKey, Sign
<1>5. CASE \/ StartWithout \/ Subscribe \/ PublishSetup
           \/ (\E u \in pending : Receive(u)) \/ RemoveTree
           \/ SaveTree \/ RemoveStageKey \/ SaveStageKey \/ StartWorkers
  BY <1>5 DEF StartWithout, Subscribe, PublishSetup, Receive, RemoveTree, SaveTree,
    RemoveStageKey, SaveStageKey, StartWorkers
<1>6. CASE Exits
  BY <1>6, ExitFrame DEF Exit
<1>7. CASE Outside \/ Works \/ UNCHANGED vars
  BY <1>7, OutsideFrame, WorksFrame DEF vars
<1> QED
  BY <1>1, <1>2, <1>3, <1>4, <1>5, <1>6, <1>7, Cases

LEMMA CanJoinStep ==
  ASSUME TypeOK, PemInv, MembersCanJoin, [Next]_vars
  PROVE  MembersCanJoin'
<1> USE DEF MembersCanJoin, Joinable, setting, files, round, members, outside
<1>1. CASE PublishSetup
  BY <1>1 DEF PublishSetup, PemInv, Member, Owner
<1>2. CASE Outside \/ Works \/ UNCHANGED vars
  BY <1>2, OutsideFrame, WorksFrame DEF vars
<1>3. CASE Exits
  BY <1>3, ExitFrame DEF Exit
<1>4. ASSUME ~PublishSetup, ~Outside, ~Works, ~Exits, ~UNCHANGED vars PROVE setups' = setups
  BY <1>4, Cases DEF StartWithSetup, StartWithout, Subscribe, Generate, SetupGroup, SaveMsg,
    SaveGroupTree, SaveGroupKey, Sign, Receive, RemoveTree, SaveTree, RemoveStageKey,
    SaveStageKey, StartWorkers, Exit
<1> QED
  BY <1>1, <1>2, <1>3, <1>4

LEMMA StepInv == Inv /\ [Next]_vars => Inv'
BY StepType, GroupsStep, KnownStep, FilesStep, SavedStep, BranchStep, PemStep, CanJoinStep
  DEF Inv

LEMMA SpecInv == Spec => []Inv
BY InitInv, StepInv, PTL DEF Spec
-----------------------------------------------------------------------------
(***************************************************************************)
(* The theorems.                                                           *)
(***************************************************************************)

\* The type invariant, whatever the operator, the members and the users do.
THEOREM TypeCorrect == Spec => []TypeOK
<1>1. Inv => TypeOK
  BY DEF Inv
<1> QED
  BY <1>1, SpecInv, PTL

\* Nobody has a group that a restarted daemon would know nothing of: the order of the two
\* saves and of the announcement.
THEOREM JoinedAfterSaved == Spec => []SavedBeforeJoined
<1>1. Inv => SavedBeforeJoined
  <2> SUFFICES ASSUME Inv, NEW m \in Member
               PROVE  /\ tree # NoKey => member[m].group <= tree.group
                      /\ stage # NoKey => member[m].group <= stage.group
    BY DEF SavedBeforeJoined
  <2>1. CASE member[m] = NoKey
    BY <2>1 DEF Inv, TypeOK, Key, NoKey
  <2>2. CASE Announced(member[m])
    BY <2>2 DEF Inv, SavedInv, Announced
  <2> QED
    BY <2>1, <2>2 DEF Inv, KnownInv
<1> QED
  BY <1>1, SpecInv, PTL

\* A start that sets the group up with PEM files announces what every member can join,
\* whatever earlier starts have left on the disk.
THEOREM CanJoin == Spec => []MembersCanJoin
<1>1. Inv => MembersCanJoin
  BY DEF Inv
<1> QED
  BY <1>1, SpecInv, PTL

\* No rotation takes an object out of its group, back, or to another member's branch.
THEOREM StayOnBranch == Spec => RotationsStayOnBranch
<1>1. ASSUME Inv, [Next]_vars
      PROVE  [\A o \in Objects : (key'[o] # key[o] /\ jobs' # jobs) => Before(key[o], key'[o])]_vars
  <2>1. ASSUME NEW j \in jobs, RotateObject(j), NEW o \in Objects, key'[o] # key[o]
        PROVE  Before(key[o], key'[o])
    BY <1>1, <2>1 DEF RotateObject, Inv, TypeOK, Job, BranchInv
  <2>2. ASSUME NEW o \in Objects, Upload(o) PROVE jobs' = jobs
    BY <2>2 DEF Upload, daemon, round
  <2>3. CASE Exits
    BY <2>3, ExitFrame DEF Exit
  <2>4. ASSUME ~Exits, \A j \in jobs : ~RotateObject(j), \A o \in Objects : ~Upload(o),
               ~UNCHANGED vars
        PROVE  key' = key
    BY <1>1, <2>4, Cases DEF StartWithSetup, StartWithout, Subscribe, Generate, SetupGroup,
      SaveMsg, SaveGroupTree, SaveGroupKey, Sign, PublishSetup, Receive, RemoveTree, SaveTree,
      RemoveStageKey, SaveStageKey, StartWorkers, Exit, Works, FailsUnnoticed, Outside, Join,
      MemberUpdates, Follow, outside
  <2> QED
    BY <2>1, <2>2, <2>3, <2>4
<1> QED
  BY <1>1, SpecInv, PTL DEF Spec, RotationsStayOnBranch
=============================================================================
