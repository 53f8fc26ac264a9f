---------------------------- MODULE GroupSetup ----------------------------
(***************************************************************************)
(* Setting the group up, and everything after a start that sets it up      *)
(* again: the key files the daemon generates for itself and the members,   *)
(* the setup message built on them, the order in which they are saved and  *)
(* announced, members that join late and update the group's key from the   *)
(* same key at once, and the updates of an old group that the subscription *)
(* still holds.  A key of a group is the sequence of the members' updates  *)
(* that led to it.  The daemon's goroutines are taken apart in modules     *)
(* AkesodDaemon and BucketFanout: here a round's workers run in any order, *)
(* next to the loop, and a panic is a crash.                               *)
(***************************************************************************)
EXTENDS Naturals, FiniteSets, Sequences

CONSTANTS
  Objects,      \* the names the bucket's objects may have
  NMembers,     \* bob, cici and dave in the code
  Forms,        \* the values of outform an operator uses
  MaxGroups,    \* bound: starts with setup_required on
  MaxUpdates    \* bound: key updates members publish

ASSUME MembersAssumption == NMembers \in Nat
ASSUME FormsAssumption == Forms \subseteq {"pem", "der"}
ASSUME BoundsAssumption == MaxGroups \in Nat /\ MaxUpdates \in Nat

VARIABLES
  pc,          \* where the daemon is; "off" when there is no process
  group,       \* how many starts have had setup_required on, which numbers their groups
  form,        \* outform of the process that sets the group up
  written,     \* how many key files it has written
  built,       \* for every owner, the group whose EK its setup message was built on
  signed,      \* the group whose IK signed the message, 0 before
  keyfile,     \* for every form and key file, the group it was written for, or 0
  msgfile,     \* the group of the message in setup.msg, or 0
  tree,        \* the key of the tree in state.json
  stage,       \* the key in stage-key.pem
  old_key,     \* the main loop's keys for the round
  new_key,
  jobs,        \* the workers that run
  subscribed,  \* whether the subscription exists
  pending,     \* updates the subscription holds
  setups,      \* the published SetupGroup messages
  sent,        \* the published updates
  member,      \* for every member, the key it has
  key          \* for every object, the key it is encrypted under

setting == <<form, written, built, signed>>
files == <<keyfile, msgfile, tree, stage>>
round == <<old_key, new_key, jobs>>
daemon == <<pc, group, setting, files, round>>
members == <<setups, sent, member>>
outside == <<subscribed, pending, members, key>>
vars == <<pc, group, form, written, built, signed, keyfile, msgfile, tree, stage, old_key,
          new_key, jobs, subscribed, pending, setups, sent, member, key>>
-----------------------------------------------------------------------------
\* Owner 0 is akesod, the initiator.
Member == 1..NMembers
Owner == 0..NMembers

\* generateKeys writes four files for every owner, in this order.
KeyFile == 1..4 * (NMembers + 1)
PubEK(i) == 4 * i + 1
PrivIK(i) == 4 * i + 4

\* A file that does not exist, an object that is not there, a member without a group.
NoKey == [group |-> 0, path |-> <<>>]
Key == [group : Nat, path : Seq(Member)]

GroupKey(g) == [group |-> g, path |-> <<>>]

\* An update of the tree under key from, made by a member, and the key it leads to.
UpdateMessage == [from : Key, by : Member]
After(u) == [group |-> u.from.group, path |-> Append(u.from.path, u.by)]

\* One key comes before the other among those of a group.
Before(k, l) == /\ k.group = l.group
                /\ Len(k.path) < Len(l.path)
                /\ \A i \in 1..Len(k.path) : k.path[i] = l.path[i]

\* form is kept to state the properties.
SetupMessage == [group : Nat, built : [Owner -> Nat], over : Nat, signed : Nat,
                 form : {"pem", "der"}]

Job == [obj : Objects, old : Key, new : Key]

Steps == {"off", "generate", "save_msg", "save_group_tree", "save_group_key", "sign",
          "publish", "subscribe", "recv", "remove_tree", "save_tree", "remove_stage",
          "save_stage", "start"}

TypeOK == /\ pc \in Steps
          /\ group \in Nat
          /\ form \in {"pem", "der"}
          /\ written \in 0..4 * (NMembers + 1)
          /\ built \in [Owner -> Nat]
          /\ signed \in Nat
          /\ keyfile \in [{"pem", "der"} -> [KeyFile -> Nat]]
          /\ msgfile \in Nat
          /\ tree \in Key
          /\ stage \in Key
          /\ old_key \in Key
          /\ new_key \in Key
          /\ jobs \subseteq Job
          /\ subscribed \in BOOLEAN
          /\ pending \subseteq UpdateMessage
          /\ setups \subseteq SetupMessage
          /\ sent \subseteq UpdateMessage
          /\ member \in [Member -> Key]
          /\ key \in [Objects -> Key]

\* Before the first start: no files, no subscription and an empty bucket.
Init == /\ pc = "off"
        /\ group = 0
        /\ form = "pem"
        /\ written = 0
        /\ built = [i \in Owner |-> 0]
        /\ signed = 0
        /\ keyfile = [f \in {"pem", "der"} |-> [n \in KeyFile |-> 0]]
        /\ msgfile = 0
        /\ tree = NoKey
        /\ stage = NoKey
        /\ old_key = NoKey
        /\ new_key = NoKey
        /\ jobs = {}
        /\ subscribed = FALSE
        /\ pending = {}
        /\ setups = {}
        /\ sent = {}
        /\ member = [m \in Member |-> NoKey]
        /\ key = [o \in Objects |-> NoKey]
-----------------------------------------------------------------------------
(***************************************************************************)
(* Start and exit.                                                         *)
(***************************************************************************)

StartWithSetup == /\ pc = "off"
                  /\ group < MaxGroups
                  /\ group' = group + 1
                  /\ form' \in Forms
                  /\ written' = 0
                  /\ pc' = "generate"
                  /\ UNCHANGED <<built, signed, files, round, outside>>

StartWithout == /\ pc = "off"
                /\ pc' = "subscribe"
                /\ UNCHANGED <<group, setting, files, round, outside>>

\* The exit of the process, with whatever its callbacks have acknowledged by then.
Exit == /\ pc' = "off"
        /\ jobs' = {}
        /\ pending' \in SUBSET pending
        /\ UNCHANGED <<group, setting, files, old_key, new_key, subscribed, members, key>>

Crash == pc # "off" /\ Exit
-----------------------------------------------------------------------------
(***************************************************************************)
(* Setting the group up.                                                   *)
(***************************************************************************)

\* Variants: keys that exist are kept; one file more than there is.
GenerateMissing ==
  /\ pc = "generate"
  /\ written \in 0..4 * (NMembers + 1) - 1
  /\ written' = written + 1
  /\ keyfile' = [keyfile EXCEPT ![form][written + 1] = IF @ = 0 THEN group ELSE @]
  /\ UNCHANGED <<pc, group, form, built, signed, msgfile, tree, stage, round, outside>>
GenerateOneMore ==
  /\ pc = "generate"
  /\ written \in 0..4 * (NMembers + 1)
  /\ written' = written + 1
  /\ keyfile' = [keyfile EXCEPT ![form][written + 1] = group]
  /\ UNCHANGED <<pc, group, form, built, signed, msgfile, tree, stage, round, outside>>

\* The next key file, in the configured form.
Generate == /\ pc = "generate"
            /\ written < 4 * (NMembers + 1)
            /\ written' = written + 1
            /\ keyfile' = [keyfile EXCEPT ![form][written + 1] = group]
            /\ UNCHANGED <<pc, group, form, built, signed, msgfile, tree, stage, round,
                           outside>>

\* The library builds the tree on the public keys that the group's configuration
\* names, which are PEM files, and exits when one is missing.
SetupGroup ==
  /\ pc = "generate"
  /\ written = 4 * (NMembers + 1)
  /\ IF \E i \in Owner : keyfile["pem"][PubEK(i)] = 0
       THEN Exit
       ELSE /\ built' = [i \in Owner |-> keyfile["pem"][PubEK(i)]]
            /\ pc' = "save_msg"
            /\ UNCHANGED <<group, form, written, signed, files, round, outside>>

\* setup.msg, and a signature of it that nobody reads.
SaveMsg == /\ pc = "save_msg"
           /\ msgfile' = group
           /\ pc' = "save_group_tree"
           /\ UNCHANGED <<group, setting, keyfile, tree, stage, round, outside>>

SaveGroupTree == /\ pc = "save_group_tree"
                 /\ tree' = GroupKey(group)
                 /\ pc' = "save_group_key"
                 /\ UNCHANGED <<group, setting, keyfile, msgfile, stage, round, outside>>

\* Variant: a stage key that exists is kept.
SaveGroupKeyMissing == /\ pc = "save_group_key"
                       /\ stage' = IF stage = NoKey THEN GroupKey(group) ELSE stage
                       /\ pc' = "sign"
                       /\ UNCHANGED <<group, setting, keyfile, msgfile, tree, round, outside>>

SaveGroupKey == /\ pc = "save_group_key"
                /\ stage' = GroupKey(group)
                /\ pc' = "sign"
                /\ UNCHANGED <<group, setting, keyfile, msgfile, tree, round, outside>>

\* The initiator's key is read from its PEM file, whatever outform is.
Sign == /\ pc = "sign"
        /\ signed' = keyfile["pem"][PrivIK(0)]
        /\ pc' = "publish"
        /\ UNCHANGED <<group, form, written, built, files, round, outside>>

\* The message has the members' new EKs and the initiator's new public IK.
PublishSetup ==
  /\ pc = "publish"
  /\ setups' = setups \cup {[group |-> group, built |-> built, over |-> msgfile,
                             signed |-> signed, form |-> form]}
  /\ pc' = "subscribe"
  /\ UNCHANGED <<group, setting, files, round, subscribed, pending, sent, member, key>>

Subscribe == /\ pc = "subscribe"
             /\ subscribed' = TRUE
             /\ pc' = "recv"
             /\ UNCHANGED <<group, setting, files, round, pending, members, key>>
-----------------------------------------------------------------------------
(***************************************************************************)
(* Members and users.                                                      *)
(***************************************************************************)

\* The signature is that of the public IK the message carries, and the leaf of the
\* tree is the EK it carries.
Joinable(s, m) == /\ s.signed = s.group
                  /\ s.over = s.group
                  /\ s.built[m] = s.group

\* A member joins a later group than the one it is in.
Join(m) == \E s \in setups : /\ member[m].group < s.group
                             /\ Joinable(s, m)
                             /\ member' = [member EXCEPT ![m] = GroupKey(s.group)]
                             /\ UNCHANGED <<daemon, subscribed, pending, setups, sent,
                                            key>>

\* A member updates the key it has.
MemberUpdates(m) ==
  /\ member[m] # NoKey
  /\ Cardinality(sent) < MaxUpdates
  /\ LET u == [from |-> member[m], by |-> m]
     IN  /\ sent' = sent \cup {u}
         /\ pending' = IF subscribed THEN pending \cup {u} ELSE pending
         /\ member' = [member EXCEPT ![m] = After(u)]
  /\ UNCHANGED <<daemon, subscribed, setups, key>>

\* A member follows the update of another.
Follow(m) == \E u \in sent : /\ u.from = member[m]
                             /\ member' = [member EXCEPT ![m] = After(u)]
                             /\ UNCHANGED <<daemon, subscribed, pending, setups, sent,
                                            key>>

\* A user uploads under the key of a member.
Upload(o) == \E m \in Member : /\ member[m] # NoKey
                               /\ key' = [key EXCEPT ![o] = member[m]]
                               /\ UNCHANGED <<daemon, subscribed, pending, members>>
-----------------------------------------------------------------------------
(***************************************************************************)
(* The handler.                                                            *)
(***************************************************************************)

\* Variant: the MAC is not checked.
AppliesWithoutMAC(u) == tree # NoKey /\ stage # NoKey

\* Both files are there, and the MAC verifies under the tree's own key.
Applies(u) == u.from = tree /\ stage # NoKey

\* Pub/Sub may keep the message and deliver it again.
Receive(u) == /\ pc = "recv"
              /\ u \in pending
              /\ Applies(u)
              /\ pending' \in {pending, pending \ {u}}
              /\ old_key' = stage
              /\ new_key' = After(u)
              /\ pc' = "remove_tree"
              /\ UNCHANGED <<group, setting, files, jobs, subscribed, members, key>>

\* The MAC does not verify, or a file is missing: the process exits.
Reject(u) == /\ pc = "recv"
             /\ u \in pending
             /\ ~Applies(u)
             /\ Exit

RemoveTree == /\ pc = "remove_tree"
              /\ tree' = NoKey
              /\ pc' = "save_tree"
              /\ UNCHANGED <<group, setting, keyfile, msgfile, stage, round, outside>>

SaveTree == /\ pc = "save_tree"
            /\ tree' = new_key
            /\ pc' = "remove_stage"
            /\ UNCHANGED <<group, setting, keyfile, msgfile, stage, round, outside>>

RemoveStageKey == /\ pc = "remove_stage"
                  /\ stage' = NoKey
                  /\ pc' = "save_stage"
                  /\ UNCHANGED <<group, setting, keyfile, msgfile, tree, round, outside>>

SaveStageKey == /\ pc = "save_stage"
                /\ stage' = new_key
                /\ pc' = "start"
                /\ UNCHANGED <<group, setting, keyfile, msgfile, tree, round, outside>>

\* A worker for every object that is there.
StartWorkers ==
  /\ pc = "start"
  /\ jobs' = jobs \cup {[obj |-> o, old |-> old_key, new |-> new_key] :
                          o \in {p \in Objects : key[p] # NoKey}}
  /\ pc' = "recv"
  /\ UNCHANGED <<group, setting, files, old_key, new_key, outside>>

\* The object is under the round's old key.
RotateObject(j) == /\ key[j.obj] = j.old
                   /\ key' = [key EXCEPT ![j.obj] = j.new]
                   /\ jobs' = jobs \ {j}
                   /\ UNCHANGED <<pc, group, setting, files, old_key, new_key, subscribed,
                                  pending, members>>

RotateFails(j) == key[j.obj] # j.old /\ Exit

\* The error is lost in the variable the workers share.
FailsUnnoticed(j) == /\ key[j.obj] # j.old
                     /\ \E i \in jobs \ {j} : i.new = j.new
                     /\ jobs' = jobs \ {j}
                     /\ UNCHANGED <<pc, group, setting, files, old_key, new_key, outside>>
-----------------------------------------------------------------------------
Setup == \/ Generate
         \/ SetupGroup
         \/ SaveMsg
         \/ SaveGroupTree
         \/ SaveGroupKey
         \/ Sign
         \/ PublishSetup

Apply == RemoveTree \/ SaveTree \/ RemoveStageKey \/ SaveStageKey \/ StartWorkers

Work(j) == RotateObject(j) \/ RotateFails(j) \/ FailsUnnoticed(j)

Next == \/ StartWithSetup
        \/ StartWithout
        \/ Crash
        \/ Setup
        \/ Subscribe
        \/ \E m \in Member : Join(m) \/ MemberUpdates(m) \/ Follow(m)
        \/ \E o \in Objects : Upload(o)
        \/ \E u \in pending : Receive(u) \/ Reject(u)
        \/ Apply
        \/ \E j \in jobs : Work(j)

Spec == Init /\ [][Next]_vars
-----------------------------------------------------------------------------
(***************************************************************************)
(* Properties.                                                             *)
(***************************************************************************)

\* Whatever start the operator repeats with setup_required on, wherever the daemon is
\* killed, and whichever old updates the subscription still holds: a round takes an
\* object from a key of its group to a later one on the same branch.  Objects of an
\* earlier group stay where they are, and so does what a member uploaded after its
\* update lost against another member's.
RotationsStayOnBranch ==
  [][\A o \in Objects : (key'[o] # key[o] /\ jobs' # jobs) => Before(key[o], key'[o])]_vars

\* A member that has joined a group is one the daemon can serve: tree and stage key of
\* that group, or of a later one, were saved before the group was announced.
SavedBeforeJoined ==
  \A m \in Member : /\ tree # NoKey => member[m].group <= tree.group
                    /\ stage # NoKey => member[m].group <= stage.group

\* With keys in PEM form, every announcement is one that every member can verify and
\* join, the key files an interrupted earlier start left behind included.  (With another
\* form the signature and the tree are those of older PEM files, if there are any.)
MembersCanJoin == \A s \in setups : s.form = "pem" => \A m \in Member : Joinable(s, m)
=============================================================================
