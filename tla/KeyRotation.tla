---------------------------- MODULE KeyRotation ----------------------------
(***************************************************************************)
(* What the daemon promises to the users of a bucket, whatever the         *)
(* strategy: a key update starts when no object is between two keys; it    *)
(* takes an object forward, to the current key and to no other (where      *)
(* rounds overlap, to a key the group has had since the object's); and     *)
(* only an upload changes what an object holds or takes it to an earlier   *)
(* key.                                                                    *)
(* A strategy that re-encrypts elsewhere leaves the object unreadable for  *)
(* a while (moving); the others rotate it at once.                         *)
(***************************************************************************)
EXTENDS Naturals

CONSTANTS
  Objects,   \* the names of the bucket's objects
  Overlap    \* whether a round may begin before the last one's workers have ended

VARIABLES
  epoch,     \* the epoch of the group's key
  key,       \* for every object, the epoch of the key it is encrypted under
  content,   \* for every object, what decrypting it returns
  moving     \* the objects whose rotation has begun and not finished

vars == <<epoch, key, content, moving>>

TypeOK == /\ epoch \in Nat
          /\ key \in [Objects -> Nat]
          /\ content \in [Objects -> Nat]
          /\ moving \subseteq Objects

Init == /\ epoch = 0
        /\ key = [o \in Objects |-> 0]
        /\ content \in [Objects -> Nat]
        /\ moving = {}

\* The daemon moves to a later key of the group.
NextKey == /\ moving = {}
           /\ epoch' \in Nat
           /\ epoch < epoch'
           /\ UNCHANGED <<key, content, moving>>

\* The object changes keys; on its way it may be unreadable.
Rotate(o) == /\ o \notin moving
             /\ \E k \in 0..epoch : /\ key[o] < k
                                    /\ Overlap \/ k = epoch
                                    /\ key' = [key EXCEPT ![o] = k]
             /\ moving' \in {moving, moving \cup {o}}
             /\ UNCHANGED <<epoch, content>>

\* An object on its way becomes readable.
Finish(o) == /\ o \in moving
             /\ moving' = moving \ {o}
             /\ UNCHANGED <<epoch, key, content>>

\* A user uploads, under the current key or the one before it.  Contents are numbered
\* in the order of their uploads, so that an older one cannot come back as an upload.
Upload(o) == /\ o \notin moving
             /\ \E k \in {k \in 0..epoch : k + 1 >= epoch} : key' = [key EXCEPT ![o] = k]
             /\ content' \in [Objects -> Nat]
             /\ content[o] < content'[o]
             /\ \A p \in Objects \ {o} : content'[p] = content[p]
             /\ UNCHANGED <<epoch, moving>>

Next == \/ NextKey
        \/ \E o \in Objects : Rotate(o) \/ Finish(o) \/ Upload(o)

Spec == Init /\ [][Next]_vars
=============================================================================
