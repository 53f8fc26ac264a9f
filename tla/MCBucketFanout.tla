--------------------------- MODULE MCBucketFanout ---------------------------
(***************************************************************************)
(* An instance of BucketFanout for TLC: five files and two slots leave the *)
(* loop at its limit with files still to come.                             *)
(***************************************************************************)
EXTENDS BucketFanout
=============================================================================
