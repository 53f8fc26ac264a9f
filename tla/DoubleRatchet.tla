--------------------------- MODULE DoubleRatchet ---------------------------
(***************************************************************************)
(* drat-bench's conversation of alice and bob (figure 2's baseline).  Each *)
(* process has three goroutines: one reads the user's lines, one receives  *)
(* PDUs from the connection, and the main loop takes whichever comes next  *)
(* and ratchets.  Unlike the double ratchet it is named for, a party has   *)
(* one chain, with which it sends and receives.                            *)
(*                                                                         *)
(* Keys are terms: a key pair is a number, what a Diffie-Hellman exchange  *)
(* yields is the set of both pairs, and a root key is the sequence of the  *)
(* exchanges it was derived from, the shared secret being the empty one.   *)
(* Encryption is by the message key, with a nonce of zero.                 *)
(***************************************************************************)
EXTENDS Naturals, Sequences

CONSTANTS
  Allowed,   \* the adverse conditions that may occur
  MaxLines   \* bound: lines each user types

(***************************************************************************)
(* crossing: a user types although a message is on its way to him, or as   *)
(* bob before alice has spoken;  read_ahead: the connection has delivered  *)
(* more bytes than the PDU being read;  eof: a user's input ends.          *)
(***************************************************************************)
Conditions == {"crossing", "read_ahead", "eof"}

ASSUME AllowedAssumption == Allowed \subseteq Conditions
ASSUME LinesAssumption == MaxLines \in Nat

Parties == {"alice", "bob"}
Peer(p) == CHOOSE q \in Parties : q # p

VARIABLES
  up,         \* the processes that run
  priv,       \* for each party its key pair
  peer,       \* for each party its peer's public key as last seen, 0 for nil
  changed,    \* for each party whether that key is new since it last sent
  root,       \* for each party its root key
  chain,      \* for each party its chain key
  keys,       \* how many key pairs were generated
  wire,       \* what is on the connection to each party
  received,   \* what each party's receiving goroutine holds for the main loop
  sent,       \* the PDUs each party has sent
  printed,    \* the PDUs whose message each party has printed
  disturbed   \* the adverse conditions that have occurred

ratchet == <<priv, peer, changed, root, chain, keys>>
vars == <<up, ratchet, wire, received, sent, printed, disturbed>>
-----------------------------------------------------------------------------
(***************************************************************************)
(* Keys.                                                                   *)
(***************************************************************************)
Root == Seq(SUBSET Nat)
Chain == [root : Root, n : Nat]
MessageKey == Chain

DH(own, other) == {own, other}

\* The new root key, and the chain key derived with it.
KDF_RK(rk, dhOut) == [root |-> Append(rk, dhOut),
                      chain |-> [root |-> Append(rk, dhOut), n |-> 0]]

\* Variant: the chain key comes back as it was.
KDF_CKSame(ck) == [chain |-> ck, mk |-> ck]

\* The next chain key, and the message key derived with it.
KDF_CK(ck) == [chain |-> [ck EXCEPT !.n = @ + 1], mk |-> ck]

(***************************************************************************)
(* A PDU is its header, the key its body is encrypted under and the line.  *)
(* after is the last line of the peer that its sender had printed; it is   *)
(* not part of the PDU.  Rest is what is left on the connection of a PDU   *)
(* whose first bytes were read together with the one before.               *)
(***************************************************************************)
PDU == [pub : Nat, mk : MessageKey, line : Nat, after : Nat]
Rest == [pub |-> 0, mk |-> [root |-> <<>>, n |-> 0], line |-> 0, after |-> 0]

\* Variant: the error is ignored.
DecryptAnyway(mk, pdu) == TRUE
Decrypt(mk, pdu) == pdu.mk = mk

TypeOK == /\ up \subseteq Parties
          /\ priv \in [Parties -> Nat]
          /\ peer \in [Parties -> Nat]
          /\ changed \in [Parties -> BOOLEAN]
          /\ root \in [Parties -> Root]
          /\ chain \in [Parties -> Chain]
          /\ keys \in Nat
          /\ wire \in [Parties -> Seq(PDU)]
          /\ received \in [Parties -> Seq(PDU)]
          /\ \A p \in Parties : Len(received[p]) <= 1
          /\ sent \in [Parties -> Seq(PDU)]
          /\ printed \in [Parties -> Seq(PDU)]
          /\ disturbed \subseteq Conditions

\* Whether bob's first line needs a new key pair.  Variant: it does not.
BobHasToRatchetNot == FALSE
BobHasToRatchet == TRUE

BobStart == [priv |-> 1, peer |-> 0, changed |-> BobHasToRatchet, root |-> <<>>,
             chain |-> [root |-> <<>>, n |-> 0]]

\* alice has generated her first key pair, and derived keys for sending to bob's.
AliceStart == LET rk == KDF_RK(<<>>, DH(2, 1))
              IN [priv |-> 2, peer |-> 1, changed |-> FALSE, root |-> rk.root, chain |-> rk.chain]

\* The connection stands.  bob's key pair, known to both, is 1; he has no keys but
\* the shared secret before alice's first PDU.
Init ==
  LET start == [p \in Parties |-> IF p = "alice" THEN AliceStart ELSE BobStart]
  IN /\ up = Parties
     /\ priv = [p \in Parties |-> start[p].priv]
     /\ peer = [p \in Parties |-> start[p].peer]
     /\ changed = [p \in Parties |-> start[p].changed]
     /\ root = [p \in Parties |-> start[p].root]
     /\ chain = [p \in Parties |-> start[p].chain]
     /\ keys = 2
     /\ wire = [p \in Parties |-> <<>>]
     /\ received = [p \in Parties |-> <<>>]
     /\ sent = [p \in Parties |-> <<>>]
     /\ printed = [p \in Parties |-> <<>>]
     /\ disturbed = {}
-----------------------------------------------------------------------------
\* mu.Die: the process exits, and with it the connection.
Die(p) == /\ up' = up \ {p}
          /\ UNCHANGED <<ratchet, wire, received, sent, printed>>

Occurs(condition) == /\ condition \in Allowed
                     /\ disturbed' = disturbed \cup {condition}

\* The user waits for his turn: nothing is on its way to him, and bob has heard alice.
Turn(p) == wire[p] = <<>> /\ received[p] = <<>> /\ root[p] # <<>>

LastPrinted(p) == IF printed[p] = <<>> THEN 0 ELSE printed[p][Len(printed[p])].line

\* The keys a line is sent with: a new key pair and root key if the peer's key is new.
SendKeys(p) ==
  IF changed[p] THEN [own |-> keys + 1, rk |-> KDF_RK(root[p], DH(keys + 1, peer[p]))]
  ELSE [own |-> priv[p], rk |-> [root |-> root[p], chain |-> chain[p]]]

\* The main loop takes a line, which goes out under the next message key.
SendLine(p) ==
  /\ p \in up
  /\ Len(sent[p]) < MaxLines
  /\ root[p] # <<>>
  /\ \/ Turn(p) /\ UNCHANGED disturbed
     \/ ~Turn(p) /\ Occurs("crossing")
  /\ LET own == SendKeys(p).own
         rk == SendKeys(p).rk
         ck == KDF_CK(rk.chain)
         pdu == [pub |-> own, mk |-> ck.mk, line |-> Len(sent[p]) + 1, after |-> LastPrinted(p)]
     IN /\ priv' = [priv EXCEPT ![p] = own]
        /\ keys' = IF changed[p] THEN keys + 1 ELSE keys
        /\ changed' = [changed EXCEPT ![p] = FALSE]
        /\ root' = [root EXCEPT ![p] = rk.root]
        /\ chain' = [chain EXCEPT ![p] = ck.chain]
        /\ wire' = [wire EXCEPT ![Peer(p)] = Append(@, pdu)]
        /\ sent' = [sent EXCEPT ![p] = Append(@, pdu)]
  /\ UNCHANGED <<up, peer, received, printed>>

\* bob cannot send before alice.
SendTooEarly(p) ==
  /\ p \in up
  /\ root[p] = <<>>
  /\ Occurs("crossing")
  /\ Die(p)

\* The goroutine that reads the user's lines closes its channel.
EndOfInput(p) ==
  /\ p \in up
  /\ Occurs("eof")
  /\ Die(p)

\* Variant: the channel to the main loop is buffered.
ReceivePDUBuffered(p) ==
  /\ p \in up
  /\ wire[p] # <<>>
  /\ received' = [received EXCEPT ![p] = Append(@, wire[p][1])]
  /\ wire' = [wire EXCEPT ![p] = Tail(@)]
  /\ UNCHANGED <<up, ratchet, sent, printed, disturbed>>

\* ReceivePDU makes a decoder for every PDU, and a decoder buffers what the connection
\* has: with the PDU it may read, and lose, PDUs that follow, the last one in part.
ReceivePDU(p) ==
  /\ p \in up
  /\ received[p] = <<>>
  /\ wire[p] # <<>>
  /\ wire[p][1] # Rest
  /\ received' = [received EXCEPT ![p] = <<wire[p][1]>>]
  /\ \/ /\ wire' = [wire EXCEPT ![p] = Tail(@)]
        /\ UNCHANGED disturbed
     \/ /\ Occurs("read_ahead")
        /\ \E n \in 2..Len(wire[p]) :
             LET after == SubSeq(wire[p], n + 1, Len(wire[p]))
             IN wire' \in {[wire EXCEPT ![p] = after], [wire EXCEPT ![p] = <<Rest>> \o after]}
  /\ UNCHANGED <<up, ratchet, sent, printed>>

\* The rest of a PDU does not decode; or its first bytes pass for a length, and the
\* decoder waits for bytes that never come.
ReceiveRest(p) ==
  /\ p \in up
  /\ received[p] = <<>>
  /\ wire[p] # <<>>
  /\ wire[p][1] = Rest
  /\ Die(p)
  /\ UNCHANGED disturbed

\* Whether the header has a public key the party does not know; bob knows none at first.
\* Variant: only his first is new.
PeerKeyIsNewOnce(p, pdu) == peer[p] = 0
PeerKeyIsNew(p, pdu) == peer[p] # pdu.pub

\* The main loop takes a PDU: a new root key if its header has a new public key, the
\* next message key, and the message is printed if it decrypts.
HandlePDU(p) ==
  /\ p \in up
  /\ received[p] # <<>>
  /\ LET pdu == received[p][1]
         new == PeerKeyIsNew(p, pdu)
         rk == IF new THEN KDF_RK(root[p], DH(priv[p], pdu.pub))
               ELSE [root |-> root[p], chain |-> chain[p]]
         ck == KDF_CK(rk.chain)
     IN \/ /\ Decrypt(ck.mk, pdu)
           /\ peer' = [peer EXCEPT ![p] = pdu.pub]
           /\ changed' = [changed EXCEPT ![p] = @ \/ (new /\ peer[p] # 0)]
           /\ root' = [root EXCEPT ![p] = rk.root]
           /\ chain' = [chain EXCEPT ![p] = ck.chain]
           /\ received' = [received EXCEPT ![p] = <<>>]
           /\ printed' = [printed EXCEPT ![p] = Append(@, pdu)]
           /\ UNCHANGED <<up, priv, keys, wire, sent>>
        \/ /\ ~Decrypt(ck.mk, pdu)
           /\ Die(p)
  /\ UNCHANGED disturbed

\* The peer has exited, and a read from the connection or a write to it fails.
ConnectionLost(p) ==
  /\ p \in up
  /\ Peer(p) \notin up
  /\ Die(p)
  /\ UNCHANGED disturbed
-----------------------------------------------------------------------------
Next == \E p \in Parties : \/ SendLine(p) \/ SendTooEarly(p) \/ EndOfInput(p)
                           \/ ReceivePDU(p) \/ ReceiveRest(p) \/ HandlePDU(p)
                           \/ ConnectionLost(p)

\* The goroutines run; the users need not type.
Fairness == \A p \in Parties : WF_vars(ReceivePDU(p)) /\ WF_vars(HandlePDU(p))

Spec == Init /\ [][Next]_vars
FairSpec == Spec /\ Fairness
-----------------------------------------------------------------------------
(***************************************************************************)
(* Properties.                                                             *)
(***************************************************************************)

\* Since the nonce is always zero, no message key ever encrypts two messages, of one
\* party or of both, not even when messages cross: a party that has received a new
\* key sends under a key pair of its own choice before it sends anything else.
MessageKeysFresh ==
  \A p, q \in Parties : \A i \in 1..Len(sent[p]), j \in 1..Len(sent[q]) :
    sent[p][i].mk = sent[q][j].mk => p = q /\ i = j

\* As long as the users take turns, no process exits, and whenever nothing is on its
\* way both parties have the same keys and have printed what the other sent.
TurnsKeepInSync ==
  disturbed = {} =>
    /\ up = Parties
    /\ (\A p \in Parties : wire[p] = <<>> /\ received[p] = <<>>) /\ root["bob"] # <<>>
         => /\ root["alice"] = root["bob"] /\ chain["alice"] = chain["bob"]
            /\ \A p \in Parties : printed[p] = sent[Peer(p)]

\* Messages that the decoder loses are noticed by the next one of the same turn, so
\* that what is missing is always the end of a turn: what is printed is in the order it
\* was sent, with all that was sent before it under the same public key.
GapsOnlyAtTurnEnds ==
  \A p \in Parties : \A j \in 1..Len(printed[p]) :
    /\ \A k \in 1..Len(printed[p]) : k < j => printed[p][k].line < printed[p][j].line
    /\ \A i \in 1..Len(sent[Peer(p)]) :
         LET pdu == sent[Peer(p)][i]
         IN pdu.pub = printed[p][j].pub /\ pdu.line <= printed[p][j].line
              => \E k \in 1..Len(printed[p]) : printed[p][k] = pdu

\* When messages cross, sent by each party before it printed the other's, only one of
\* the two is printed: the conversation both users read is one sequence.
CrossingNeverUnnoticed ==
  \A i \in 1..Len(printed["alice"]), j \in 1..Len(printed["bob"]) :
    LET b == printed["alice"][i]
        a == printed["bob"][j]
    IN b.after >= a.line \/ a.after >= b.line

\* As long as the users take turns, every line typed is printed by the other side.
EverythingPrinted ==
  <>[](disturbed # {} \/ \A p \in Parties : printed[p] = sent[Peer(p)])
=============================================================================
