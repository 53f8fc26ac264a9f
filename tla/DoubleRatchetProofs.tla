------------------------ MODULE DoubleRatchetProofs ------------------------
(***************************************************************************)
(* Theorems about DoubleRatchet, for every number of lines and every set   *)
(* of adverse conditions.                                                  *)
(***************************************************************************)
EXTENDS DoubleRatchet, SequenceTheorems, TLAPS

LEMMA PeerIs == Peer("alice") = "bob" /\ Peer("bob") = "alice"
  BY DEF Peer, Parties

\* The other party of the other party is the party itself.
LEMMA PeerPeer == ASSUME NEW p \in Parties PROVE Peer(p) \in Parties /\ Peer(p) # p /\ Peer(Peer(p)) = p
  BY PeerIs DEF Parties

(***************************************************************************)
(* Type correctness, whatever the environment does.                        *)
(***************************************************************************)

LEMMA KDF_RKType ==
  ASSUME NEW rk \in Root, NEW a \in Nat, NEW b \in Nat
  PROVE  /\ KDF_RK(rk, DH(a, b)).root = Append(rk, {a, b})
         /\ KDF_RK(rk, DH(a, b)).chain = [root |-> Append(rk, {a, b}), n |-> 0]
         /\ KDF_RK(rk, DH(a, b)).root \in Root
         /\ KDF_RK(rk, DH(a, b)).chain \in Chain
<1>1. {a, b} \in SUBSET Nat
  OBVIOUS
<1>2. Append(rk, {a, b}) \in Root
  BY <1>1 DEF Root
<1> QED BY <1>2 DEF KDF_RK, DH, Chain

LEMMA RestType == Rest \in PDU
<1>1. <<>> \in Root
  BY DEF Root
<1> QED BY <1>1 DEF Rest, PDU, MessageKey, Chain

LEMMA InitType == Init => TypeOK
<1> SUFFICES ASSUME Init PROVE TypeOK
  OBVIOUS
<1>1. <<>> \in Root /\ <<>> \in Seq(PDU) /\ Len(<<>>) = 0
  BY DEF Root
<1>2. [root |-> <<>>, n |-> 0] \in Chain
  BY <1>1 DEF Chain
<1>3. /\ AliceStart.priv \in Nat /\ AliceStart.peer \in Nat /\ AliceStart.changed \in BOOLEAN
      /\ AliceStart.root \in Root /\ AliceStart.chain \in Chain
  BY <1>1, <1>2, KDF_RKType DEF AliceStart
<1>4. /\ BobStart.priv \in Nat /\ BobStart.peer \in Nat /\ BobStart.changed \in BOOLEAN
      /\ BobStart.root \in Root /\ BobStart.chain \in Chain
  BY <1>1, <1>2 DEF BobStart, BobHasToRatchet
<1> QED BY <1>1, <1>3, <1>4 DEF Init, TypeOK

\* What a line is sent with.
LEMMA SendKeysType ==
  ASSUME TypeOK, NEW p \in Parties
  PROVE  /\ SendKeys(p).own \in Nat /\ SendKeys(p).rk.root \in Root /\ SendKeys(p).rk.chain \in Chain
         /\ LastPrinted(p) \in Nat
<1>1. /\ root[p] \in Root /\ chain[p] \in Chain /\ priv[p] \in Nat /\ keys + 1 \in Nat /\ peer[p] \in Nat
      /\ printed[p] \in Seq(PDU)
  BY DEF TypeOK
<1>2. ASSUME printed[p] # <<>> PROVE printed[p][Len(printed[p])] \in PDU
  <2>1. Len(printed[p]) \in 1..Len(printed[p])
    BY <1>1, <1>2
  <2> QED BY <1>1, <2>1
<1>3. LastPrinted(p) \in Nat
  BY <1>2 DEF LastPrinted, PDU
<1> QED BY <1>1, <1>3, KDF_RKType DEF SendKeys

\* What the next PDU brings a party to.
ReceiveKeys(p, pdu) ==
  IF PeerKeyIsNew(p, pdu) THEN KDF_RK(root[p], DH(priv[p], pdu.pub)) ELSE [root |-> root[p], chain |-> chain[p]]

LEMMA ReceiveKeysType ==
  ASSUME TypeOK, NEW p \in Parties, NEW pdu \in PDU
  PROVE  ReceiveKeys(p, pdu).root \in Root /\ ReceiveKeys(p, pdu).chain \in Chain
<1>1. root[p] \in Root /\ chain[p] \in Chain /\ priv[p] \in Nat /\ pdu.pub \in Nat
  BY DEF TypeOK, PDU
<1> QED BY <1>1, KDF_RKType DEF ReceiveKeys

\* What SendLine does, with its definitions expanded.
LEMMA SendLineIs ==
  ASSUME TypeOK, NEW p \in Parties, SendLine(p)
  PROVE  LET rk == SendKeys(p).rk
             pdu == [pub |-> SendKeys(p).own, mk |-> rk.chain, line |-> Len(sent[p]) + 1,
                     after |-> LastPrinted(p)]
         IN /\ pdu \in PDU
            /\ priv' = [priv EXCEPT ![p] = SendKeys(p).own]
            /\ keys' = IF changed[p] THEN keys + 1 ELSE keys
            /\ changed' = [changed EXCEPT ![p] = FALSE]
            /\ root' = [root EXCEPT ![p] = rk.root]
            /\ chain' = [chain EXCEPT ![p] = [root |-> rk.chain.root, n |-> rk.chain.n + 1]]
            /\ [root |-> rk.chain.root, n |-> rk.chain.n + 1] \in Chain
            /\ wire' = [wire EXCEPT ![Peer(p)] = Append(@, pdu)]
            /\ sent' = [sent EXCEPT ![p] = Append(@, pdu)]
            /\ UNCHANGED <<up, peer, received, printed>>
<1>1. Len(sent[p]) + 1 \in Nat
  BY DEF TypeOK
<1>2. [pub |-> SendKeys(p).own, mk |-> SendKeys(p).rk.chain, line |-> Len(sent[p]) + 1,
       after |-> LastPrinted(p)] \in PDU
  BY <1>1, SendKeysType DEF PDU, MessageKey
<1>3. KDF_CK(SendKeys(p).rk.chain).mk = SendKeys(p).rk.chain
  BY DEF KDF_CK
<1>4. /\ KDF_CK(SendKeys(p).rk.chain).chain
           = [root |-> SendKeys(p).rk.chain.root, n |-> SendKeys(p).rk.chain.n + 1]
      /\ KDF_CK(SendKeys(p).rk.chain).chain \in Chain
  BY SendKeysType DEF KDF_CK, Chain
<1> QED BY <1>2, <1>3, <1>4 DEF SendLine

\* What HandlePDU does if the message decrypts, with its definitions expanded.
LEMMA HandlePDUIs ==
  ASSUME TypeOK, NEW p \in Parties, HandlePDU(p), ~Die(p)
  PROVE  LET pdu == received[p][1]
             rk == ReceiveKeys(p, pdu)
         IN /\ received[p] # <<>> /\ pdu \in PDU /\ pdu.mk = rk.chain
            /\ peer' = [peer EXCEPT ![p] = pdu.pub]
            /\ changed' = [changed EXCEPT ![p] = @ \/ (PeerKeyIsNew(p, pdu) /\ peer[p] # 0)]
            /\ root' = [root EXCEPT ![p] = rk.root]
            /\ chain' = [chain EXCEPT ![p] = [root |-> rk.chain.root, n |-> rk.chain.n + 1]]
            /\ [root |-> rk.chain.root, n |-> rk.chain.n + 1] \in Chain
            /\ received' = [received EXCEPT ![p] = <<>>]
            /\ printed' = [printed EXCEPT ![p] = Append(@, pdu)]
            /\ UNCHANGED <<up, priv, keys, wire, sent, disturbed>>
<1> DEFINE pdu == received[p][1]
           rk == ReceiveKeys(p, pdu)
<1>1. received[p] # <<>> /\ pdu \in PDU
  BY DEF HandlePDU, TypeOK
<1>2. rk.root \in Root /\ rk.chain \in Chain
  BY <1>1, ReceiveKeysType
<1>3. KDF_CK(rk.chain).mk = rk.chain
  BY DEF KDF_CK
<1>4. /\ KDF_CK(rk.chain).chain = [root |-> rk.chain.root, n |-> rk.chain.n + 1]
      /\ KDF_CK(rk.chain).chain \in Chain
  BY <1>2 DEF KDF_CK, Chain
<1>5. /\ Decrypt(KDF_CK(rk.chain).mk, pdu)
      /\ peer' = [peer EXCEPT ![p] = pdu.pub]
      /\ changed' = [changed EXCEPT ![p] = @ \/ (PeerKeyIsNew(p, pdu) /\ peer[p] # 0)]
      /\ root' = [root EXCEPT ![p] = rk.root]
      /\ chain' = [chain EXCEPT ![p] = KDF_CK(rk.chain).chain]
      /\ received' = [received EXCEPT ![p] = <<>>]
      /\ printed' = [printed EXCEPT ![p] = Append(@, pdu)]
      /\ UNCHANGED <<up, priv, keys, wire, sent, disturbed>>
  BY ZenonT(30) DEF HandlePDU, ReceiveKeys
<1> HIDE DEF rk, pdu
<1>6. pdu.mk = rk.chain /\ received[p] # <<>> /\ pdu \in PDU
  BY <1>1, <1>3, <1>5 DEF Decrypt
<1> QED BY <1>4, <1>5, <1>6 DEF rk, pdu

\* The steps that only end a process.
Exits(p) == /\ up' \subseteq up
            /\ disturbed' \subseteq Conditions
            /\ UNCHANGED <<ratchet, wire, received, sent, printed>>

LEMMA ExitsAre ==
  ASSUME TypeOK, NEW p \in Parties, 
         SendTooEarly(p) \/ EndOfInput(p) \/ ReceiveRest(p) \/ ConnectionLost(p) \/ (HandlePDU(p) /\ Die(p))
  PROVE  Exits(p)
<1>1. Die(p) /\ disturbed' \subseteq Conditions
  BY AllowedAssumption DEF SendTooEarly, EndOfInput, ReceiveRest, ConnectionLost, HandlePDU, Occurs, TypeOK
<1> QED BY <1>1 DEF Exits, Die

LEMMA SendLineType == ASSUME TypeOK, NEW p \in Parties, SendLine(p) PROVE TypeOK'
<1> DEFINE rk == SendKeys(p).rk
           pdu == [pub |-> SendKeys(p).own, mk |-> rk.chain, line |-> Len(sent[p]) + 1,
                   after |-> LastPrinted(p)]
<1>1. rk.root \in Root /\ SendKeys(p).own \in Nat
  BY SendKeysType
<1>2. /\ pdu \in PDU
      /\ priv' = [priv EXCEPT ![p] = SendKeys(p).own]
      /\ keys' = IF changed[p] THEN keys + 1 ELSE keys
      /\ changed' = [changed EXCEPT ![p] = FALSE]
      /\ root' = [root EXCEPT ![p] = rk.root]
      /\ wire' = [wire EXCEPT ![Peer(p)] = Append(@, pdu)]
      /\ sent' = [sent EXCEPT ![p] = Append(@, pdu)]
      /\ UNCHANGED <<up, peer, received, printed>>
  BY SendLineIs
<1>3. chain' \in [Parties -> Chain]
  BY SendLineIs DEF TypeOK
<1>4. disturbed' \subseteq Conditions
  BY AllowedAssumption DEF SendLine, Occurs, TypeOK
<1> HIDE DEF rk, pdu
<1>5. priv' \in [Parties -> Nat] /\ root' \in [Parties -> Root] /\ keys' \in Nat
  BY <1>1, <1>2 DEF TypeOK
<1>6. wire' \in [Parties -> Seq(PDU)] /\ sent' \in [Parties -> Seq(PDU)]
  BY <1>2, PeerPeer DEF TypeOK
<1>7. changed' \in [Parties -> BOOLEAN]
  BY <1>2 DEF TypeOK
<1> QED BY <1>2, <1>3, <1>4, <1>5, <1>6, <1>7 DEF TypeOK

LEMMA HandlePDUType == ASSUME TypeOK, NEW p \in Parties, HandlePDU(p), ~Die(p) PROVE TypeOK'
<1> DEFINE pdu == received[p][1]
           rk == ReceiveKeys(p, pdu)
<1>1. /\ pdu \in PDU
      /\ peer' = [peer EXCEPT ![p] = pdu.pub]
      /\ changed' = [changed EXCEPT ![p] = @ \/ (PeerKeyIsNew(p, pdu) /\ peer[p] # 0)]
      /\ root' = [root EXCEPT ![p] = rk.root]
      /\ received' = [received EXCEPT ![p] = <<>>]
      /\ printed' = [printed EXCEPT ![p] = Append(@, pdu)]
      /\ UNCHANGED <<up, priv, keys, wire, sent, disturbed>>
  BY HandlePDUIs
<1>2. chain' \in [Parties -> Chain]
  BY HandlePDUIs DEF TypeOK
<1>3. rk.root \in Root
  BY <1>1, ReceiveKeysType
<1> HIDE DEF rk, pdu
<1>4. /\ root' \in [Parties -> Root]
      /\ received' \in [Parties -> Seq(PDU)]
      /\ \A q \in Parties : Len(received'[q]) <= 1
  BY <1>1, <1>3 DEF TypeOK
<1>5. pdu.pub \in Nat
  BY <1>1 DEF PDU
<1>6. printed' \in [Parties -> Seq(PDU)] /\ peer' \in [Parties -> Nat]
  BY <1>1, <1>5 DEF TypeOK
<1>7. changed' \in [Parties -> BOOLEAN]
  BY <1>1 DEF TypeOK, PeerKeyIsNew
<1> QED BY <1>1, <1>2, <1>4, <1>6, <1>7 DEF TypeOK

\* What ReceivePDU leaves on the connection is the end of what was there, with the
\* rest of a PDU before it or not.
LEMMA ReceivePDUIs ==
  ASSUME TypeOK, NEW p \in Parties, ReceivePDU(p)
  PROVE  /\ wire[p] # <<>> /\ wire[p][1] # Rest /\ wire[p][1] \in PDU /\ received[p] = <<>>
         /\ received' = [received EXCEPT ![p] = <<wire[p][1]>>]
         /\ \E w \in Seq(PDU) :
              /\ wire' = [wire EXCEPT ![p] = w]
              /\ \A i \in 1..Len(w) : w[i] = Rest \/ \E j \in 1..Len(wire[p]) : w[i] = wire[p][j]
         /\ disturbed' \subseteq Conditions
         /\ disturbed \subseteq disturbed'
         /\ UNCHANGED <<up, ratchet, sent, printed>>
<1>1. wire[p] \in Seq(PDU) /\ wire[p] # <<>> /\ wire[p][1] \in PDU
  BY DEF ReceivePDU, TypeOK
<1>2. /\ disturbed' \subseteq Conditions /\ disturbed \subseteq disturbed'
      /\ UNCHANGED <<up, ratchet, sent, printed>>
      /\ wire[p][1] # Rest /\ received[p] = <<>> /\ received' = [received EXCEPT ![p] = <<wire[p][1]>>]
  BY AllowedAssumption DEF ReceivePDU, Occurs, TypeOK
<1>3. ASSUME NEW n \in 1..Len(wire[p]), NEW w, w = SubSeq(wire[p], n + 1, Len(wire[p]))
      PROVE  w \in Seq(PDU) /\ \A i \in 1..Len(w) : \E j \in 1..Len(wire[p]) : w[i] = wire[p][j]
  <2>1. w \in Seq(PDU) /\ Len(w) = Len(wire[p]) - n /\ \A i \in 1..Len(w) : w[i] = wire[p][n + i]
    BY <1>1, <1>3
  <2> QED BY <1>1, <2>1
<1>4. CASE wire' = [wire EXCEPT ![p] = Tail(@)]
  <2>1. Tail(wire[p]) \in Seq(PDU) /\ Len(Tail(wire[p])) = Len(wire[p]) - 1
    BY <1>1
  <2>2. \A i \in 1..Len(Tail(wire[p])) : i + 1 \in 1..Len(wire[p]) /\ Tail(wire[p])[i] = wire[p][i + 1]
    BY <1>1, <2>1
  <2> QED BY <1>1, <1>2, <1>4, <2>1, <2>2
<1>5. ASSUME NEW n \in 2..Len(wire[p]),
             LET after == SubSeq(wire[p], n + 1, Len(wire[p]))
             IN wire' \in {[wire EXCEPT ![p] = after], [wire EXCEPT ![p] = <<Rest>> \o after]}
      PROVE  \E w \in Seq(PDU) :
               /\ wire' = [wire EXCEPT ![p] = w]
               /\ \A i \in 1..Len(w) : w[i] = Rest \/ \E j \in 1..Len(wire[p]) : w[i] = wire[p][j]
  <2> DEFINE w == SubSeq(wire[p], n + 1, Len(wire[p]))
  <2>1. w \in Seq(PDU) /\ \A i \in 1..Len(w) : \E j \in 1..Len(wire[p]) : w[i] = wire[p][j]
    BY <1>1, <1>3
  <2>2. wire' = [wire EXCEPT ![p] = w] \/ wire' = [wire EXCEPT ![p] = <<Rest>> \o w]
    BY <1>5
  <2> HIDE DEF w
  <2>3. <<Rest>> \o w \in Seq(PDU) /\ Len(<<Rest>> \o w) = Len(w) + 1
    BY <2>1, RestType
  <2>4. ASSUME NEW i \in 1..Len(<<Rest>> \o w)
        PROVE  (<<Rest>> \o w)[i] = Rest \/ \E j \in 1..Len(w) : (<<Rest>> \o w)[i] = w[j]
    <3>1. CASE i = 1
      BY <2>1, <3>1
    <3>2. CASE i # 1
      <4>1. i - 1 \in 1..Len(w) /\ (<<Rest>> \o w)[i] = w[i - 1]
        BY <2>1, <2>3, <3>2, RestType
      <4> QED BY <4>1
    <3> QED BY <3>1, <3>2
  <2>5. CASE wire' = [wire EXCEPT ![p] = w]
    BY <2>1, <2>5
  <2>6. CASE wire' = [wire EXCEPT ![p] = <<Rest>> \o w]
    <3> DEFINE v == <<Rest>> \o w
    <3>1. v \in Seq(PDU) /\ wire' = [wire EXCEPT ![p] = v]
      BY <2>3, <2>6
    <3>2. \A i \in 1..Len(v) : v[i] = Rest \/ \E j \in 1..Len(w) : v[i] = w[j]
      BY <2>4
    <3>3. \A i \in 1..Len(v) : v[i] = Rest \/ \E j \in 1..Len(wire[p]) : v[i] = wire[p][j]
      <4> HIDE DEF v
      <4> QED BY <2>1, <3>2
    <3> HIDE DEF v
    <3> QED BY <3>1, <3>3
  <2> QED BY <2>2, <2>5, <2>6
<1> QED BY <1>1, <1>2, <1>4, <1>5 DEF ReceivePDU

LEMMA ReceivePDUType == ASSUME TypeOK, NEW p \in Parties, ReceivePDU(p) PROVE TypeOK'
<1>1. PICK w \in Seq(PDU) : wire' = [wire EXCEPT ![p] = w]
  BY ReceivePDUIs
<1>2. /\ wire[p][1] \in PDU /\ received' = [received EXCEPT ![p] = <<wire[p][1]>>]
      /\ disturbed' \subseteq Conditions /\ UNCHANGED <<up, ratchet, sent, printed>>
  BY ReceivePDUIs
<1>3. <<wire[p][1]>> \in Seq(PDU) /\ Len(<<wire[p][1]>>) = 1
  BY <1>2
<1>4. wire' \in [Parties -> Seq(PDU)] /\ received' \in [Parties -> Seq(PDU)]
  BY <1>1, <1>2, <1>3 DEF TypeOK
<1>5. \A q \in Parties : Len(received'[q]) <= 1
  BY <1>2, <1>3 DEF TypeOK
<1> QED BY <1>2, <1>4, <1>5 DEF TypeOK, ratchet

\* Every step is one of these.
LEMMA Steps ==
  ASSUME TypeOK, [Next]_vars
  PROVE  \/ \E p \in Parties : SendLine(p) \/ ReceivePDU(p) \/ (HandlePDU(p) /\ ~Die(p)) \/ Exits(p)
         \/ UNCHANGED vars
  BY ExitsAre DEF Next

LEMMA StepType == TypeOK /\ [Next]_vars => TypeOK'
<1> SUFFICES ASSUME TypeOK, [Next]_vars PROVE TypeOK'
  OBVIOUS
<1>1. ASSUME NEW p \in Parties, Exits(p) PROVE TypeOK'
  BY <1>1 DEF Exits, TypeOK, ratchet
<1>2. CASE UNCHANGED vars
  BY <1>2 DEF vars, TypeOK, ratchet
<1> QED BY <1>1, <1>2, Steps, SendLineType, ReceivePDUType, HandlePDUType

\* Every variable keeps its type, and the receiving goroutine holds one PDU at most,
\* whatever the users do and however far the decoder reads ahead.
THEOREM TypeCorrect == Spec => []TypeOK
  BY InitType, StepType, PTL DEF Spec
-----------------------------------------------------------------------------
(***************************************************************************)
(* The inductive invariant.  Roots grow by one exchange whenever the       *)
(* conversation changes its direction, so that alice's are of odd and      *)
(* bob's of even length (Own): no party decrypts, let alone sends, under a *)
(* root of the wrong parity.  Keys are ordered by root and number          *)
(* (Before), and each party's chain key moves up in that order with all    *)
(* that it sends and prints.                                               *)
(***************************************************************************)

\* Roots of this length are of the party's making.
Own(p, n) == n % 2 = IF p = "alice" THEN 1 ELSE 0

Before(k, l) == \/ Len(k.root) < Len(l.root)
                \/ Len(k.root) = Len(l.root) /\ k.n < l.n

IsIn(pdu, s) == \E i \in 1..Len(s) : s[i] = pdu

\* A party's chain key is of its root, and a root is the peer's just as long as a key
\* of the peer's is to be answered by a new one.
PartyInv ==
  \A p \in Parties : /\ chain[p].root = root[p]
                     /\ priv[p] \in 1..keys
                     /\ peer[p] = 0 => changed[p] /\ root[p] = <<>>
                     /\ root[p] # <<>> => (changed[p] <=> ~Own(p, Len(root[p])))

\* Lines are numbered, their keys are the sender's own and ordered, and a public key
\* stands for a root.
SentInv ==
  \A p \in Parties : \A i \in 1..Len(sent[p]) :
    /\ sent[p][i].line = i
    /\ sent[p][i].pub \in 1..keys
    /\ Len(sent[p][i].mk.root) > 0
    /\ Own(p, Len(sent[p][i].mk.root))
    /\ Before(sent[p][i].mk, chain[p])
    /\ ~changed[p] => (sent[p][i].pub = priv[p] <=> sent[p][i].mk.root = root[p])
    /\ \A j \in 1..Len(sent[p]) :
         /\ i < j => Before(sent[p][i].mk, sent[p][j].mk)
         /\ (sent[p][i].pub = sent[p][j].pub <=> sent[p][i].mk.root = sent[p][j].mk.root)

\* Nothing arrives that was not sent, but for the rest of a PDU.
WireInv ==
  \A p \in Parties : /\ \A i \in 1..Len(wire[p]) : wire[p][i] = Rest \/ IsIn(wire[p][i], sent[Peer(p)])
                     /\ \A i \in 1..Len(received[p]) : IsIn(received[p][i], sent[Peer(p)])

\* What is printed was sent; what was printed under an older root than a line is sent
\* with was printed before that line was sent.
PrintedInv ==
  \A p \in Parties : \A j \in 1..Len(printed[p]) :
    /\ IsIn(printed[p][j], sent[Peer(p)])
    /\ Before(printed[p][j].mk, chain[p])
    /\ \A i \in 1..Len(sent[p]) :
         Len(printed[p][j].mk.root) < Len(sent[p][i].mk.root) => printed[p][j].line <= sent[p][i].after

\* Under the peer's root, the key before the chain key is that of the last PDU printed.
LastInv ==
  \A p \in Parties : changed[p] /\ root[p] # <<>>
    => /\ printed[p] # <<>>
       /\ LET mk == printed[p][Len(printed[p])].mk IN mk.root = root[p] /\ mk.n + 1 = chain[p].n

Inv == /\ TypeOK
       /\ PartyInv
       /\ SentInv
       /\ WireInv
       /\ PrintedInv
       /\ LastInv
       /\ GapsOnlyAtTurnEnds

LEMMA OwnAlternates ==
  ASSUME NEW p \in Parties, NEW n \in Nat
  PROVE  /\ Own(p, n + 1) <=> ~Own(p, n)
         /\ Own(Peer(p), n) <=> ~Own(p, n)
<1>1. n % 2 \in {0, 1} /\ ((n + 1) % 2 = 1 <=> n % 2 = 0) /\ ((n + 1) % 2 = 0 <=> n % 2 = 1)
  OBVIOUS
<1> QED BY <1>1, PeerIs DEF Own, Parties

LEMMA PDUType ==
  ASSUME NEW pdu \in PDU
  PROVE  /\ pdu.pub \in Nat /\ pdu.line \in Nat /\ pdu.after \in Nat /\ pdu.mk \in Chain
         /\ pdu.mk.n \in Nat /\ Len(pdu.mk.root) \in Nat
  BY DEF PDU, MessageKey, Chain, Root

LEMMA StateType ==
  ASSUME TypeOK, NEW p \in Parties
  PROVE  /\ sent[p] \in Seq(PDU) /\ Len(sent[p]) \in Nat /\ \A i \in 1..Len(sent[p]) : sent[p][i] \in PDU
         /\ printed[p] \in Seq(PDU) /\ Len(printed[p]) \in Nat
         /\ \A i \in 1..Len(printed[p]) : printed[p][i] \in PDU
         /\ root[p] \in Root /\ Len(root[p]) \in Nat /\ chain[p] \in Chain /\ chain[p].n \in Nat
         /\ priv[p] \in Nat /\ peer[p] \in Nat /\ keys \in Nat /\ changed[p] \in BOOLEAN
  BY DEF TypeOK, Chain, Root

LEMMA AppendIs ==
  ASSUME NEW s \in Seq(PDU), NEW pdu \in PDU
  PROVE  /\ Len(Append(s, pdu)) = Len(s) + 1 /\ Append(s, pdu) # <<>>
         /\ \A i \in 1..Len(s) : Append(s, pdu)[i] = s[i]
         /\ Append(s, pdu)[Len(s) + 1] = pdu
         /\ IsIn(pdu, Append(s, pdu))
         /\ \A d : IsIn(d, s) => IsIn(d, Append(s, pdu))
<1>1. /\ Len(Append(s, pdu)) = Len(s) + 1 /\ Append(s, pdu) # <<>> /\ Len(s) \in Nat
      /\ \A i \in 1..Len(s) : Append(s, pdu)[i] = s[i]
      /\ Append(s, pdu)[Len(s) + 1] = pdu
  OBVIOUS
<1> QED BY <1>1 DEF IsIn

\* The order of keys, among keys that are used and the chain key they come from.
LEMMA BeforeNext ==
  ASSUME NEW k \in Chain, NEW l \in Chain, NEW m, m = [root |-> l.root, n |-> l.n + 1]
  PROVE  /\ Before(k, l) => Before(k, m)
         /\ Before(l, m)
  BY DEF Before, Chain, Root

LEMMA ChainType == ASSUME NEW k \in Chain PROVE k.n \in Nat /\ k.root \in Root /\ Len(k.root) \in Nat
  BY DEF Chain, Root

LEMMA BeforeOrder ==
  ASSUME NEW k \in Chain, NEW l \in Chain, Before(k, l)
  PROVE  ~Before(l, k) /\ k # l /\ Len(k.root) <= Len(l.root)
  BY ChainType DEF Before

\* The steps that neither send nor print.
LEMMA SameInv ==
  ASSUME Inv, UNCHANGED <<ratchet, sent, printed>>
  PROVE  PartyInv' /\ SentInv' /\ PrintedInv' /\ LastInv' /\ GapsOnlyAtTurnEnds'
<1>1. /\ priv' = priv /\ peer' = peer /\ changed' = changed /\ root' = root /\ chain' = chain
      /\ keys' = keys /\ sent' = sent /\ printed' = printed
  BY DEF ratchet
<1>2. PartyInv'
  BY <1>1 DEF Inv, PartyInv
<1>3. SentInv'
  <2>1. ASSUME NEW p \in Parties, NEW i \in 1..Len(sent'[p])
        PROVE  /\ sent'[p][i].line = i
               /\ sent'[p][i].pub \in 1..keys'
               /\ Len(sent'[p][i].mk.root) > 0
               /\ Own(p, Len(sent'[p][i].mk.root))
               /\ Before(sent'[p][i].mk, chain'[p])
               /\ ~changed'[p] => (sent'[p][i].pub = priv'[p] <=> sent'[p][i].mk.root = root'[p])
               /\ \A j \in 1..Len(sent'[p]) :
                    /\ i < j => Before(sent'[p][i].mk, sent'[p][j].mk)
                    /\ (sent'[p][i].pub = sent'[p][j].pub <=> sent'[p][i].mk.root = sent'[p][j].mk.root)
    <3>1. sent'[p] = sent[p] /\ i \in 1..Len(sent[p])
      BY <1>1
    <3>2. /\ sent[p][i].line = i
          /\ sent[p][i].pub \in 1..keys
          /\ Len(sent[p][i].mk.root) > 0
          /\ Own(p, Len(sent[p][i].mk.root))
          /\ Before(sent[p][i].mk, chain[p])
      BY <3>1 DEF Inv, SentInv
    <3>3. ~changed[p] => (sent[p][i].pub = priv[p] <=> sent[p][i].mk.root = root[p])
      BY <3>1 DEF Inv, SentInv
    <3>4. \A j \in 1..Len(sent[p]) :
            /\ i < j => Before(sent[p][i].mk, sent[p][j].mk)
            /\ (sent[p][i].pub = sent[p][j].pub <=> sent[p][i].mk.root = sent[p][j].mk.root)
      BY <3>1 DEF Inv, SentInv
    <3> QED BY <1>1, <3>1, <3>2, <3>3, <3>4
  <2> QED BY <2>1 DEF SentInv
<1>4. PrintedInv'
  BY <1>1 DEF Inv, PrintedInv
<1>5. LastInv'
  BY <1>1 DEF Inv, LastInv
<1>6. GapsOnlyAtTurnEnds'
  BY <1>1 DEF Inv, GapsOnlyAtTurnEnds
<1> QED BY <1>2, <1>3, <1>4, <1>5, <1>6

LEMMA ExitsInv == ASSUME Inv, TypeOK', NEW p \in Parties, Exits(p) \/ UNCHANGED vars PROVE Inv'
<1>1. UNCHANGED <<ratchet, wire, received, sent, printed>>
  BY DEF Exits, vars
<1>2. WireInv'
  BY <1>1 DEF Inv, WireInv
<1> QED BY <1>1, <1>2, SameInv DEF Inv

LEMMA ReceivePDUInv == ASSUME Inv, TypeOK', NEW p \in Parties, ReceivePDU(p) PROVE Inv'
<1>1. /\ wire[p] # <<>> /\ wire[p][1] # Rest /\ wire[p][1] \in PDU /\ wire[p] \in Seq(PDU)
      /\ received' = [received EXCEPT ![p] = <<wire[p][1]>>]
      /\ UNCHANGED <<ratchet, sent, printed>>
  BY ReceivePDUIs DEF Inv, TypeOK
<1>2. IsIn(wire[p][1], sent[Peer(p)])
  <2>1. 1 \in 1..Len(wire[p])
    BY <1>1
  <2> QED BY <1>1, <2>1 DEF Inv, WireInv
<1>3. PICK w \in Seq(PDU) :
        /\ wire' = [wire EXCEPT ![p] = w]
        /\ \A i \in 1..Len(w) : w[i] = Rest \/ \E j \in 1..Len(wire[p]) : w[i] = wire[p][j]
  BY ReceivePDUIs DEF Inv
<1>4. \A i \in 1..Len(w) : w[i] = Rest \/ IsIn(w[i], sent[Peer(p)])
  BY <1>3 DEF Inv, WireInv
<1>5. ASSUME NEW q \in Parties
      PROVE  /\ \A i \in 1..Len(wire'[q]) : wire'[q][i] = Rest \/ IsIn(wire'[q][i], sent[Peer(q)])
             /\ \A i \in 1..Len(received'[q]) : IsIn(received'[q][i], sent[Peer(q)])
  <2>1. CASE q = p
    <3>1. wire'[q] = w /\ received'[q] = <<wire[p][1]>>
      BY <1>1, <1>3, <2>1 DEF Inv, TypeOK
    <3>2. \A i \in 1..Len(<<wire[p][1]>>) : <<wire[p][1]>>[i] = wire[p][1]
      BY <1>1
    <3> QED BY <1>2, <1>4, <2>1, <3>1, <3>2
  <2>2. CASE q # p
    <3>1. wire'[q] = wire[q] /\ received'[q] = received[q]
      BY <1>1, <1>3, <2>2 DEF Inv, TypeOK
    <3> QED BY <3>1 DEF Inv, WireInv
  <2> QED BY <2>1, <2>2
<1>6. WireInv'
  BY <1>1, <1>5, PeerPeer DEF WireInv
<1> QED BY <1>1, <1>6, SameInv DEF Inv

\* What a line is sent with is the party's own, follows all that the party has used,
\* and shares its public key with what shares its root.
LEMMA SendKeysFresh ==
  ASSUME Inv, NEW p \in Parties, root[p] # <<>>
  PROVE  LET own == SendKeys(p).own
             rk == SendKeys(p).rk
         IN /\ own \in Nat /\ rk.chain \in Chain /\ rk.chain.root = rk.root
            /\ own \in 1..(IF changed[p] THEN keys + 1 ELSE keys)
            /\ Len(rk.root) > 0 /\ Own(p, Len(rk.root))
            /\ \A k \in Chain : Before(k, chain[p]) => Before(k, rk.chain)
            /\ \A i \in 1..Len(sent[p]) : sent[p][i].pub = own <=> sent[p][i].mk.root = rk.root
<1> DEFINE own == SendKeys(p).own
           rk == SendKeys(p).rk
<1>0. TypeOK /\ PartyInv /\ SentInv
  BY DEF Inv
<1>1. own \in Nat /\ rk.chain \in Chain
  BY <1>0, SendKeysType
<1>2. Len(root[p]) \in Nat \ {0} /\ keys \in Nat /\ chain[p].root = root[p]
  BY <1>0, StateType DEF PartyInv, Root
<1>3. CASE changed[p]
  <2>1. own = keys + 1 /\ rk = KDF_RK(root[p], DH(keys + 1, peer[p]))
    BY <1>3 DEF SendKeys
  <2> HIDE DEF own, rk
  <2>2. rk.root = Append(root[p], {keys + 1, peer[p]}) /\ rk.chain = [root |-> rk.root, n |-> 0]
    <3>1. root[p] \in Root /\ keys + 1 \in Nat /\ peer[p] \in Nat
      BY <1>0, StateType
    <3> QED BY <2>1, <3>1, KDF_RKType
  <2>3. Len(rk.root) = Len(root[p]) + 1
    BY <1>0, <2>2, StateType DEF Root
  <2>4. Own(p, Len(rk.root))
    BY <1>0, <1>2, <1>3, <2>3, OwnAlternates DEF PartyInv
  <2>5. \A k \in Chain : Before(k, chain[p]) => Len(k.root) <= Len(root[p]) /\ Len(k.root) \in Nat
    BY <1>2 DEF Before, Chain, Root
  <2>6. \A k \in Chain : Before(k, chain[p]) => Before(k, rk.chain) /\ k.root # rk.root
    BY <1>2, <2>2, <2>3, <2>5 DEF Before
  <2>7. ASSUME NEW i \in 1..Len(sent[p]) PROVE sent[p][i].pub # own /\ sent[p][i].mk.root # rk.root
    <3>1. sent[p][i].pub \in 1..keys /\ Before(sent[p][i].mk, chain[p]) /\ sent[p][i] \in PDU
      BY <1>0, StateType DEF SentInv
    <3> QED BY <1>2, <2>1, <2>6, <3>1, PDUType
  <2> QED BY <1>1, <1>2, <1>3, <2>1, <2>2, <2>3, <2>4, <2>6, <2>7 DEF own, rk
<1>4. CASE ~changed[p]
  <2>1. own = priv[p] /\ rk.root = root[p] /\ rk.chain = chain[p]
    BY <1>4 DEF SendKeys
  <2> HIDE DEF own, rk
  <2>2. priv[p] \in 1..keys /\ Own(p, Len(root[p]))
    BY <1>0, <1>2, <1>4 DEF PartyInv
  <2>3. \A i \in 1..Len(sent[p]) : sent[p][i].pub = priv[p] <=> sent[p][i].mk.root = root[p]
    BY <1>0, <1>4 DEF SentInv
  <2> QED BY <1>1, <1>2, <1>4, <2>1, <2>2, <2>3 DEF own, rk
<1> QED BY <1>3, <1>4

LEMMA SendLineInv == ASSUME Inv, TypeOK', NEW p \in Parties, SendLine(p) PROVE Inv'
<1> DEFINE q == Peer(p)
           own == SendKeys(p).own
           rk == SendKeys(p).rk
           pdu == [pub |-> own, mk |-> rk.chain, line |-> Len(sent[p]) + 1, after |-> LastPrinted(p)]
           next == [root |-> rk.chain.root, n |-> rk.chain.n + 1]
           n == Len(sent[p])
<1>0. /\ TypeOK /\ PartyInv /\ SentInv /\ WireInv /\ PrintedInv /\ LastInv /\ GapsOnlyAtTurnEnds
      /\ q \in Parties /\ q # p /\ Parties = {p, q} /\ Peer(q) = p
  BY PeerIs DEF Inv, Parties
<1>1. /\ own \in Nat /\ rk.chain \in Chain /\ rk.chain.root = rk.root
      /\ own \in 1..(IF changed[p] THEN keys + 1 ELSE keys)
      /\ Len(rk.root) > 0 /\ Own(p, Len(rk.root))
      /\ \A k \in Chain : Before(k, chain[p]) => Before(k, rk.chain)
      /\ \A i \in 1..n : sent[p][i].pub = own <=> sent[p][i].mk.root = rk.root
  BY SendKeysFresh DEF SendLine
<1>2. /\ pdu \in PDU /\ next \in Chain
      /\ priv' = [priv EXCEPT ![p] = own]
      /\ keys' = IF changed[p] THEN keys + 1 ELSE keys
      /\ changed' = [changed EXCEPT ![p] = FALSE]
      /\ root' = [root EXCEPT ![p] = rk.root]
      /\ chain' = [chain EXCEPT ![p] = next]
      /\ wire' = [wire EXCEPT ![q] = Append(@, pdu)]
      /\ sent' = [sent EXCEPT ![p] = Append(@, pdu)]
      /\ UNCHANGED <<up, peer, received, printed>>
  BY <1>0, SendLineIs
<1>3. pdu.pub = own /\ pdu.mk = rk.chain /\ pdu.line = n + 1 /\ pdu.after = LastPrinted(p)
  OBVIOUS
<1>4. next.root = rk.root /\ \A k \in Chain : Before(k, rk.chain) => Before(k, next)
  BY <1>1, BeforeNext
<1>5. Before(rk.chain, next)
  BY <1>1, BeforeNext
<1> HIDE DEF q, own, rk, pdu, next
\* What the step makes of each party's state.
<1>6. /\ priv'[p] = own /\ ~changed'[p] /\ root'[p] = rk.root /\ chain'[p] = next
      /\ priv'[q] = priv[q] /\ changed'[q] = changed[q] /\ root'[q] = root[q] /\ chain'[q] = chain[q]
      /\ sent'[p] = Append(sent[p], pdu) /\ sent'[q] = sent[q]
      /\ wire'[q] = Append(wire[q], pdu) /\ wire'[p] = wire[p]
      /\ keys \in Nat /\ keys' \in Nat /\ keys <= keys' /\ own \in 1..keys'
      /\ UNCHANGED <<peer, received, printed>>
  BY <1>0, <1>1, <1>2 DEF TypeOK
<1>7. /\ n \in Nat /\ Len(sent'[p]) = n + 1 /\ sent'[p][n + 1] = pdu
      /\ \A i \in 1..n : sent'[p][i] = sent[p][i] /\ sent[p][i] \in PDU
      /\ \A d : IsIn(d, sent[p]) => IsIn(d, sent'[p])
      /\ IsIn(pdu, sent'[p])
  BY <1>0, <1>2, <1>6, AppendIs, StateType
<1> HIDE DEF n
<1>8. PartyInv'
  <2>1. ASSUME NEW r \in Parties
        PROVE  /\ chain'[r].root = root'[r] /\ priv'[r] \in 1..keys'
               /\ peer'[r] = 0 => changed'[r] /\ root'[r] = <<>>
               /\ root'[r] # <<>> => (changed'[r] <=> ~Own(r, Len(root'[r])))
    <3>1. CASE r = p
      <4>1. peer[p] # 0
        BY <1>0 DEF PartyInv, SendLine
      <4> QED BY <1>1, <1>4, <1>6, <3>1, <4>1
    <3>2. CASE r = q
      BY <1>0, <1>6, <3>2, StateType DEF PartyInv
    <3> QED BY <1>0, <3>1, <3>2
  <2> QED BY <2>1 DEF PartyInv
<1>9. SentInv'
  <2>1. ASSUME NEW i \in 1..(n + 1), NEW j \in 1..(n + 1), i < j
        PROVE  Before(sent'[p][i].mk, sent'[p][j].mk)
    <3>1. i \in 1..n /\ sent'[p][i] = sent[p][i]
      BY <1>7, <2>1
    <3>2. CASE j \in 1..n
      BY <1>0, <1>7, <2>1, <3>1, <3>2 DEF SentInv, n
    <3>3. CASE j = n + 1
      <4>1. Before(sent[p][i].mk, chain[p]) /\ sent[p][i].mk \in Chain
        BY <1>0, <1>7, <3>1, PDUType DEF SentInv, n
      <4> QED BY <1>1, <1>3, <1>7, <3>1, <3>3, <4>1
    <3> QED BY <1>7, <3>2, <3>3
  <2>2. ASSUME NEW i \in 1..(n + 1), NEW j \in 1..(n + 1)
        PROVE  sent'[p][i].pub = sent'[p][j].pub <=> sent'[p][i].mk.root = sent'[p][j].mk.root
    <3>1. CASE i \in 1..n /\ j \in 1..n
      <4>1. sent[p][i].pub = sent[p][j].pub <=> sent[p][i].mk.root = sent[p][j].mk.root
        BY <1>0, <3>1 DEF SentInv, n
      <4> QED BY <1>7, <3>1, <4>1
    <3>2. ASSUME NEW k \in 1..n PROVE sent'[p][k].pub = own <=> sent'[p][k].mk.root = rk.root
      <4>1. sent[p][k].pub = own <=> sent[p][k].mk.root = rk.root
        BY <1>1, <3>2 DEF n
      <4> QED BY <1>7, <4>1
    <3>3. sent'[p][n + 1].pub = own /\ sent'[p][n + 1].mk.root = rk.root
      BY <1>1, <1>3, <1>7
    <3> QED BY <1>7, <3>1, <3>2, <3>3
  <2>3. ASSUME NEW i \in 1..(n + 1)
        PROVE  /\ sent'[p][i].line = i /\ sent'[p][i].pub \in 1..keys'
               /\ Len(sent'[p][i].mk.root) > 0 /\ Own(p, Len(sent'[p][i].mk.root))
               /\ Before(sent'[p][i].mk, chain'[p])
               /\ sent'[p][i].pub = priv'[p] <=> sent'[p][i].mk.root = root'[p]
    <3>1. CASE i \in 1..n
      <4>1. /\ sent[p][i].line = i /\ sent[p][i].pub \in 1..keys /\ sent[p][i].mk \in Chain
            /\ Len(sent[p][i].mk.root) > 0 /\ Own(p, Len(sent[p][i].mk.root))
            /\ Before(sent[p][i].mk, chain[p])
        BY <1>0, <1>7, <3>1, PDUType DEF SentInv, n
      <4>2. Before(sent[p][i].mk, next)
        BY <1>1, <1>4, <4>1
      <4>3. sent[p][i].pub = own <=> sent[p][i].mk.root = rk.root
        BY <1>1, <3>1 DEF n
      <4> QED BY <1>6, <1>7, <3>1, <4>1, <4>2, <4>3
    <3>2. CASE i = n + 1
      BY <1>1, <1>3, <1>5, <1>6, <1>7, <3>2
    <3> QED BY <1>7, <3>1, <3>2
  <2>4. ASSUME NEW i \in 1..Len(sent[q])
        PROVE  /\ sent[q][i].line = i /\ sent[q][i].pub \in 1..keys'
               /\ Len(sent[q][i].mk.root) > 0 /\ Own(q, Len(sent[q][i].mk.root))
               /\ Before(sent[q][i].mk, chain[q])
               /\ ~changed[q] => (sent[q][i].pub = priv[q] <=> sent[q][i].mk.root = root[q])
               /\ \A j \in 1..Len(sent[q]) :
                    /\ i < j => Before(sent[q][i].mk, sent[q][j].mk)
                    /\ (sent[q][i].pub = sent[q][j].pub <=> sent[q][i].mk.root = sent[q][j].mk.root)
    <3>1. sent[q][i].pub \in 1..keys'
      BY <1>0, <1>6 DEF SentInv
    <3> QED BY <1>0, <3>1 DEF SentInv
  <2>5. ASSUME NEW r \in Parties, NEW i \in 1..Len(sent'[r])
        PROVE  /\ sent'[r][i].line = i
               /\ sent'[r][i].pub \in 1..keys'
               /\ Len(sent'[r][i].mk.root) > 0
               /\ Own(r, Len(sent'[r][i].mk.root))
               /\ Before(sent'[r][i].mk, chain'[r])
               /\ ~changed'[r] => (sent'[r][i].pub = priv'[r] <=> sent'[r][i].mk.root = root'[r])
               /\ \A j \in 1..Len(sent'[r]) :
                    /\ i < j => Before(sent'[r][i].mk, sent'[r][j].mk)
                    /\ (sent'[r][i].pub = sent'[r][j].pub <=> sent'[r][i].mk.root = sent'[r][j].mk.root)
    <3>1. CASE r = p
      BY <1>7, <2>1, <2>2, <2>3, <3>1
    <3>2. CASE r = q
      <4>1. /\ sent'[r] = sent[q] /\ changed'[r] = changed[q] /\ priv'[r] = priv[q] /\ root'[r] = root[q]
            /\ chain'[r] = chain[q] /\ i \in 1..Len(sent[q])
        BY <1>6, <3>2
      <4> QED BY <2>4, <3>2, <4>1
    <3> QED BY <1>0, <3>1, <3>2
  <2> QED BY <2>5 DEF SentInv
<1>10. WireInv'
  <2>1. ASSUME NEW r \in Parties
        PROVE  /\ \A i \in 1..Len(wire'[r]) : wire'[r][i] = Rest \/ IsIn(wire'[r][i], sent'[Peer(r)])
               /\ \A i \in 1..Len(received'[r]) : IsIn(received'[r][i], sent'[Peer(r)])
    <3>1. CASE r = p
      BY <1>0, <1>6, <3>1 DEF WireInv, q
    <3>2. CASE r = q
      <4>1. /\ Len(wire'[q]) = Len(wire[q]) + 1 /\ Len(wire[q]) \in Nat /\ wire'[q][Len(wire[q]) + 1] = pdu
            /\ \A i \in 1..Len(wire[q]) : wire'[q][i] = wire[q][i]
        BY <1>0, <1>2, <1>6, AppendIs DEF TypeOK
      <4>2. \A i \in 1..Len(wire[q]) : wire[q][i] = Rest \/ IsIn(wire[q][i], sent'[p])
        BY <1>0, <1>7 DEF WireInv
      <4>3. \A i \in 1..Len(received[q]) : IsIn(received[q][i], sent'[p])
        BY <1>0, <1>7 DEF WireInv
      <4>4. \A i \in 1..Len(wire'[q]) : wire'[q][i] = Rest \/ IsIn(wire'[q][i], sent'[p])
        BY <1>7, <4>1, <4>2
      <4>5. received' = received /\ Peer(r) = p
        BY <1>0, <1>6, <3>2
      <4> QED BY <3>2, <4>3, <4>4, <4>5
    <3> QED BY <1>0, <3>1, <3>2
  <2> QED BY <2>1 DEF WireInv
<1>11. PrintedInv'
  <2>1. ASSUME NEW j \in 1..Len(printed[p]), NEW i \in 1..(n + 1),
               Len(printed[p][j].mk.root) < Len(sent'[p][i].mk.root)
        PROVE  printed[p][j].line <= sent'[p][i].after
    <3>1. CASE i \in 1..n
      BY <1>0, <1>7, <2>1, <3>1 DEF PrintedInv, n
    <3>2. CASE i = n + 1
      <4> DEFINE m == Len(printed[p])
      <4>1. m \in Nat /\ m >= j /\ m \in 1..m /\ printed[p] # <<>>
        BY <1>0, StateType
      <4>2. LastPrinted(p) = printed[p][m].line
        BY <4>1 DEF LastPrinted
      <4>3. j < m => printed[p][j].line < printed[p][m].line
        BY <1>0, <4>1 DEF GapsOnlyAtTurnEnds
      <4>4. printed[p][j].line \in Nat /\ printed[p][m].line \in Nat
        BY <1>0, <4>1, StateType, PDUType
      <4> HIDE DEF m
      <4>5. printed[p][j].line <= printed[p][m].line
        BY <4>1, <4>3, <4>4
      <4> QED BY <1>3, <1>7, <3>2, <4>2, <4>5
    <3> QED BY <1>7, <3>1, <3>2
  <2>2. \A j \in 1..Len(printed[p]) : Before(printed[p][j].mk, next) /\ IsIn(printed[p][j], sent[q])
    <3>1. ASSUME NEW j \in 1..Len(printed[p]) PROVE Before(printed[p][j].mk, next)
      <4>1. Before(printed[p][j].mk, chain[p]) /\ printed[p][j].mk \in Chain
        BY <1>0, StateType, PDUType DEF PrintedInv
      <4> QED BY <1>1, <1>4, <4>1
    <3> QED BY <1>0, <3>1 DEF PrintedInv, q
  <2>3. ASSUME NEW r \in Parties, NEW j \in 1..Len(printed'[r])
        PROVE  /\ IsIn(printed'[r][j], sent'[Peer(r)])
               /\ Before(printed'[r][j].mk, chain'[r])
               /\ \A i \in 1..Len(sent'[r]) : Len(printed'[r][j].mk.root) < Len(sent'[r][i].mk.root)
                                               => printed'[r][j].line <= sent'[r][i].after
    <3>1. CASE r = p
      BY <1>6, <1>7, <2>1, <2>2, <3>1 DEF q
    <3>2. CASE r = q
      BY <1>0, <1>6, <1>7, <3>2 DEF PrintedInv
    <3> QED BY <1>0, <3>1, <3>2
  <2> QED BY <2>3 DEF PrintedInv
<1>12. LastInv'
  BY <1>0, <1>6 DEF LastInv
<1>13. GapsOnlyAtTurnEnds'
  <2>1. ASSUME NEW j \in 1..Len(printed[q]) PROVE printed[q][j].line <= n
    <3>1. PICK i \in 1..n : sent[p][i] = printed[q][j]
      BY <1>0 DEF PrintedInv, IsIn, n
    <3>2. sent[p][i].line = i
      BY <1>0 DEF SentInv, n
    <3> QED BY <1>7, <3>1, <3>2
  <2>2. ASSUME NEW r \in Parties, NEW j \in 1..Len(printed[r]), NEW i \in 1..Len(sent'[Peer(r)]),
               sent'[Peer(r)][i].pub = printed[r][j].pub, sent'[Peer(r)][i].line <= printed[r][j].line
        PROVE  \E k \in 1..Len(printed[r]) : printed[r][k] = sent'[Peer(r)][i]
    <3>1. CASE r = p
      <4>1. Peer(r) = q /\ sent'[Peer(r)] = sent[q]
        BY <1>6, <3>1 DEF q
      <4> QED BY <1>0, <2>2, <3>1, <4>1 DEF GapsOnlyAtTurnEnds
    <3>2. CASE r = q
      <4>1. Peer(r) = p /\ i \in 1..(n + 1)
        BY <1>0, <1>7, <3>2
      <4>2. i # n + 1
        <5>1. printed[q][j].line <= n /\ sent'[p][i].line <= printed[q][j].line
          BY <1>0, <2>1, <2>2, <3>2
        <5>2. printed[q][j].line \in Nat
          BY <1>0, <2>2, <3>2, StateType, PDUType
        <5> QED BY <1>3, <1>7, <5>1, <5>2
      <4>3. i \in 1..n /\ sent'[p][i] = sent[p][i]
        BY <1>7, <4>1, <4>2
      <4>4. i \in 1..Len(sent[Peer(q)]) /\ sent[Peer(q)][i] = sent'[Peer(r)][i]
        BY <1>0, <4>1, <4>3 DEF n
      <4> QED BY <1>0, <2>2, <3>2, <4>4 DEF GapsOnlyAtTurnEnds
    <3> QED BY <1>0, <3>1, <3>2
  <2>3. \A r \in Parties : \A j, k \in 1..Len(printed[r]) : k < j => printed[r][k].line < printed[r][j].line
    BY <1>0 DEF GapsOnlyAtTurnEnds
  <2> QED BY <1>6, <2>2, <2>3 DEF GapsOnlyAtTurnEnds
<1> QED BY <1>8, <1>9, <1>10, <1>11, <1>12, <1>13 DEF Inv

\* What a PDU is received with is the peer's, and follows all that the party has used.
LEMMA ReceiveKeysFresh ==
  ASSUME Inv, NEW p \in Parties, NEW pdu \in PDU, IsIn(pdu, sent[Peer(p)]),
         pdu.mk = ReceiveKeys(p, pdu).chain
  PROVE  LET rk == ReceiveKeys(p, pdu)
         IN /\ rk.chain \in Chain /\ rk.chain.root = rk.root /\ rk.root \in Root
            /\ Len(rk.root) > 0 /\ ~Own(p, Len(rk.root)) /\ Len(root[p]) <= Len(rk.root)
            /\ \A k \in Chain : Before(k, chain[p]) => Before(k, rk.chain)
            /\ changed[p] \/ (PeerKeyIsNew(p, pdu) /\ peer[p] # 0)
            /\ PeerKeyIsNew(p, pdu) => pdu.mk.n = 0
            /\ ~PeerKeyIsNew(p, pdu) => changed[p] /\ root[p] # <<>> /\ pdu.mk = chain[p]
<1> DEFINE rk == ReceiveKeys(p, pdu)
<1>0. TypeOK /\ PartyInv /\ SentInv /\ Peer(p) \in Parties
  BY PeerPeer DEF Inv
<1>1. rk.chain \in Chain /\ rk.root \in Root
  BY <1>0, ReceiveKeysType
<1>2. Len(root[p]) \in Nat /\ chain[p].root = root[p] /\ chain[p] \in Chain
  BY <1>0, StateType DEF PartyInv
<1>3. Len(pdu.mk.root) > 0 /\ Own(Peer(p), Len(pdu.mk.root)) /\ Len(pdu.mk.root) \in Nat
  BY <1>0, PDUType DEF IsIn, SentInv
<1>4. ~Own(p, Len(pdu.mk.root))
  BY <1>3, OwnAlternates
<1>5. CASE PeerKeyIsNew(p, pdu)
  <2>1. rk = KDF_RK(root[p], DH(priv[p], pdu.pub))
    BY <1>5 DEF ReceiveKeys
  <2>2. rk.root = Append(root[p], {priv[p], pdu.pub}) /\ rk.chain = [root |-> rk.root, n |-> 0]
    <3>1. root[p] \in Root /\ priv[p] \in Nat /\ pdu.pub \in Nat
      BY <1>0, StateType, PDUType
    <3> HIDE DEF rk
    <3> QED BY <2>1, <3>1, KDF_RKType
  <2> HIDE DEF rk
  <2>3. Len(rk.root) = Len(root[p]) + 1
    BY <1>0, <2>2, StateType DEF Root
  <2>4. \A k \in Chain : Before(k, chain[p]) => Before(k, rk.chain)
    BY <1>2, <2>2, <2>3 DEF Before, Chain, Root
  <2>5. peer[p] = 0 => changed[p]
    BY <1>0 DEF PartyInv
  <2>6. pdu.mk = rk.chain
    BY DEF rk
  <2>7. pdu.mk.root = rk.root /\ pdu.mk.n = 0
    BY <2>2, <2>6
  <2>8. ~Own(p, Len(rk.root)) /\ Len(rk.root) > 0 /\ Len(root[p]) <= Len(rk.root)
    BY <1>2, <1>3, <1>4, <2>3, <2>7
  <2>9. rk.chain.root = rk.root
    BY <2>2
  <2> QED BY <1>1, <1>5, <2>4, <2>5, <2>7, <2>8, <2>9 DEF rk
<1>6. CASE ~PeerKeyIsNew(p, pdu)
  <2>1. rk.root = root[p] /\ rk.chain = chain[p] /\ pdu.mk = chain[p]
    BY <1>6 DEF ReceiveKeys
  <2>2. root[p] # <<>>
    BY <1>2, <1>3, <2>1
  <2>3. changed[p]
    BY <1>0, <1>2, <1>4, <2>1, <2>2 DEF PartyInv
  <2> HIDE DEF rk
  <2> QED BY <1>1, <1>2, <1>3, <1>4, <1>6, <2>1, <2>2, <2>3 DEF rk
<1> QED BY <1>5, <1>6

LEMMA HandlePDUInv == ASSUME Inv, TypeOK', NEW p \in Parties, HandlePDU(p), ~Die(p) PROVE Inv'
<1> DEFINE q == Peer(p)
           pdu == received[p][1]
           new == PeerKeyIsNew(p, pdu)
           rk == ReceiveKeys(p, pdu)
           next == [root |-> rk.chain.root, n |-> rk.chain.n + 1]
           m == Len(printed[p])
<1>0. /\ TypeOK /\ PartyInv /\ SentInv /\ WireInv /\ PrintedInv /\ LastInv /\ GapsOnlyAtTurnEnds
      /\ q \in Parties /\ q # p /\ Parties = {p, q} /\ Peer(q) = p
  BY PeerIs DEF Inv, Parties
<1>1. /\ received[p] # <<>> /\ pdu \in PDU /\ pdu.mk = rk.chain /\ next \in Chain
      /\ peer' = [peer EXCEPT ![p] = pdu.pub]
      /\ changed' = [changed EXCEPT ![p] = @ \/ (new /\ peer[p] # 0)]
      /\ root' = [root EXCEPT ![p] = rk.root]
      /\ chain' = [chain EXCEPT ![p] = next]
      /\ received' = [received EXCEPT ![p] = <<>>]
      /\ printed' = [printed EXCEPT ![p] = Append(@, pdu)]
      /\ UNCHANGED <<up, priv, keys, wire, sent, disturbed>>
  BY <1>0, HandlePDUIs
<1>2. IsIn(pdu, sent[q])
  <2>1. 1 \in 1..Len(received[p])
    BY <1>0, <1>1 DEF TypeOK
  <2> QED BY <1>0, <2>1 DEF WireInv
<1>3. /\ rk.chain \in Chain /\ rk.chain.root = rk.root /\ rk.root \in Root
      /\ Len(rk.root) > 0 /\ ~Own(p, Len(rk.root)) /\ Len(root[p]) <= Len(rk.root)
      /\ \A k \in Chain : Before(k, chain[p]) => Before(k, rk.chain)
      /\ changed[p] \/ (new /\ peer[p] # 0)
      /\ new => pdu.mk.n = 0
      /\ ~new => changed[p] /\ root[p] # <<>> /\ pdu.mk = chain[p]
  BY <1>1, <1>2, ReceiveKeysFresh
<1>4. /\ next.root = rk.root /\ next.n = rk.chain.n + 1 /\ Before(rk.chain, next)
      /\ \A k \in Chain : Before(k, rk.chain) => Before(k, next)
  BY <1>3, BeforeNext
<1> HIDE DEF q, pdu, new, rk, next
\* What the step makes of each party's state.
<1>5. /\ peer'[p] = pdu.pub /\ changed'[p] /\ root'[p] = rk.root /\ chain'[p] = next
      /\ received'[p] = <<>> /\ printed'[p] = Append(printed[p], pdu)
      /\ peer'[q] = peer[q] /\ changed'[q] = changed[q] /\ root'[q] = root[q] /\ chain'[q] = chain[q]
      /\ received'[q] = received[q] /\ printed'[q] = printed[q]
      /\ priv' = priv /\ keys' = keys /\ wire' = wire /\ sent' = sent
  BY <1>0, <1>1, <1>3 DEF TypeOK
<1>6. /\ m \in Nat /\ Len(printed'[p]) = m + 1 /\ printed'[p][m + 1] = pdu /\ printed'[p] # <<>>
      /\ \A j \in 1..m : printed'[p][j] = printed[p][j] /\ printed[p][j] \in PDU
  BY <1>0, <1>1, <1>5, AppendIs, StateType
<1> HIDE DEF m
\* The PDU is the peer's line l.
<1>7. PICK l \in 1..Len(sent[q]) : sent[q][l] = pdu
  BY <1>2 DEF IsIn
<1>8. /\ pdu.line = l /\ pdu.pub \in 1..keys /\ pdu.mk \in Chain /\ Len(sent[q]) \in Nat
      /\ \A i \in 1..Len(sent[q]) :
           /\ sent[q][i].line = i /\ sent[q][i].mk \in Chain
           /\ i < l => Before(sent[q][i].mk, pdu.mk)
           /\ l < i => Before(pdu.mk, sent[q][i].mk)
           /\ sent[q][i].pub = pdu.pub <=> sent[q][i].mk.root = pdu.mk.root
  BY <1>0, <1>1, <1>7, StateType, PDUType DEF SentInv
<1>9. \A j \in 1..m : /\ printed[p][j].mk \in Chain /\ printed[p][j].line \in Nat
                      /\ Before(printed[p][j].mk, chain[p]) /\ IsIn(printed[p][j], sent[q])
                      /\ Before(printed[p][j].mk, pdu.mk)
  BY <1>0, <1>1, <1>3, StateType, PDUType DEF PrintedInv, m, q
<1>10. ASSUME NEW j \in 1..m PROVE printed[p][j].line < l
  <2>1. PICK i \in 1..Len(sent[q]) : sent[q][i] = printed[p][j]
    BY <1>9 DEF IsIn
  <2>2. Before(sent[q][i].mk, pdu.mk) /\ sent[q][i].mk \in Chain /\ sent[q][i].line = i
    BY <1>8, <1>9, <2>1
  <2>3. ~Before(pdu.mk, sent[q][i].mk) /\ pdu.mk # sent[q][i].mk
    BY <1>8, <2>2, BeforeOrder
  <2> QED BY <1>7, <1>8, <2>1, <2>2, <2>3
<1>11. PartyInv'
  <2>1. ASSUME NEW r \in Parties
        PROVE  /\ chain'[r].root = root'[r] /\ priv'[r] \in 1..keys'
               /\ peer'[r] = 0 => changed'[r] /\ root'[r] = <<>>
               /\ root'[r] # <<>> => (changed'[r] <=> ~Own(r, Len(root'[r])))
    <3>1. CASE r = p
      <4>1. priv[p] \in 1..keys /\ pdu.pub # 0
        <5>1. keys \in Nat
          BY <1>0 DEF TypeOK
        <5> QED BY <1>0, <1>8, <5>1 DEF PartyInv
      <4> QED BY <1>3, <1>4, <1>5, <3>1, <4>1
    <3>2. CASE r = q
      BY <1>0, <1>5, <3>2, StateType DEF PartyInv
    <3> QED BY <1>0, <3>1, <3>2
  <2> QED BY <2>1 DEF PartyInv
<1>12. SentInv'
  <2>1. ASSUME NEW r \in Parties, NEW i \in 1..Len(sent[r])
        PROVE  Before(sent[r][i].mk, chain'[r]) /\ (~changed'[r] => ~changed[r] /\ root'[r] = root[r])
    <3>1. Before(sent[r][i].mk, chain[r]) /\ sent[r][i].mk \in Chain
      BY <1>0, StateType, PDUType DEF SentInv
    <3>2. CASE r = p
      BY <1>3, <1>4, <1>5, <3>1, <3>2
    <3>3. CASE r = q
      BY <1>5, <3>1, <3>3
    <3> QED BY <1>0, <3>2, <3>3
  <2>2. ASSUME NEW r \in Parties, NEW i \in 1..Len(sent'[r])
        PROVE  /\ sent'[r][i].line = i
               /\ sent'[r][i].pub \in 1..keys'
               /\ Len(sent'[r][i].mk.root) > 0
               /\ Own(r, Len(sent'[r][i].mk.root))
               /\ Before(sent'[r][i].mk, chain'[r])
               /\ ~changed'[r] => (sent'[r][i].pub = priv'[r] <=> sent'[r][i].mk.root = root'[r])
               /\ \A j \in 1..Len(sent'[r]) :
                    /\ i < j => Before(sent'[r][i].mk, sent'[r][j].mk)
                    /\ (sent'[r][i].pub = sent'[r][j].pub <=> sent'[r][i].mk.root = sent'[r][j].mk.root)
    <3>1. sent'[r] = sent[r] /\ i \in 1..Len(sent[r]) /\ priv'[r] = priv[r] /\ keys' = keys
      BY <1>5
    <3>2. /\ sent[r][i].line = i
          /\ sent[r][i].pub \in 1..keys
          /\ Len(sent[r][i].mk.root) > 0
          /\ Own(r, Len(sent[r][i].mk.root))
          /\ \A j \in 1..Len(sent[r]) :
               /\ i < j => Before(sent[r][i].mk, sent[r][j].mk)
               /\ (sent[r][i].pub = sent[r][j].pub <=> sent[r][i].mk.root = sent[r][j].mk.root)
      BY <1>0, <3>1 DEF SentInv
    <3>3. ~changed[r] => (sent[r][i].pub = priv[r] <=> sent[r][i].mk.root = root[r])
      BY <1>0, <3>1 DEF SentInv
    <3>4. Before(sent[r][i].mk, chain'[r]) /\ (~changed'[r] => ~changed[r] /\ root'[r] = root[r])
      BY <2>1, <3>1
    <3> QED BY <3>1, <3>2, <3>3, <3>4
  <2> QED BY <2>2 DEF SentInv
<1>13. WireInv'
  <2>1. ASSUME NEW r \in Parties
        PROVE  /\ \A i \in 1..Len(wire'[r]) : wire'[r][i] = Rest \/ IsIn(wire'[r][i], sent'[Peer(r)])
               /\ \A i \in 1..Len(received'[r]) : IsIn(received'[r][i], sent'[Peer(r)])
    <3>1. wire'[r] = wire[r] /\ sent' = sent /\ (received'[r] = received[r] \/ received'[r] = <<>>)
      BY <1>0, <1>5
    <3> QED BY <1>0, <3>1 DEF WireInv
  <2> QED BY <2>1 DEF WireInv
<1>14. PrintedInv'
  <2>1. ASSUME NEW j \in 1..(m + 1)
        PROVE  /\ IsIn(printed'[p][j], sent[q])
               /\ Before(printed'[p][j].mk, next)
               /\ \A i \in 1..Len(sent[p]) : Len(printed'[p][j].mk.root) < Len(sent[p][i].mk.root)
                                              => printed'[p][j].line <= sent[p][i].after
    <3>1. CASE j \in 1..m
      <4>1. Before(printed[p][j].mk, next)
        BY <1>3, <1>4, <1>9, <3>1
      <4> QED BY <1>0, <1>6, <1>9, <3>1, <4>1 DEF PrintedInv, m
    <3>2. CASE j = m + 1
      <4>1. ASSUME NEW i \in 1..Len(sent[p]) PROVE ~(Len(pdu.mk.root) < Len(sent[p][i].mk.root))
        <5>1. Before(sent[p][i].mk, chain[p]) /\ sent[p][i].mk \in Chain /\ chain[p].root = root[p]
          BY <1>0, StateType, PDUType DEF SentInv, PartyInv
        <5>2. Len(sent[p][i].mk.root) <= Len(root[p])
          <6>1. chain[p] \in Chain
            BY <1>0, StateType
          <6> QED BY <5>1, <6>1, BeforeOrder
        <5>3. pdu.mk.root = rk.root /\ Len(rk.root) \in Nat /\ Len(root[p]) \in Nat
              /\ Len(sent[p][i].mk.root) \in Nat
          <6>1. Len(root[p]) \in Nat /\ Len(sent[p][i].mk.root) \in Nat
            BY <1>0, <5>1, StateType, ChainType
          <6>2. Len(rk.chain.root) \in Nat
            BY <1>3, ChainType
          <6> QED BY <1>1, <1>3, <6>1, <6>2
        <5> QED BY <1>3, <5>2, <5>3
      <4> QED BY <1>1, <1>2, <1>4, <1>6, <3>2, <4>1
    <3> QED BY <1>6, <3>1, <3>2
  <2>2. ASSUME NEW r \in Parties, NEW j \in 1..Len(printed'[r])
        PROVE  /\ IsIn(printed'[r][j], sent'[Peer(r)])
               /\ Before(printed'[r][j].mk, chain'[r])
               /\ \A i \in 1..Len(sent'[r]) : Len(printed'[r][j].mk.root) < Len(sent'[r][i].mk.root)
                                               => printed'[r][j].line <= sent'[r][i].after
    <3>1. CASE r = p
      BY <1>5, <1>6, <2>1, <3>1 DEF q
    <3>2. CASE r = q
      BY <1>0, <1>5, <3>2 DEF PrintedInv
    <3> QED BY <1>0, <3>1, <3>2
  <2> QED BY <2>2 DEF PrintedInv
<1>15. LastInv'
  <2>1. ASSUME NEW r \in Parties, changed'[r], root'[r] # <<>>
        PROVE  /\ printed'[r] # <<>>
               /\ printed'[r][Len(printed'[r])].mk.root = root'[r]
               /\ printed'[r][Len(printed'[r])].mk.n + 1 = chain'[r].n
    <3>1. CASE r = p
      BY <1>1, <1>3, <1>4, <1>5, <1>6, <3>1
    <3>2. CASE r = q
      BY <1>0, <1>5, <2>1, <3>2 DEF LastInv
    <3> QED BY <1>0, <3>1, <3>2
  <2> QED BY <2>1 DEF LastInv
<1>16. GapsOnlyAtTurnEnds'
  \* The lines before this one under its public key are up to the last one printed.
  <2>1. ASSUME NEW i \in 1..Len(sent[q]), sent[q][i].pub = pdu.pub, i < l
        PROVE  \E k \in 1..m : printed[p][k] = sent[q][i]
    <3>1. Before(sent[q][i].mk, pdu.mk) /\ sent[q][i].mk.root = pdu.mk.root /\ sent[q][i].mk.n < pdu.mk.n
          /\ sent[q][i].mk.n \in Nat
      BY <1>8, <2>1 DEF Before, Chain
    <3>2. ~new
      BY <1>3, <1>8, <3>1 DEF Chain
    <3>3. changed[p] /\ root[p] # <<>> /\ pdu.mk = chain[p] /\ chain[p].root = root[p]
      BY <1>0, <1>3, <3>2 DEF PartyInv
    <3>4. /\ m \in 1..m /\ printed[p][m].mk.root = pdu.mk.root /\ printed[p][m].mk.n + 1 = pdu.mk.n
      BY <1>0, <1>6, <3>3, StateType DEF LastInv, m
    <3>5. PICK k \in 1..Len(sent[q]) : sent[q][k] = printed[p][m]
      BY <1>9, <3>4 DEF IsIn
    <3>6. sent[q][k].line = k /\ sent[q][k].mk \in Chain /\ sent[q][k].pub = pdu.pub
      BY <1>8, <3>4, <3>5
    <3>7. ~Before(sent[q][k].mk, sent[q][i].mk)
      BY <1>8, <3>1, <3>4, <3>5, <3>6 DEF Before, Chain
    <3>8. i <= k
      BY <1>0, <3>7 DEF SentInv
    <3>9. sent[q][i].pub = printed[p][m].pub /\ sent[q][i].line <= printed[p][m].line
      BY <1>8, <2>1, <3>5, <3>6, <3>8
    <3> QED BY <1>0, <3>4, <3>9 DEF GapsOnlyAtTurnEnds, m, q
  <2>2. ASSUME NEW j \in 1..(m + 1), NEW i \in 1..Len(sent[q]),
               sent[q][i].pub = printed'[p][j].pub, sent[q][i].line <= printed'[p][j].line
        PROVE  \E k \in 1..(m + 1) : printed'[p][k] = sent[q][i]
    <3>1. CASE j \in 1..m
      <4>1. \E k \in 1..m : printed[p][k] = sent[q][i]
        BY <1>0, <1>6, <2>2, <3>1 DEF GapsOnlyAtTurnEnds, m, q
      <4> QED BY <1>6, <4>1
    <3>2. CASE j = m + 1
      <4>1. sent[q][i].pub = pdu.pub /\ i <= l
        BY <1>6, <1>8, <2>2, <3>2
      <4>2. CASE i < l
        <5>1. \E k \in 1..m : printed[p][k] = sent[q][i]
          BY <2>1, <4>1, <4>2
        <5> QED BY <1>6, <5>1
      <4>3. CASE i = l
        BY <1>6, <1>7, <4>3
      <4> QED BY <1>7, <4>1, <4>2, <4>3
    <3> QED BY <1>6, <3>1, <3>2
  <2>3. ASSUME NEW j \in 1..(m + 1), NEW k \in 1..(m + 1), k < j
        PROVE  printed'[p][k].line < printed'[p][j].line
    <3>1. k \in 1..m /\ printed'[p][k] = printed[p][k]
      BY <1>6, <2>3
    <3>2. CASE j \in 1..m
      BY <1>0, <1>6, <2>3, <3>1, <3>2 DEF GapsOnlyAtTurnEnds, m
    <3>3. CASE j = m + 1
      BY <1>6, <1>8, <1>10, <3>1, <3>3
    <3> QED BY <1>6, <3>2, <3>3
  <2>4. ASSUME NEW r \in Parties, NEW j \in 1..Len(printed'[r])
        PROVE  /\ \A k \in 1..Len(printed'[r]) : k < j => printed'[r][k].line < printed'[r][j].line
               /\ \A i \in 1..Len(sent'[Peer(r)]) :
                    sent'[Peer(r)][i].pub = printed'[r][j].pub /\ sent'[Peer(r)][i].line <= printed'[r][j].line
                      => \E k \in 1..Len(printed'[r]) : printed'[r][k] = sent'[Peer(r)][i]
    <3>1. CASE r = p
      BY <1>5, <1>6, <2>2, <2>3, <3>1 DEF q
    <3>2. CASE r = q
      BY <1>0, <1>5, <3>2 DEF GapsOnlyAtTurnEnds
    <3> QED BY <1>0, <3>1, <3>2
  <2> QED BY <2>4 DEF GapsOnlyAtTurnEnds
<1> QED BY <1>11, <1>12, <1>13, <1>14, <1>15, <1>16 DEF Inv

LEMMA AliceStartIs ==
  /\ AliceStart.root = Append(<<>>, {2, 1}) /\ AliceStart.chain.root = AliceStart.root
  /\ Len(AliceStart.root) = 1 /\ AliceStart.root # <<>>
  /\ AliceStart.priv = 2 /\ AliceStart.peer = 1 /\ AliceStart.changed = FALSE
<1>1. Len(<<>>) = 0 /\ <<>> \in Root /\ {2, 1} \in SUBSET Nat
  BY DEF Root
<1>2. /\ KDF_RK(<<>>, DH(2, 1)).root = Append(<<>>, {2, 1})
      /\ KDF_RK(<<>>, DH(2, 1)).chain = [root |-> Append(<<>>, {2, 1}), n |-> 0]
  BY <1>1, KDF_RKType
<1>3. Len(Append(<<>>, {2, 1})) = 1 /\ Append(<<>>, {2, 1}) # <<>>
  <2>1. <<>> \in Seq(SUBSET Nat)
    OBVIOUS
  <2>2. Len(Append(<<>>, {2, 1})) = Len(<<>>) + 1
    BY <1>1, <2>1
  <2> QED BY <1>1, <2>2
<1>4. /\ AliceStart.root = KDF_RK(<<>>, DH(2, 1)).root /\ AliceStart.chain = KDF_RK(<<>>, DH(2, 1)).chain
      /\ AliceStart.priv = 2 /\ AliceStart.peer = 1 /\ AliceStart.changed = FALSE
  BY DEF AliceStart
<1>5. [root |-> Append(<<>>, {2, 1}), n |-> 0].root = Append(<<>>, {2, 1})
  OBVIOUS
<1> QED BY <1>2, <1>3, <1>4, <1>5, Zenon

LEMMA InitInv == Init => Inv
<1> SUFFICES ASSUME Init PROVE Inv
  OBVIOUS
<1>1. TypeOK
  BY InitType
<1>2. Len(<<>>) = 0 /\ <<>> \in Root /\ {2, 1} \in SUBSET Nat
  BY DEF Root
<1>3. /\ AliceStart.root = Append(<<>>, {2, 1}) /\ AliceStart.chain.root = AliceStart.root
      /\ Len(AliceStart.root) = 1 /\ AliceStart.root # <<>>
      /\ AliceStart.priv = 2 /\ AliceStart.peer = 1 /\ AliceStart.changed = FALSE
  BY AliceStartIs
<1>4. /\ BobStart.root = <<>> /\ BobStart.chain.root = <<>> /\ BobStart.priv = 1
      /\ BobStart.peer = 0 /\ BobStart.changed = TRUE
  BY DEF BobStart, BobHasToRatchet
<1>5. \A p \in Parties : sent[p] = <<>> /\ printed[p] = <<>> /\ wire[p] = <<>> /\ received[p] = <<>>
  BY DEF Init
<1>6. PartyInv
  <2>1. /\ root["alice"] = AliceStart.root /\ chain["alice"] = AliceStart.chain /\ priv["alice"] = 2
        /\ peer["alice"] = 1 /\ changed["alice"] = FALSE
        /\ root["bob"] = <<>> /\ chain["bob"] = BobStart.chain /\ priv["bob"] = 1
        /\ peer["bob"] = 0 /\ changed["bob"] = TRUE /\ keys = 2
    BY <1>3, <1>4 DEF Init, Parties
  <2>2. Own("alice", 1)
    BY DEF Own
  <2>3. Own("alice", Len(root["alice"])) /\ root["alice"] = chain["alice"].root
        /\ root["bob"] = chain["bob"].root
    BY <1>3, <1>4, <2>1, <2>2
  <2>4. ASSUME NEW p \in Parties
        PROVE  /\ chain[p].root = root[p] /\ priv[p] \in 1..keys
               /\ peer[p] = 0 => changed[p] /\ root[p] = <<>>
               /\ root[p] # <<>> => (changed[p] <=> ~Own(p, Len(root[p])))
    <3>1. CASE p = "alice"
      <4>1. chain[p].root = root[p] /\ priv[p] \in 1..keys /\ peer[p] # 0
        BY <1>3, <2>1, <2>3, <3>1
      <4>2. ~changed[p] /\ Own(p, Len(root[p]))
        BY <2>1, <2>3, <3>1
      <4> QED BY <4>1, <4>2
    <3>2. CASE p = "bob"
      BY <2>1, <2>3, <3>2
    <3> QED BY <3>1, <3>2 DEF Parties
  <2> QED BY <2>4 DEF PartyInv
<1>7. LastInv
  BY <1>3, <1>4 DEF Init, LastInv, Parties
<1>8. \A p \in Parties : Peer(p) \in Parties
  BY PeerPeer
<1>9. SentInv /\ PrintedInv /\ GapsOnlyAtTurnEnds
  BY <1>2, <1>5 DEF SentInv, PrintedInv, GapsOnlyAtTurnEnds
<1>10. WireInv
  BY <1>2, <1>5 DEF WireInv
<1> QED BY <1>1, <1>6, <1>7, <1>9, <1>10 DEF Inv

LEMMA StepInv == Inv /\ [Next]_vars => Inv'
<1> SUFFICES ASSUME Inv, [Next]_vars PROVE Inv'
  OBVIOUS
<1>1. TypeOK /\ TypeOK'
  BY StepType DEF Inv
<1>2. \/ \E p \in Parties : SendLine(p) \/ ReceivePDU(p) \/ (HandlePDU(p) /\ ~Die(p)) \/ Exits(p)
      \/ UNCHANGED vars
  BY <1>1, Steps
<1>3. CASE UNCHANGED vars
  <2>1. "bob" \in Parties
    BY DEF Parties
  <2> QED BY <1>1, <1>3, <2>1, ExitsInv
<1> QED BY <1>1, <1>2, <1>3, ExitsInv, ReceivePDUInv, SendLineInv, HandlePDUInv

THEOREM Inductive == Spec => []Inv
  BY InitInv, StepInv, PTL DEF Spec

\* No message key encrypts two messages: the keys of one party follow each other, and
\* the parties' roots are of different length.
LEMMA InvKeysFresh == Inv => MessageKeysFresh
<1> SUFFICES ASSUME Inv, NEW p \in Parties, NEW q \in Parties,
                    NEW i \in 1..Len(sent[p]), NEW j \in 1..Len(sent[q]), sent[p][i].mk = sent[q][j].mk
             PROVE  p = q /\ i = j
  BY DEF MessageKeysFresh
<1>0. TypeOK /\ SentInv
  BY DEF Inv
<1>1. /\ sent[p][i].mk \in Chain /\ Len(sent[p][i].mk.root) \in Nat
      /\ Own(p, Len(sent[p][i].mk.root)) /\ Own(q, Len(sent[p][i].mk.root))
      /\ Len(sent[p]) \in Nat /\ Len(sent[q]) \in Nat
  BY <1>0, StateType, PDUType DEF SentInv
<1>2. p = q
  <2>1. p # q => q = Peer(p)
    BY PeerIs DEF Parties
  <2> QED BY <1>1, <2>1, OwnAlternates
<1>3. /\ i < j => Before(sent[p][i].mk, sent[p][j].mk)
      /\ j < i => Before(sent[p][j].mk, sent[p][i].mk)
  BY <1>0, <1>2 DEF SentInv
<1>4. ~Before(sent[p][i].mk, sent[p][i].mk)
  BY <1>1 DEF Before, Chain
<1> QED BY <1>1, <1>2, <1>3, <1>4

THEOREM KeysFresh == Spec => []MessageKeysFresh
  BY Inductive, InvKeysFresh, PTL

\* What is missing is always the end of a turn.
THEOREM Gaps == Spec => []GapsOnlyAtTurnEnds
<1>1. Inv => GapsOnlyAtTurnEnds
  BY DEF Inv
<1> QED BY Inductive, <1>1, PTL

\* The one of two printed lines that is under the shorter root was printed before the
\* other was sent.
LEMMA InvCrossing == Inv => CrossingNeverUnnoticed
<1> SUFFICES ASSUME Inv, NEW i \in 1..Len(printed["alice"]), NEW j \in 1..Len(printed["bob"])
             PROVE  \/ printed["alice"][i].after >= printed["bob"][j].line
                    \/ printed["bob"][j].after >= printed["alice"][i].line
  BY DEF CrossingNeverUnnoticed
<1> DEFINE b == printed["alice"][i]
           a == printed["bob"][j]
<1>0. TypeOK /\ SentInv /\ PrintedInv /\ "alice" \in Parties /\ "bob" \in Parties
  BY DEF Inv, Parties
<1>1. a \in PDU /\ b \in PDU
  BY <1>0, StateType
<1>2. IsIn(b, sent["bob"]) /\ IsIn(a, sent["alice"])
  BY <1>0, PeerIs DEF PrintedInv
<1> HIDE DEF a, b
<1>3. /\ Len(a.mk.root) \in Nat /\ Len(b.mk.root) \in Nat /\ a.line \in Nat /\ a.after \in Nat
      /\ b.line \in Nat /\ b.after \in Nat
  BY <1>1, PDUType
<1>4. Own("alice", Len(a.mk.root)) /\ Own("bob", Len(b.mk.root))
  BY <1>0, <1>2 DEF SentInv, IsIn
<1>5. Len(a.mk.root) # Len(b.mk.root)
  BY <1>3, <1>4, <1>0, PeerIs, OwnAlternates
<1>6. CASE Len(a.mk.root) < Len(b.mk.root)
  <2>1. a.line <= b.after
    BY <1>0, <1>2, <1>6 DEF PrintedInv, IsIn, a
  <2> QED BY <1>3, <2>1 DEF a, b
<1>7. CASE Len(b.mk.root) < Len(a.mk.root)
  <2>1. b.line <= a.after
    BY <1>0, <1>2, <1>7 DEF PrintedInv, IsIn, b
  <2> QED BY <1>3, <2>1 DEF a, b
<1> QED BY <1>3, <1>5, <1>6, <1>7

THEOREM Crossing == Spec => []CrossingNeverUnnoticed
  BY Inductive, InvCrossing, PTL
-----------------------------------------------------------------------------
(***************************************************************************)
(* As long as the users take turns.  One of the parties leads: all that is *)
(* on its way is its own, under consecutive keys from the one that the     *)
(* other will use next, or derives when it sees the new public key.        *)
(***************************************************************************)

InFlight(p) == received[p] \o wire[p]

\* The chain key that q takes the next PDU of p with.
From(p, q) == IF peer[q] = priv[p] THEN chain[q] ELSE KDF_RK(root[q], DH(priv[q], priv[p])).chain

Leads(p, q) ==
  /\ InFlight(p) = <<>>
  /\ root[p] # <<>>
  /\ peer[p] = priv[q]
  /\ peer[q] <= keys
  /\ chain[p].root = From(p, q).root
  /\ chain[p].n = From(p, q).n + Len(InFlight(q))
  /\ \A i \in 1..Len(InFlight(q)) : /\ InFlight(q)[i].pub = priv[p]
                                    /\ InFlight(q)[i].mk.root = From(p, q).root
                                    /\ InFlight(q)[i].mk.n = From(p, q).n + i - 1
  /\ changed[p] => InFlight(q) = <<>> /\ peer[q] = priv[p]
  /\ InFlight(q) = <<>> /\ root[q] # <<>> => peer[q] = priv[p]

Sync == /\ up = Parties
        /\ root["alice"] # <<>>
        /\ \A p \in Parties : sent[Peer(p)] = printed[p] \o InFlight(p)
        /\ \E p \in Parties : Leads(p, Peer(p))

SyncInv == Inv /\ (disturbed = {} => Sync)

LEMMA FromType ==
  ASSUME TypeOK, NEW p \in Parties, NEW q \in Parties
  PROVE  From(p, q) \in Chain /\ From(p, q).n \in Nat
<1>1. root[q] \in Root /\ priv[p] \in Nat /\ priv[q] \in Nat /\ chain[q] \in Chain
  BY StateType
<1>2. From(p, q) \in Chain
  BY <1>1, KDF_RKType DEF From
<1> QED BY <1>2, ChainType

LEMMA InFlightType ==
  ASSUME TypeOK, NEW p \in Parties
  PROVE  /\ received[p] \in Seq(PDU) /\ wire[p] \in Seq(PDU) /\ InFlight(p) \in Seq(PDU)
         /\ InFlight(p) = <<>> <=> received[p] = <<>> /\ wire[p] = <<>>
         /\ Len(InFlight(p)) \in Nat
<1>1. received[p] \in Seq(PDU) /\ wire[p] \in Seq(PDU)
  BY DEF TypeOK
<1>2. InFlight(p) \in Seq(PDU)
  BY <1>1, ConcatProperties DEF InFlight
<1>3. InFlight(p) = <<>> <=> received[p] = <<>> /\ wire[p] = <<>>
  BY <1>1, ConcatEqualIffEmpty DEF InFlight
<1>4. Len(InFlight(p)) \in Nat
  BY <1>2
<1> QED BY <1>1, <1>2, <1>3, <1>4

\* A PDU sent, a PDU that the receiving goroutine takes, and one that is printed.
LEMMA SeqMoves ==
  ASSUME NEW s \in Seq(PDU), NEW t \in Seq(PDU), NEW pdu \in PDU
  PROVE  /\ s \o Append(t, pdu) = Append(s \o t, pdu)
         /\ s # <<>> => <<s[1]>> \o Tail(s) = s
         /\ <<pdu>> \o s # <<>> /\ Len(<<pdu>> \o s) = Len(s) + 1 /\ (<<pdu>> \o s)[1] = pdu
         /\ \A i \in 1..Len(s) : (<<pdu>> \o s)[i + 1] = s[i]
         /\ t \o (<<pdu>> \o s) = Append(t, pdu) \o s
<1>1. <<pdu>> \in Seq(PDU) /\ Len(<<pdu>>) = 1 /\ <<pdu>>[1] = pdu
  OBVIOUS
<1>2. s \o Append(t, pdu) = Append(s \o t, pdu)
  <2>1. Append(t, pdu) = t \o <<pdu>> /\ Append(s \o t, pdu) = (s \o t) \o <<pdu>>
    BY AppendIsConcat, ConcatProperties
  <2> QED BY <1>1, <2>1, ConcatAssociative
<1>3. ASSUME s # <<>> PROVE <<s[1]>> \o Tail(s) = s
  <2>1. Len(s) \in Nat \ {0} /\ 1 \in 1..Len(s) /\ s[1] \in PDU
    BY <1>3
  <2>2. SubSeq(s, 1, Len(s)) = <<s[1]>> \o SubSeq(s, 1 + 1, Len(s)) /\ SubSeq(s, 1, Len(s)) = s
    BY <2>1, SubSeqRecursiveFirst, SubSeqFull
  <2>3. Tail(s) = SubSeq(s, 1 + 1, Len(s))
    BY <1>3, TailIsSubSeq
  <2> QED BY <2>2, <2>3
<1>4. /\ <<pdu>> \o s # <<>> /\ Len(<<pdu>> \o s) = Len(s) + 1 /\ (<<pdu>> \o s)[1] = pdu
      /\ \A i \in 1..Len(s) : (<<pdu>> \o s)[i + 1] = s[i]
  BY <1>1, ConcatProperties, ConcatEqualIffEmpty
<1>5. t \o (<<pdu>> \o s) = Append(t, pdu) \o s
  <2>1. Append(t, pdu) = t \o <<pdu>>
    BY AppendIsConcat
  <2> QED BY <1>1, <2>1, ConcatAssociative
<1> QED BY <1>2, <1>3, <1>4, <1>5

\* Once all is received, the parties may change roles.
LEMMA RolesChange ==
  ASSUME Inv, NEW p \in Parties, NEW q \in Parties, Leads(p, q), InFlight(q) = <<>>, root[q] # <<>>
  PROVE  Leads(q, p)
<1>1. TypeOK /\ PartyInv /\ Len(<<>>) = 0
  BY DEF Inv
<1>2. peer[q] = priv[p] /\ peer[p] = priv[q] /\ InFlight(p) = <<>>
  BY DEF Leads
<1>3. From(p, q) = chain[q] /\ From(q, p) = chain[p]
  BY <1>2 DEF From
<1>4. chain[p].root = chain[q].root /\ chain[p].n = chain[q].n + 0
  BY <1>1, <1>3 DEF Leads
<1>5. chain[q].n \in Nat /\ peer[p] <= keys
  <2>1. priv[q] \in 1..keys /\ keys \in Nat
    BY <1>1, StateType DEF PartyInv
  <2> QED BY <1>1, <1>2, <2>1, StateType
<1> QED BY <1>1, <1>2, <1>3, <1>4, <1>5 DEF Leads

LEMMA LeaderSends ==
  ASSUME Inv, Sync, NEW p \in Parties, Leads(p, Peer(p)), SendLine(p)
  PROVE  Sync'
<1> DEFINE q == Peer(p)
           own == SendKeys(p).own
           rk == SendKeys(p).rk
           pdu == [pub |-> own, mk |-> rk.chain, line |-> Len(sent[p]) + 1, after |-> LastPrinted(p)]
           next == [root |-> rk.chain.root, n |-> rk.chain.n + 1]
           m == Len(InFlight(q))
<1>0. /\ TypeOK /\ PartyInv /\ q \in Parties /\ q # p /\ Parties = {p, q} /\ Peer(q) = p
      /\ Leads(p, q)
  BY PeerIs DEF Inv, Parties
<1>1. /\ own \in Nat /\ rk.chain \in Chain /\ rk.chain.root = rk.root /\ Len(rk.root) > 0
  BY SendKeysFresh DEF SendLine
<1>2. /\ pdu \in PDU
      /\ priv' = [priv EXCEPT ![p] = own]
      /\ keys' = IF changed[p] THEN keys + 1 ELSE keys
      /\ changed' = [changed EXCEPT ![p] = FALSE]
      /\ root' = [root EXCEPT ![p] = rk.root]
      /\ chain' = [chain EXCEPT ![p] = next]
      /\ wire' = [wire EXCEPT ![q] = Append(@, pdu)]
      /\ sent' = [sent EXCEPT ![p] = Append(@, pdu)]
      /\ UNCHANGED <<up, peer, received, printed>>
  BY <1>0, SendLineIs
<1>3. pdu.pub = own /\ pdu.mk = rk.chain
  OBVIOUS
<1>4. next.root = rk.chain.root /\ next.n = rk.chain.n + 1
  OBVIOUS
\* The key the line is sent with is the one that the other party will use for it.
<1>5. /\ own = priv[p] /\ ~changed[p] /\ rk.chain = chain[p]
      \/ /\ own = keys + 1 /\ changed[p] /\ m = 0 /\ rk.chain = KDF_RK(root[q], DH(priv[q], own)).chain
  <2>1. CASE ~changed[p]
    BY <2>1 DEF SendKeys
  <2>2. CASE changed[p]
    <3>1. own = keys + 1 /\ rk = KDF_RK(root[p], DH(keys + 1, peer[p]))
      BY <2>2 DEF SendKeys
    <3>2. m = 0 /\ peer[q] = priv[p] /\ peer[p] = priv[q] /\ From(p, q) = chain[q]
      BY <1>0, <2>2 DEF Leads, From
    <3>3. root[p] = root[q]
      BY <1>0, <3>2 DEF Leads, PartyInv
    <3>4. DH(keys + 1, priv[q]) = DH(priv[q], keys + 1)
      BY DEF DH
    <3> QED BY <2>2, <3>1, <3>2, <3>3, <3>4
  <2> QED BY <2>1, <2>2
<1> HIDE DEF q, own, rk, pdu, next
<1>6. /\ priv'[p] = own /\ ~changed'[p] /\ root'[p] = rk.root /\ chain'[p] = next
      /\ priv'[q] = priv[q] /\ root'[q] = root[q] /\ chain'[q] = chain[q]
      /\ sent'[p] = Append(sent[p], pdu) /\ sent'[q] = sent[q]
      /\ wire'[q] = Append(wire[q], pdu) /\ wire'[p] = wire[p]
      /\ keys \in Nat /\ keys' \in Nat /\ keys <= keys'
      /\ peer' = peer /\ received' = received /\ printed' = printed /\ up' = up
  BY <1>0, <1>1, <1>2 DEF TypeOK
<1>7. InFlight(p)' = InFlight(p) /\ InFlight(q)' = Append(InFlight(q), pdu)
  <2>1. received[q] \in Seq(PDU) /\ wire[q] \in Seq(PDU)
    BY <1>0, InFlightType
  <2>2. received[q] \o Append(wire[q], pdu) = Append(received[q] \o wire[q], pdu)
    BY <1>2, <2>1, SeqMoves
  <2> QED BY <1>6, <2>2 DEF InFlight
<1>8. /\ m \in Nat /\ Len(InFlight(q)') = m + 1 /\ InFlight(q)'[m + 1] = pdu
      /\ \A i \in 1..m : InFlight(q)'[i] = InFlight(q)[i]
      /\ InFlight(q)' # <<>>
  <2>1. InFlight(q) \in Seq(PDU) /\ m \in Nat
    BY <1>0, InFlightType
  <2> QED BY <1>2, <1>7, <2>1, AppendIs
<1> HIDE DEF m
<1>9. /\ From(p, q)' \in Chain /\ From(p, q)'.n \in Nat
      /\ rk.chain.root = From(p, q)'.root /\ rk.chain.n = From(p, q)'.n + m
      /\ \A i \in 1..m : /\ InFlight(q)[i].pub = own
                         /\ InFlight(q)[i].mk.root = From(p, q)'.root
                         /\ InFlight(q)[i].mk.n = From(p, q)'.n + i - 1
  <2>1. CASE own = priv[p] /\ ~changed[p] /\ rk.chain = chain[p]
    <3>1. From(p, q)' = From(p, q)
      BY <1>6, <2>1 DEF From
    <3>2. From(p, q) \in Chain /\ From(p, q).n \in Nat
      BY <1>0, FromType
    <3> QED BY <1>0, <2>1, <3>1, <3>2 DEF Leads, m
  <2>2. CASE own = keys + 1 /\ m = 0 /\ rk.chain = KDF_RK(root[q], DH(priv[q], own)).chain
    <3>1. peer'[q] # priv'[p]
      <4>1. peer[q] <= keys /\ peer[q] \in Nat
        BY <1>0, StateType DEF Leads
      <4> QED BY <1>6, <2>2, <4>1
    <3>2. From(p, q)' = rk.chain
      BY <1>6, <2>2, <3>1 DEF From
    <3>3. rk.chain.n \in Nat
      BY <1>1, ChainType
    <3> QED BY <1>1, <2>2, <3>2, <3>3
  <2> QED BY <1>5, <2>1, <2>2
<1>10. Leads(p, q)'
  <2>1. peer'[p] = priv'[q] /\ InFlight(p)' = <<>>
    BY <1>0, <1>6, <1>7 DEF Leads
  <2>2. peer'[q] <= keys'
    BY <1>0, <1>6, StateType DEF Leads
  <2>3. root'[p] # <<>>
    BY <1>1, <1>6
  <2>4. chain'[p].root = From(p, q)'.root /\ chain'[p].n = From(p, q)'.n + Len(InFlight(q)')
    <3>1. chain'[p].root = rk.chain.root /\ chain'[p].n = rk.chain.n + 1
      BY <1>4, <1>6
    <3>2. \A a, b \in Nat : a + b + 1 = a + (b + 1)
      OBVIOUS
    <3>3. From(p, q)'.n + m + 1 = From(p, q)'.n + (m + 1)
      BY <1>8, <1>9, <3>2, Zenon
    <3> QED BY <1>8, <1>9, <3>1, <3>3, Zenon
  <2>5. ASSUME NEW i \in 1..(m + 1)
        PROVE  /\ InFlight(q)'[i].pub = priv'[p]
               /\ InFlight(q)'[i].mk.root = From(p, q)'.root
               /\ InFlight(q)'[i].mk.n = From(p, q)'.n + i - 1
    <3>1. CASE i \in 1..m
      BY <1>6, <1>8, <1>9, <3>1
    <3>2. CASE i = m + 1
      BY <1>3, <1>6, <1>8, <1>9, <3>2
    <3> QED BY <1>8, <3>1, <3>2
  <2> QED BY <1>6, <1>8, <2>1, <2>2, <2>3, <2>4, <2>5 DEF Leads
<1>11. \A r \in Parties : sent'[Peer(r)] = printed'[r] \o InFlight(r)'
  <2>1. sent'[q] = printed'[p] \o InFlight(p)'
    BY <1>0, <1>6, <1>7 DEF Sync, q
  <2>2. sent'[p] = printed'[q] \o InFlight(q)'
    <3>1. printed[q] \in Seq(PDU) /\ InFlight(q) \in Seq(PDU)
      BY <1>0, StateType, InFlightType
    <3>2. sent[p] = printed[q] \o InFlight(q)
      BY <1>0 DEF Sync
    <3>3. printed[q] \o Append(InFlight(q), pdu) = Append(printed[q] \o InFlight(q), pdu)
      BY <1>2, <3>1, SeqMoves
    <3> QED BY <1>6, <1>7, <3>2, <3>3
  <2>3. ASSUME NEW r \in Parties PROVE sent'[Peer(r)] = printed'[r] \o InFlight(r)'
    <3>1. CASE r = p
      BY <1>0, <2>1, <3>1 DEF q
    <3>2. CASE r = q
      BY <1>0, <2>2, <3>2
    <3> QED BY <1>0, <3>1, <3>2
  <2> QED BY <2>3
<1>12. root'["alice"] # <<>>
  <2>1. "alice" \in Parties
    BY DEF Parties
  <2> QED BY <1>0, <1>1, <1>6, <2>1 DEF Sync
<1> QED BY <1>0, <1>6, <1>10, <1>11, <1>12 DEF Sync, q

LEMMA SendLineSync ==
  ASSUME Inv, Sync, NEW p \in Parties, SendLine(p), disturbed' = {}
  PROVE  Sync'
<1>0. TypeOK /\ Peer(p) \in Parties /\ Peer(Peer(p)) = p /\ Parties = {p, Peer(p)}
  BY PeerIs DEF Inv, Parties
<1>1. Turn(p)
  BY DEF SendLine, Occurs
<1>2. InFlight(p) = <<>> /\ root[p] # <<>>
  BY <1>0, <1>1, InFlightType DEF Turn
<1>3. PICK r \in Parties : Leads(r, Peer(r))
  BY DEF Sync
<1>4. CASE r = p
  BY <1>3, <1>4, LeaderSends
<1>5. CASE r = Peer(p)
  <2>1. Leads(Peer(p), p)
    BY <1>0, <1>3, <1>5
  <2>2. Leads(p, Peer(p))
    BY <1>0, <1>2, <2>1, RolesChange
  <2> QED BY <2>2, LeaderSends
<1> QED BY <1>0, <1>4, <1>5

\* What is on its way is under the key that is used for it.
LEMMA NextInFlight ==
  ASSUME Inv, Sync, NEW q \in Parties, InFlight(q) # <<>>
  PROVE  LET pdu == InFlight(q)[1]
         IN /\ Leads(Peer(q), q) /\ pdu \in PDU /\ pdu # Rest
            /\ pdu.pub = priv[Peer(q)] /\ pdu.mk = From(Peer(q), q)
            /\ received[q] # <<>> => received[q] = <<pdu>>
            /\ received[q] = <<>> => wire[q] # <<>> /\ wire[q][1] = pdu
<1> DEFINE pdu == InFlight(q)[1]
<1>0. /\ TypeOK /\ PartyInv /\ Peer(q) \in Parties /\ Peer(Peer(q)) = q /\ Parties = {q, Peer(q)}
  BY PeerIs DEF Inv, Parties
<1>1. Leads(Peer(q), q)
  <2>1. PICK p \in Parties : Leads(p, Peer(p))
    BY DEF Sync
  <2>2. p # q
    BY <2>1 DEF Leads
  <2> QED BY <1>0, <2>1, <2>2
<1>2. /\ InFlight(q) \in Seq(PDU) /\ received[q] \in Seq(PDU) /\ wire[q] \in Seq(PDU)
      /\ Len(received[q]) <= 1
  BY <1>0, InFlightType DEF TypeOK
<1>3. 1 \in 1..Len(InFlight(q)) /\ pdu \in PDU
  BY <1>2
<1>4. From(Peer(q), q) \in Chain /\ From(Peer(q), q).n \in Nat
  BY <1>0, FromType
<1>5. /\ pdu.pub = priv[Peer(q)] /\ pdu.mk.root = From(Peer(q), q).root
      /\ pdu.mk.n = From(Peer(q), q).n + 1 - 1
  BY <1>1, <1>3 DEF Leads
<1>6. pdu.mk \in Chain
  BY <1>3, PDUType
<1>7. pdu.mk = From(Peer(q), q)
  <2> HIDE DEF pdu
  <2>1. pdu.mk.n = From(Peer(q), q).n
    BY <1>4, <1>5
  <2>2. \A k, l \in Chain : k.root = l.root /\ k.n = l.n => k = l
    BY DEF Chain
  <2> QED BY <1>4, <1>5, <1>6, <2>1, <2>2
<1>8. pdu # Rest
  <2>1. priv[Peer(q)] \in 1..keys /\ keys \in Nat
    BY <1>0, StateType DEF PartyInv
  <2>2. Rest.pub = 0
    BY DEF Rest
  <2> QED BY <1>5, <2>1, <2>2
<1>9. ASSUME received[q] # <<>> PROVE received[q] = <<pdu>>
  <2>1. Len(received[q]) = 1 /\ 1 \in 1..(Len(received[q]) + Len(wire[q])) /\ received[q][1] \in PDU
    <3> HIDE DEF pdu
    <3>1. Len(received[q]) \in Nat /\ Len(received[q]) # 0 /\ Len(wire[q]) \in Nat
      BY <1>2, <1>9
    <3>2. Len(received[q]) = 1
      <4>1. \A n \in Nat : n # 0 /\ n <= 1 => n = 1
        OBVIOUS
      <4> QED BY <1>2, <3>1, <4>1, Zenon
    <3>3. received[q][1] \in PDU
      BY <1>2, <3>2
    <3> QED BY <3>1, <3>2, <3>3
  <2>2. pdu = received[q][1]
    BY <1>2, <2>1, ConcatProperties DEF InFlight
  <2>3. <<received[q][1]>> \in Seq(PDU) /\ Len(<<received[q][1]>>) = 1
    BY <2>1
  <2>4. received[q] = <<received[q][1]>>
    BY <1>2, <2>1, <2>3, SeqEqual
  <2> QED BY <2>2, <2>4
<1>10. ASSUME received[q] = <<>> PROVE wire[q] # <<>> /\ wire[q][1] = pdu
  <2>1. InFlight(q) = wire[q]
    BY <1>2, <1>10, ConcatEmptySeq DEF InFlight
  <2> QED BY <2>1
<1> QED BY <1>1, <1>3, <1>5, <1>7, <1>8, <1>9, <1>10

LEMMA ReceivePDUSync ==
  ASSUME Inv, Sync, NEW p \in Parties, ReceivePDU(p), disturbed' = {}
  PROVE  Sync'
<1>1. TypeOK /\ received[p] = <<>> /\ wire[p] # <<>> /\ wire[p] \in Seq(PDU) /\ wire[p][1] \in PDU
  BY DEF Inv, ReceivePDU, TypeOK
<1>2. /\ received' = [received EXCEPT ![p] = <<wire[p][1]>>]
      /\ wire' = [wire EXCEPT ![p] = Tail(@)]
      /\ UNCHANGED <<up, ratchet, sent, printed>>
  BY DEF ReceivePDU, Occurs
<1>3. /\ up' = up /\ priv' = priv /\ peer' = peer /\ changed' = changed /\ root' = root /\ chain' = chain
      /\ keys' = keys /\ sent' = sent /\ printed' = printed
  BY <1>2 DEF ratchet
<1>4. ASSUME NEW r \in Parties PROVE InFlight(r)' = InFlight(r)
  <2>1. CASE r = p
    <3>1. received'[r] = <<wire[p][1]>> /\ wire'[r] = Tail(wire[p])
      BY <1>1, <1>2, <2>1 DEF TypeOK
    <3>2. <<wire[p][1]>> \o Tail(wire[p]) = wire[p]
      BY <1>1, SeqMoves
    <3>3. InFlight(r) = wire[p]
      BY <1>1, <2>1, ConcatEmptySeq DEF InFlight
    <3> QED BY <3>1, <3>2, <3>3 DEF InFlight
  <2>2. CASE r # p
    <3>1. received'[r] = received[r] /\ wire'[r] = wire[r]
      BY <1>1, <1>2, <2>2 DEF TypeOK
    <3> QED BY <3>1 DEF InFlight
  <2> QED BY <2>1, <2>2
<1>5. PICK r \in Parties : Leads(r, Peer(r))
  BY DEF Sync
<1>6. Peer(r) \in Parties
  BY PeerPeer
<1>7. From(r, Peer(r))' = From(r, Peer(r))
  BY <1>3 DEF From
<1>8. Leads(r, Peer(r))'
  BY <1>3, <1>4, <1>5, <1>6, <1>7 DEF Leads
<1> QED BY <1>3, <1>4, <1>8 DEF Sync

\* While the users take turns every PDU decrypts.
LEMMA SyncDecrypts ==
  ASSUME Inv, Sync, NEW q \in Parties, received[q] # <<>>
  PROVE  LET pdu == received[q][1]
         IN /\ pdu \in PDU /\ received[q] = <<pdu>> /\ pdu.pub = priv[Peer(q)]
            /\ ReceiveKeys(q, pdu).chain = From(Peer(q), q) /\ pdu.mk = From(Peer(q), q)
            /\ Leads(Peer(q), q)
<1>1. InFlight(q) # <<>>
  BY InFlightType DEF Inv
<1> DEFINE pdu == InFlight(q)[1]
<1>2. /\ Leads(Peer(q), q) /\ pdu \in PDU /\ pdu.pub = priv[Peer(q)] /\ pdu.mk = From(Peer(q), q)
      /\ received[q] = <<pdu>>
  BY <1>1, NextInFlight
<1>3. received[q][1] = pdu
  BY <1>2
<1> HIDE DEF pdu
<1>4. ReceiveKeys(q, pdu).chain = From(Peer(q), q)
  BY <1>2 DEF ReceiveKeys, From, PeerKeyIsNew
<1> QED BY <1>2, <1>3, <1>4

LEMMA HandlePDUSync ==
  ASSUME Inv, Sync, NEW q \in Parties, HandlePDU(q)
  PROVE  ~Die(q) /\ Sync'
<1> DEFINE p == Peer(q)
           pdu == received[q][1]
           rk == ReceiveKeys(q, pdu)
           next == [root |-> rk.chain.root, n |-> rk.chain.n + 1]
<1>0. /\ TypeOK /\ PartyInv /\ p \in Parties /\ q # p /\ Parties = {p, q} /\ Peer(p) = q
      /\ received[q] # <<>>
  BY PeerIs DEF Inv, Parties, HandlePDU
<1>1. /\ pdu \in PDU /\ received[q] = <<pdu>> /\ pdu.pub = priv[p]
      /\ rk.chain = From(p, q) /\ pdu.mk = From(p, q) /\ Leads(p, q)
  BY <1>0, SyncDecrypts
<1>2. ~Die(q)
  <2>1. received'[q] = <<>>
    <3>1. KDF_CK(rk.chain).mk = pdu.mk
      BY <1>1 DEF KDF_CK
    <3>2. Decrypt(KDF_CK(rk.chain).mk, pdu)
      BY <3>1 DEF Decrypt
    <3>3. received' = [received EXCEPT ![q] = <<>>]
      BY <3>2, ZenonT(30) DEF HandlePDU, ReceiveKeys
    <3> QED BY <1>0, <3>3 DEF TypeOK
  <2> QED BY <1>0, <2>1 DEF Die
<1>3. /\ peer' = [peer EXCEPT ![q] = pdu.pub]
      /\ changed' = [changed EXCEPT ![q] = @ \/ (PeerKeyIsNew(q, pdu) /\ peer[q] # 0)]
      /\ root' = [root EXCEPT ![q] = rk.root]
      /\ chain' = [chain EXCEPT ![q] = next]
      /\ received' = [received EXCEPT ![q] = <<>>]
      /\ printed' = [printed EXCEPT ![q] = Append(@, pdu)]
      /\ UNCHANGED <<up, priv, keys, wire, sent, disturbed>>
  BY <1>0, <1>2, HandlePDUIs
<1>4. Len(rk.root) > 0
  <2>1. IsIn(pdu, sent[p])
    <3>1. 1 \in 1..Len(received[q])
      BY <1>1
    <3> QED BY <1>0, <3>1 DEF Inv, WireInv
  <2> QED BY <1>1, <2>1, ReceiveKeysFresh
<1>5. next.root = rk.chain.root /\ next.n = rk.chain.n + 1
  OBVIOUS
<1> HIDE DEF p, pdu, rk, next
<1>6. /\ peer'[q] = pdu.pub /\ root'[q] = rk.root /\ chain'[q] = next
      /\ peer'[p] = peer[p] /\ changed'[p] = changed[p] /\ root'[p] = root[p] /\ chain'[p] = chain[p]
      /\ received'[q] = <<>> /\ received'[p] = received[p]
      /\ printed'[q] = Append(printed[q], pdu) /\ printed'[p] = printed[p]
      /\ up' = up /\ priv' = priv /\ keys' = keys /\ wire' = wire /\ sent' = sent
  BY <1>0, <1>3 DEF TypeOK
<1>7. /\ wire[q] \in Seq(PDU) /\ Len(wire[q]) \in Nat /\ InFlight(p)' = InFlight(p)
      /\ InFlight(q) = <<pdu>> \o wire[q] /\ InFlight(q)' = wire[q]
  <2>1. wire[q] \in Seq(PDU)
    BY <1>0 DEF TypeOK
  <2>2. <<>> \o wire[q] = wire[q]
    BY <2>1, ConcatEmptySeq
  <2> QED BY <1>1, <1>6, <2>1, <2>2 DEF InFlight
<1>8. /\ InFlight(q) # <<>> /\ Len(InFlight(q)) = Len(wire[q]) + 1
      /\ \A i \in 1..Len(wire[q]) : InFlight(q)[i + 1] = wire[q][i]
  BY <1>1, <1>7, SeqMoves
<1>9. From(p, q)' = next /\ From(p, q).n \in Nat
  <2>1. From(p, q)' = chain'[q]
    BY <1>1, <1>6 DEF From
  <2> QED BY <1>0, <1>6, <2>1, FromType
<1>10. Leads(p, q)'
  <2>0. PICK n \in Nat : From(p, q).n = n /\ next.n = n + 1 /\ next.root = From(p, q).root
    <3>1. next.n = From(p, q).n + 1 /\ next.root = From(p, q).root
      BY <1>1, <1>5
    <3> QED BY <1>9, <3>1
  <2>1. InFlight(p)' = <<>> /\ root'[p] # <<>> /\ peer'[p] = priv'[q] /\ ~changed'[p]
    BY <1>1, <1>6, <1>7, <1>8 DEF Leads
  <2>2. peer'[q] = priv'[p] /\ peer'[q] <= keys'
    <3>1. priv[p] \in 1..keys /\ keys \in Nat
      BY <1>0, StateType DEF PartyInv
    <3> QED BY <1>1, <1>6, <3>1
  <2>3. chain'[p].root = next.root /\ chain'[p].n = next.n + Len(wire[q])
    <3>1. chain[p].root = From(p, q).root /\ chain[p].n = From(p, q).n + (Len(wire[q]) + 1)
      BY <1>1, <1>8 DEF Leads
    <3> QED <4>1. chain'[p].n = n + (Len(wire[q]) + 1) /\ chain'[p].root = next.root
        BY <1>6, <2>0, <3>1
      <4>2. \A a \in Nat : n + (a + 1) = n + 1 + a
        OBVIOUS
      <4> QED BY <1>7, <2>0, <4>1, <4>2
  <2>4. ASSUME NEW i \in 1..Len(wire[q])
        PROVE  wire[q][i].pub = priv'[p] /\ wire[q][i].mk.root = next.root /\ wire[q][i].mk.n = next.n + i - 1
    <3>1. i + 1 \in 1..Len(InFlight(q)) /\ InFlight(q)[i + 1] = wire[q][i]
      BY <1>7, <1>8
    <3>2. /\ wire[q][i].pub = priv[p] /\ wire[q][i].mk.root = From(p, q).root
          /\ wire[q][i].mk.n = From(p, q).n + (i + 1) - 1
      BY <1>1, <3>1 DEF Leads
    <3> QED BY <1>6, <2>0, <3>2
  <2> QED BY <1>7, <1>9, <2>1, <2>2, <2>3, <2>4 DEF Leads
<1>11. \A r \in Parties : sent'[Peer(r)] = printed'[r] \o InFlight(r)'
  <2>1. sent'[q] = printed'[p] \o InFlight(p)'
    BY <1>0, <1>6, <1>7 DEF Sync
  <2>2. sent'[p] = printed'[q] \o InFlight(q)'
    <3>1. printed[q] \in Seq(PDU)
      BY <1>0, StateType
    <3>2. sent[p] = printed[q] \o InFlight(q)
      BY <1>0 DEF Sync, p
    <3>3. printed[q] \o (<<pdu>> \o wire[q]) = Append(printed[q], pdu) \o wire[q]
      BY <1>1, <1>7, <3>1, SeqMoves
    <3> QED BY <1>6, <1>7, <3>2, <3>3
  <2>3. ASSUME NEW r \in Parties PROVE sent'[Peer(r)] = printed'[r] \o InFlight(r)'
    <3>1. CASE r = p
      BY <1>0, <2>1, <3>1
    <3>2. CASE r = q
      BY <2>2, <3>2 DEF p
    <3> QED BY <1>0, <3>1, <3>2
  <2> QED BY <2>3
<1>12. root'["alice"] # <<>>
  <2>1. "alice" \in Parties
    BY DEF Parties
  <2> QED BY <1>0, <1>4, <1>6, <2>1 DEF Sync
<1>13. Sync'
  BY <1>0, <1>6, <1>10, <1>11, <1>12 DEF Sync
<1> QED BY <1>2, <1>13

LEMMA InitSync == Init => Sync
<1> SUFFICES ASSUME Init PROVE Sync
  OBVIOUS
<1>1. TypeOK /\ <<>> \in Seq(PDU) /\ Len(<<>>) = 0 /\ <<>> \o <<>> = <<>>
  BY InitType, ConcatEmptySeq
<1>2. \A p \in Parties : sent[p] = <<>> /\ printed[p] = <<>> /\ InFlight(p) = <<>>
  BY <1>1 DEF Init, InFlight
<1>3. "alice" \in Parties /\ "bob" \in Parties
  BY DEF Parties
<1>4. /\ root["alice"] = KDF_RK(<<>>, DH(2, 1)).root /\ chain["alice"] = KDF_RK(<<>>, DH(2, 1)).chain
      /\ priv["alice"] = 2 /\ peer["alice"] = 1 /\ changed["alice"] = FALSE
  BY <1>3 DEF Init, AliceStart
<1>5. root["bob"] = <<>> /\ priv["bob"] = 1 /\ peer["bob"] = 0 /\ keys = 2 /\ up = Parties
  BY <1>3 DEF Init, BobStart
<1>6. DH(2, 1) = DH(1, 2)
  BY DEF DH
<1>7. From("alice", "bob") = chain["alice"]
  BY <1>4, <1>5, <1>6 DEF From
<1>8. root["alice"] # <<>>
  BY <1>3, AliceStartIs DEF Init
<1>9. chain["alice"].n \in Nat
  BY <1>1, <1>3, StateType
<1>10. Leads("alice", "bob")
  BY <1>1, <1>2, <1>3, <1>4, <1>5, <1>7, <1>8, <1>9 DEF Leads
<1> QED BY <1>1, <1>2, <1>3, <1>5, <1>8, <1>10, PeerIs, PeerPeer DEF Sync

\* No process exits while the users take turns.
LEMMA SyncStep ==
  ASSUME Inv, Sync, [Next]_vars, disturbed' = {}
  PROVE  Sync'
<1>1. TypeOK
  BY DEF Inv
<1>2. CASE UNCHANGED vars
  <2>1. /\ up' = up /\ priv' = priv /\ peer' = peer /\ changed' = changed /\ root' = root /\ chain' = chain
        /\ keys' = keys /\ sent' = sent /\ printed' = printed /\ wire' = wire /\ received' = received
    BY <1>2 DEF vars, ratchet
  <2>2. \A p \in Parties : InFlight(p)' = InFlight(p) /\ \A q \in Parties : From(p, q)' = From(p, q)
    BY <2>1 DEF InFlight, From
  <2>3. \A p \in Parties : Peer(p) \in Parties
    BY PeerPeer
  <2>4. \A p \in Parties : Leads(p, Peer(p)) => Leads(p, Peer(p))'
    BY <2>1, <2>2, <2>3 DEF Leads
  <2> QED BY <2>1, <2>2, <2>4 DEF Sync
<1>3. ASSUME NEW p \in Parties PROVE ~SendTooEarly(p) /\ ~EndOfInput(p)
  BY DEF SendTooEarly, EndOfInput, Occurs
<1>4. ASSUME NEW p \in Parties PROVE ~ReceiveRest(p)
  <2>1. SUFFICES ASSUME ReceiveRest(p) PROVE FALSE
    OBVIOUS
  <2>2. received[p] = <<>> /\ wire[p] # <<>> /\ wire[p][1] = Rest
    BY <2>1 DEF ReceiveRest
  <2>3. InFlight(p) # <<>>
    BY <1>1, <2>2, InFlightType
  <2> QED BY <2>2, <2>3, NextInFlight
<1>5. ASSUME NEW p \in Parties PROVE ~ConnectionLost(p)
  BY PeerPeer DEF ConnectionLost, Sync
<1>6. ASSUME Next PROVE \E p \in Parties : SendLine(p) \/ ReceivePDU(p) \/ HandlePDU(p)
  BY <1>3, <1>4, <1>5, <1>6 DEF Next
<1> QED BY <1>2, <1>6, SendLineSync, ReceivePDUSync, HandlePDUSync

LEMMA InvInSync == ASSUME SyncInv PROVE TurnsKeepInSync
<1> SUFFICES ASSUME disturbed = {}
             PROVE  /\ up = Parties
                    /\ (\A p \in Parties : wire[p] = <<>> /\ received[p] = <<>>) /\ root["bob"] # <<>>
                         => /\ root["alice"] = root["bob"] /\ chain["alice"] = chain["bob"]
                            /\ \A p \in Parties : printed[p] = sent[Peer(p)]
  BY DEF TurnsKeepInSync
<1>0. Inv /\ Sync /\ TypeOK /\ PartyInv
  BY DEF SyncInv, Inv
<1>1. ASSUME \A p \in Parties : wire[p] = <<>> /\ received[p] = <<>>, root["bob"] # <<>>
      PROVE  /\ root["alice"] = root["bob"] /\ chain["alice"] = chain["bob"]
             /\ \A p \in Parties : printed[p] = sent[Peer(p)]
  <2>1. \A p \in Parties : InFlight(p) = <<>> /\ root[p] # <<>> /\ Peer(p) \in Parties
    BY <1>0, <1>1, InFlightType, PeerPeer DEF Sync, Parties
  <2>2. \A p \in Parties : printed[p] = sent[Peer(p)]
    <3>1. ASSUME NEW p \in Parties PROVE printed[p] = sent[Peer(p)]
      <4>1. sent[Peer(p)] = printed[p] \o <<>> /\ printed[p] \in Seq(PDU)
        BY <1>0, <2>1, StateType DEF Sync
      <4> QED BY <4>1, ConcatEmptySeq
    <3> QED BY <3>1
  <2>3. PICK p \in Parties : Leads(p, Peer(p))
    BY <1>0 DEF Sync
  <2> DEFINE q == Peer(p)
  <2>4. peer[q] = priv[p] /\ q \in Parties
    BY <2>1, <2>3 DEF Leads
  <2>5. From(p, q) = chain[q]
    BY <2>4 DEF From
  <2> HIDE DEF q
  <2>6. chain[p].root = chain[q].root /\ chain[p].n = chain[q].n + 0
    <3>1. Len(InFlight(q)) = 0
      BY <2>1, <2>4
    <3> QED BY <2>3, <2>5, <3>1 DEF Leads, q
  <2>7. chain[p] = chain[q]
    <3>1. chain[p] \in Chain /\ chain[q] \in Chain /\ chain[q].n \in Nat
      BY <1>0, <2>4, StateType
    <3> QED BY <2>6, <3>1 DEF Chain
  <2>8. root[p] = root[q]
    BY <1>0, <2>4, <2>6 DEF PartyInv
  <2> QED BY <2>2, <2>7, <2>8, PeerIs DEF Parties, q
<1> QED BY <1>0, <1>1 DEF Sync

\* As long as the users take turns the parties agree: either may be a turn ahead, and
\* what it derived its keys from is what the other has or is about to receive.
THEOREM InSync == Spec => []TurnsKeepInSync
<1>1. Init => SyncInv
  BY InitInv, InitSync DEF SyncInv
<1>2. SyncInv /\ [Next]_vars => SyncInv'
  <2> SUFFICES ASSUME SyncInv, [Next]_vars PROVE SyncInv'
    OBVIOUS
  <2>1. Inv /\ Inv' /\ TypeOK
    BY StepInv DEF SyncInv, Inv
  <2>2. disturbed \subseteq disturbed'
    BY DEF Next, vars, SendLine, SendTooEarly, EndOfInput, ReceivePDU, ReceiveRest, HandlePDU,
           ConnectionLost, Occurs
  <2> QED BY <2>1, <2>2, SyncStep DEF SyncInv
<1> QED BY <1>1, <1>2, InvInSync, PTL DEF Spec
=============================================================================
