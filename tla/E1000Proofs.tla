---------------------------- MODULE E1000Proofs ----------------------------
(***************************************************************************)
(* Proofs about the e1000 driver, for rings of every length.               *)
(*                                                                         *)
(* RxRing says how the driver's and the card's positions in the receive    *)
(* ring relate; with it the receive invariants are inductive.  From there: *)
(* each direction is a first-in first-out channel, and the buffers of the  *)
(* packets that are sent are freed once and not early.                     *)
(***************************************************************************)
EXTENDS E1000, TLAPS

-----------------------------------------------------------------------------
(* Sequences.                                                              *)

\* A sequence without elements is the empty one.
LEMMA EmptySeq ==
  ASSUME NEW S, NEW seq \in Seq(S), Len(seq) = 0
  PROVE  seq = <<>>
  OBVIOUS

\* A sequence is a function on 1 to its length.
LEMMA LenProperties ==
  ASSUME NEW S, NEW seq \in Seq(S)
  PROVE  Len(seq) \in Nat /\ seq \in [1..Len(seq) -> S] /\ DOMAIN seq = 1..Len(seq)
  OBVIOUS

\* What Head and Tail return.
LEMMA HeadTailProperties ==
  ASSUME NEW S, NEW s \in Seq(S), s # <<>>
  PROVE  /\ Head(s) \in S /\ Tail(s) \in Seq(S)
         /\ Len(Tail(s)) = Len(s) - 1
         /\ \A i \in 1..Len(Tail(s)) : Tail(s)[i] = s[i + 1]
  OBVIOUS

\* What Append returns.
LEMMA AppendProperties ==
  ASSUME NEW S, NEW seq \in Seq(S), NEW elt \in S
  PROVE  /\ Append(seq, elt) \in Seq(S)
         /\ Len(Append(seq, elt)) = Len(seq) + 1
         /\ \A i \in 1..Len(seq) : Append(seq, elt)[i] = seq[i]
         /\ Append(seq, elt)[Len(seq) + 1] = elt
  OBVIOUS

-----------------------------------------------------------------------------
\* The number of descriptors from a up to b.
RxDist(a, b) == IF a <= b THEN b - a ELSE b - a + RX_DESC

\* 1 while the packet at cur_rx was copied and its descriptor is not released.
Copied == IF pc \in {"rx_write", "rx_tail"} THEN 1 ELSE 0

\* The tail is the descriptor before cur_rx; the unread packets are those from
\* cur_rx up to the head; the handler only works on one of them.
RxRing ==
  /\ RxNext(rdt) = cur_rx
  /\ \A i \in RxSlot :
       i \in rx_dd <=> Within(i, cur_rx, rdh) /\ ~(pc = "rx_tail" /\ i = cur_rx)
  /\ pc \in {"rx_copy", "rx_write", "rx_tail"} => cur_rx # rdh

\* The unread packets continue the numbering of those that were passed on.
RxContents ==
  /\ received + Copied = Len(rx_out) + RxDist(cur_rx, rdh)
  /\ \A i \in RxSlot :
       Within(i, cur_rx, rdh) => rx_data[i] + Copied = Len(rx_out) + RxDist(cur_rx, i) + 1

\* What the card is to transmit was put there by enqueue_packet.
TxRing ==
  /\ tdt = cur_tx
  /\ \A i \in CardTx : tx_addr[i] \in 1..MaxTx

RxIInv ==
  /\ TypeOK
  /\ RxRing
  /\ RxContents
  /\ RxInOrder
  /\ TxRing

rxState == <<rdh, rdt, rx_dd, rx_data, cur_rx, rx_out, received>>
txState == <<tdh, tdt, tx_addr, cur_tx>>
RxBusy == pc \in {"rx_copy", "rx_write", "rx_tail"}

-----------------------------------------------------------------------------

\* The layouts of the interrupt registers agree: the bits that the card and a
\* notification set are bits that are enabled.
LEMMA CauseLayout ==
  /\ CardBit.TXDW = 0 /\ CardBit.RXT0 = 7 /\ CardBit.TXD_LOW = 15
  /\ CardBit.INT_ASSERTED = 31
  /\ EnabledCauses = {0, 2, 7, 15}
  /\ into(CauseBits, {"txd_low"}) = {15}
<1>1. CardBit.TXDW = 0 /\ CardBit.RXT0 = 7 /\ CardBit.TXD_LOW = 15
      /\ CardBit.INT_ASSERTED = 31
  BY DEF CardBit
<1>2. EnabledCauses = {0, 2, 7, 15}
  BY DEF EnabledCauses, into, IMaskBits
<1>3. into(CauseBits, {"txd_low"}) = {15}
  BY DEF into, CauseBits
<1> QED BY <1>1, <1>2, <1>3

\* They are decoded to the flags that the handler tests.
LEMMA CauseDecoding ==
  ASSUME NEW raw
  PROVE  /\ from(CauseBits, raw) \in SUBSET DOMAIN CauseBits
         /\ "rxt" \in from(CauseBits, raw) <=> 7 \in raw
         /\ "txdw" \in from(CauseBits, raw) <=> 0 \in raw
         /\ "txd_low" \in from(CauseBits, raw) <=> 15 \in raw
  BY DEF from, CauseBits

\* A step that leaves the receive ring alone and is not inside the receive loop,
\* before or after, keeps what is known of the ring.
LEMMA RxFrame ==
  ASSUME RxRing, RxContents, RxInOrder, UNCHANGED rxState, ~RxBusy, ~RxBusy'
  PROVE  RxRing' /\ RxContents' /\ RxInOrder'
<1>1. RxRing'
  BY DEF RxRing, rxState, RxBusy, Within, RxNext
<1>2. RxContents'
  BY DEF RxContents, rxState, RxBusy, Copied, Within, RxDist
<1>3. RxInOrder'
  BY DEF RxInOrder, rxState
<1> QED BY <1>1, <1>2, <1>3

\* The same for a step that does not change pc.
LEMMA RxFramePc ==
  ASSUME RxRing, RxContents, RxInOrder, UNCHANGED rxState, UNCHANGED pc
  PROVE  RxRing' /\ RxContents' /\ RxInOrder'
<1>1. RxRing'
  BY DEF RxRing, rxState, Within, RxNext
<1>2. RxContents'
  BY DEF RxContents, rxState, Copied, Within, RxDist
<1>3. RxInOrder'
  BY DEF RxInOrder, rxState
<1> QED BY <1>1, <1>2, <1>3

\* A step that leaves the transmit ring alone keeps what is known of it.
LEMMA TxFrame ==
  ASSUME TxRing, UNCHANGED txState
  PROVE  TxRing'
  BY DEF TxRing, txState, CardTx, Within

\* The initial rings: the card may fill all descriptors but one.
LEMMA InitRxIInv == Init => RxIInv
<1> SUFFICES ASSUME Init PROVE RxIInv
  OBVIOUS
<1> USE DescAssumption, CardAssumption
<1>1. TypeOK
  <2>1. 0 \in RxSlot /\ RX_DESC - 1 \in RxSlot /\ 0 \in TxSlot
    BY DEF RxSlot, TxSlot
  <2>2. /\ rx_data \in [RxSlot -> 0..MaxRx]
        /\ tx_addr \in [TxSlot -> 0..MaxTx] /\ tx_buffers \in [TxSlot -> 0..MaxTx]
    BY DEF Init, Null
  <2> QED BY <2>1, <2>2 DEF Init, TypeOK
<1>2. RxRing
  BY DEF Init, RxRing, RxSlot, RxNext, Within
<1>3. RxContents
  BY DEF Init, RxContents, RxSlot, Copied, RxDist, Within
<1>4. RxInOrder
  BY DEF Init, RxInOrder
<1>5. TxRing
  BY DEF Init, TxRing, CardTx, TxSlot, Within
<1> QED BY <1>1, <1>2, <1>3, <1>4, <1>5 DEF RxIInv

\* The card fills the descriptor at its head.
LEMMA CardReceiveRxIInv ==
  ASSUME RxIInv, CardReceive
  PROVE  RxIInv'
<1> USE DescAssumption, CardAssumption DEF RxIInv
<1>0. /\ rdh \in RxSlot /\ cur_rx \in RxSlot /\ rdt \in RxSlot
      /\ rdh' = RxNext(rdh) /\ rdh' \in RxSlot
      /\ cur_rx' = cur_rx /\ rdt' = rdt /\ pc' = pc /\ rx_out' = rx_out
      /\ received' = received + 1 /\ received \in Nat /\ received < MaxRx
  BY DEF CardReceive, TypeOK, RxSlot, RxNext, rxDriver
<1>0a. Len(rx_out) \in Nat
  BY LenProperties DEF TypeOK
<1>1. TypeOK'
  <2>1. rx_data' \in [RxSlot -> 0..MaxRx]
    BY <1>0 DEF CardReceive, TypeOK
  <2>2. rx_dd' \in SUBSET RxSlot
    BY <1>0 DEF CardReceive, TypeOK
  <2> QED BY <1>0, <2>1, <2>2, ZenonT(30) DEF CardReceive, TypeOK, rxDriver, txDriver, sender
<1>2. rdh # rdt /\ RxNext(rdt) = cur_rx
  BY DEF CardReceive, RxRing
<1>3. /\ RxNext(rdh) # cur_rx
      /\ \A i \in RxSlot : Within(i, cur_rx, rdh') <=> Within(i, cur_rx, rdh) \/ i = rdh
      /\ ~Within(rdh, cur_rx, rdh)
      /\ RxDist(cur_rx, rdh') = RxDist(cur_rx, rdh) + 1
  BY <1>0, <1>2 DEF RxSlot, RxNext, Within, RxDist
<1>4. /\ rx_dd' = rx_dd \cup {rdh}
      /\ \A i \in RxSlot : rx_data'[i] = IF i = rdh THEN received + 1 ELSE rx_data[i]
  BY DEF CardReceive, TypeOK
<1>5. RxRing'
  BY <1>0, <1>2, <1>3, <1>4 DEF RxRing
<1>6. RxContents'
  <2>1. Copied' = Copied
    BY <1>0 DEF Copied
  <2>2. Copied \in {0, 1} /\ RxDist(cur_rx, rdh) \in Int
    BY <1>0 DEF Copied, RxDist, RxSlot
  <2>3. received' + Copied' = Len(rx_out') + RxDist(cur_rx, rdh')
    BY <1>0, <1>0a, <1>3, <2>1, <2>2 DEF RxContents
  <2>4. ASSUME NEW i \in RxSlot, Within(i, cur_rx, rdh')
        PROVE  rx_data'[i] + Copied' = Len(rx_out') + RxDist(cur_rx, i) + 1
    BY <1>0, <1>0a, <1>3, <1>4, <2>1, <2>2, <2>4 DEF RxContents
  <2> QED BY <1>0, <1>0a, <2>3, <2>4 DEF RxContents
<1>7. RxInOrder'
  BY <1>0 DEF RxInOrder
<1>8. TxRing'
  BY TxFrame DEF CardReceive, txState, txDriver
<1> QED BY <1>1, <1>5, <1>6, <1>7, <1>8

\* handle_interrupt copies the packet at cur_rx: it is the next one in order.
LEMMA RxCopyRxIInv ==
  ASSUME RxIInv, RxCopy
  PROVE  RxIInv'
<1> USE DescAssumption, CardAssumption DEF RxIInv
<1>0. /\ pc = "rx_copy" /\ pc' = "rx_write"
      /\ rx_out' = Append(rx_out, rx_data[cur_rx])
      /\ UNCHANGED <<rdh, rdt, rx_dd, rx_data, cur_rx, received>>
      /\ cur_rx \in RxSlot /\ rdh \in RxSlot /\ received \in 0..MaxRx
      /\ rx_out \in Seq(1..MaxRx)
  BY DEF RxCopy, TypeOK, card
<1>1. Len(rx_out) \in Nat
  BY <1>0, LenProperties
<1>2. Within(cur_rx, cur_rx, rdh) /\ RxDist(cur_rx, cur_rx) = 0 /\ RxDist(cur_rx, rdh) \in Nat \ {0}
  BY <1>0 DEF RxRing, Within, RxDist, RxSlot
<1>3. Copied = 0 /\ Copied' = 1
  BY <1>0 DEF Copied
<1>4. rx_data[cur_rx] = Len(rx_out) + 1
  <2>1. rx_data[cur_rx] + 0 = Len(rx_out) + 0 + 1
    BY <1>0, <1>2, <1>3 DEF RxContents
  <2>2. rx_data[cur_rx] \in Nat
    BY <1>0 DEF TypeOK
  <2> QED BY <1>1, <2>1, <2>2
<1>5. Len(rx_out) + 1 <= received
  BY <1>0, <1>1, <1>2, <1>3 DEF RxContents
<1>6. rx_data[cur_rx] \in 1..MaxRx
  BY <1>0, <1>1, <1>4, <1>5
<1>7. /\ rx_out' \in Seq(1..MaxRx) /\ Len(rx_out') = Len(rx_out) + 1
      /\ \A i \in 1..Len(rx_out) : rx_out'[i] = rx_out[i]
      /\ rx_out'[Len(rx_out) + 1] = Len(rx_out) + 1
  BY <1>0, <1>4, <1>6, AppendProperties
<1>8. TypeOK'
  BY <1>0, <1>7, ZenonT(30) DEF RxCopy, TypeOK, card, txDriver, sender
<1>9. RxRing'
  BY <1>0 DEF RxRing, Within, RxNext
<1>10. RxContents'
  <2>1. received' + Copied' = Len(rx_out') + RxDist(cur_rx', rdh')
    <3>1. RxDist(cur_rx', rdh') = RxDist(cur_rx, rdh) /\ received' = received
      BY <1>0
    <3>2. received + 0 = Len(rx_out) + RxDist(cur_rx, rdh)
      BY <1>3 DEF RxContents
    <3> QED BY <1>0, <1>1, <1>2, <1>3, <1>7, <3>1, <3>2
  <2>2. ASSUME NEW i \in RxSlot, Within(i, cur_rx', rdh')
        PROVE  rx_data'[i] + Copied' = Len(rx_out') + RxDist(cur_rx', i) + 1
    <3>1. rx_data \in [RxSlot -> 0..MaxRx]
      BY DEF TypeOK
    <3>2. rx_data[i] \in Nat
      BY <3>1
    <3>3. RxDist(cur_rx, i) \in Int
      BY <1>0 DEF RxDist, RxSlot
    <3>4. rx_data[i] + 0 = Len(rx_out) + RxDist(cur_rx, i) + 1
      BY <1>0, <1>3, <2>2 DEF RxContents
    <3>5. rx_data'[i] = rx_data[i] /\ RxDist(cur_rx', i) = RxDist(cur_rx, i)
      BY <1>0
    <3> QED BY <1>1, <1>3, <1>7, <3>2, <3>3, <3>4, <3>5
  <2> QED BY <2>1, <2>2 DEF RxContents
<1>11. RxInOrder'
  BY <1>1, <1>7 DEF RxInOrder
<1>12. TxRing'
  BY TxFrame DEF RxCopy, txState, txDriver, card
<1> QED BY <1>8, <1>9, <1>10, <1>11, <1>12

\* handle_interrupt clears the DD bit of the packet it copied.
LEMMA RxWriteBackRxIInv ==
  ASSUME RxIInv, RxWriteBack
  PROVE  RxIInv'
<1> USE DescAssumption, CardAssumption DEF RxIInv
<1>0. /\ pc = "rx_write" /\ pc' = "rx_tail" /\ rx_dd' = rx_dd \ {cur_rx}
      /\ UNCHANGED <<rdh, rdt, rx_data, cur_rx, received, rx_out>>
  BY DEF RxWriteBack, card, rxDriver
<1>1. TypeOK'
  BY <1>0, ZenonT(30) DEF RxWriteBack, TypeOK, card, rxDriver, txDriver, sender
<1>2. RxRing'
  BY <1>0 DEF RxRing, Within, RxNext
<1>3. RxContents' /\ RxInOrder'
  BY <1>0 DEF RxContents, RxInOrder, Copied, Within, RxDist
<1>4. TxRing'
  BY TxFrame DEF RxWriteBack, txState, txDriver, card
<1> QED BY <1>1, <1>2, <1>3, <1>4

\* handle_interrupt moves on and gives one more descriptor to the card.
LEMMA RxReleaseRxIInv ==
  ASSUME RxIInv, RxRelease
  PROVE  RxIInv'
<1> USE DescAssumption, CardAssumption DEF RxIInv
<1>0. /\ pc = "rx_tail" /\ pc' = "rx_read"
      /\ cur_rx' = RxNext(cur_rx) /\ rdt' = cur_rx
      /\ UNCHANGED <<rdh, rx_dd, rx_data, received, rx_out>>
      /\ cur_rx \in RxSlot /\ rdh \in RxSlot /\ cur_rx' \in RxSlot
      /\ received \in Nat
  BY DEF RxRelease, TypeOK, RxSlot, RxNext, card
<1>1. TypeOK'
  BY <1>0, ZenonT(30) DEF RxRelease, TypeOK, card, txDriver, sender
<1>2. Len(rx_out) \in Nat
  BY LenProperties DEF TypeOK
<1>3. cur_rx # rdh
  BY <1>0 DEF RxRing
<1>4. /\ \A i \in RxSlot : Within(i, cur_rx', rdh) <=> Within(i, cur_rx, rdh) /\ i # cur_rx
      /\ RxDist(cur_rx', rdh) = RxDist(cur_rx, rdh) - 1
      /\ \A i \in RxSlot : i # cur_rx => RxDist(cur_rx', i) = RxDist(cur_rx, i) - 1
      /\ \A i \in RxSlot : RxDist(cur_rx, i) \in Int
  BY <1>0, <1>3 DEF RxSlot, RxNext, Within, RxDist
<1>5. RxRing'
  BY <1>0, <1>4 DEF RxRing
<1>6. RxContents'
  <2>1. Copied = 1 /\ Copied' = 0
    BY <1>0 DEF Copied
  <2>2. received' + Copied' = Len(rx_out') + RxDist(cur_rx', rdh')
    BY <1>0, <1>2, <1>4, <2>1 DEF RxContents
  <2>3. ASSUME NEW i \in RxSlot, Within(i, cur_rx', rdh')
        PROVE  rx_data'[i] + Copied' = Len(rx_out') + RxDist(cur_rx', i) + 1
    <3>1. rx_data[i] \in Nat
      BY DEF TypeOK
    <3>2. Within(i, cur_rx, rdh) /\ i # cur_rx
      BY <1>0, <1>4, <2>3
    <3>3. rx_data[i] + 1 = Len(rx_out) + RxDist(cur_rx, i) + 1
      BY <2>1, <3>2 DEF RxContents
    <3>4. RxDist(cur_rx', i) = RxDist(cur_rx, i) - 1 /\ RxDist(cur_rx, i) \in Int
      BY <1>4, <3>2
    <3>5. rx_data'[i] = rx_data[i] /\ Len(rx_out') = Len(rx_out)
      BY <1>0
    <3> QED BY <1>2, <2>1, <3>1, <3>3, <3>4, <3>5
  <2> QED BY <2>2, <2>3 DEF RxContents
<1>7. RxInOrder'
  BY <1>0 DEF RxInOrder
<1>8. TxRing'
  BY TxFrame DEF RxRelease, txState, txDriver, card
<1> QED BY <1>1, <1>5, <1>6, <1>7, <1>8

\* The card transmits what enqueue_packet put at the head.
LEMMA CardTransmitRxIInv ==
  ASSUME RxIInv, CardTransmit
  PROVE  RxIInv'
<1> USE DescAssumption, CardAssumption DEF RxIInv
<1>0. /\ tdh \in TxSlot /\ tdt \in TxSlot /\ tdh # tdt
      /\ tdh' = TxNext(tdh) /\ tdh' \in TxSlot /\ UNCHANGED <<tdt, tx_addr, cur_tx>>
  BY DEF CardTransmit, TypeOK, TxSlot, TxNext, txDriver
<1>1. tdh \in CardTx
  BY <1>0 DEF CardTx, Within, TxSlot
<1>2. CardTx' \subseteq CardTx
  BY <1>0 DEF CardTx, Within, TxSlot, TxNext
<1>3. wire' \in Seq(1..MaxTx)
  BY <1>1, AppendProperties DEF CardTransmit, TxRing, TypeOK
<1>4. TypeOK'
  BY <1>0, <1>3, ZenonT(30) DEF CardTransmit, TypeOK, rxDriver, txDriver, sender
<1>5. RxRing' /\ RxContents' /\ RxInOrder'
  BY RxFramePc DEF CardTransmit, rxState, rxDriver
<1>6. TxRing'
  BY <1>0, <1>2 DEF TxRing
<1> QED BY <1>4, <1>5, <1>6

\* handle_interrupt hands one packet to the card.
LEMMA TxSendRxIInv ==
  ASSUME RxIInv, TxSend
  PROVE  RxIInv'
<1> USE DescAssumption, CardAssumption DEF RxIInv
<1> DEFINE p == Head(packet_queue)
<1>1. p \in 1..MaxTx /\ packet_queue' \in Seq(1..MaxTx)
  BY HeadTailProperties, ZenonT(30) DEF TxSend, TypeOK
<1>2. /\ pc = "tx_send" /\ pc' = pc
      /\ tdh \in TxSlot /\ cur_tx \in TxSlot /\ tdt = cur_tx /\ tdh' = tdh
      /\ cur_tx' = TxNext(cur_tx) /\ tdt' = TxNext(cur_tx)
      /\ sent' = sent + 1 /\ sent < TX_DESC /\ sent \in 0..TX_DESC
  BY DEF TxSend, TypeOK, TxRing, card
<1>2b. cur_tx' \in TxSlot /\ sent' \in 0..TX_DESC
  BY <1>2 DEF TxSlot, TxNext
<1>2c. /\ tx_addr' = [tx_addr EXCEPT ![cur_tx] = p]
       /\ tx_buffers' = [tx_buffers EXCEPT ![cur_tx] = p]
       /\ tx_addr \in [TxSlot -> 0..MaxTx] /\ tx_buffers \in [TxSlot -> 0..MaxTx]
  BY ZenonT(30) DEF TxSend, TypeOK
<1> HIDE DEF p
<1>2a. /\ tx_addr' = [tx_addr EXCEPT ![cur_tx] = p]
       /\ tx_addr' \in [TxSlot -> 0..MaxTx] /\ tx_buffers' \in [TxSlot -> 0..MaxTx]
       /\ tx_addr \in [TxSlot -> 0..MaxTx]
  <2>1. p \in 0..MaxTx
    BY <1>1
  <2> QED BY <1>2c, <2>1, ZenonT(30)
<1>3. TypeOK'
  BY <1>1, <1>2, <1>2a, <1>2b, ZenonT(30) DEF TxSend, TypeOK, card, rxDriver
<1>4. RxRing' /\ RxContents' /\ RxInOrder'
  BY RxFramePc DEF TxSend, rxState, rxDriver, card
<1>5. CardTx' \subseteq CardTx \cup {cur_tx}
  BY <1>2 DEF CardTx, Within, TxSlot, TxNext
<1>6. CardTx \subseteq TxSlot
  BY DEF CardTx
<1>7. TxRing'
  BY <1>1, <1>2, <1>2a, <1>5, <1>6 DEF TxRing
<1> QED BY <1>3, <1>4, <1>7

\* The steps that touch neither ring.
LEMMA OtherRxIInv ==
  ASSUME RxIInv,
         \/ CardRaiseRx \/ CardRaiseTx \/ Enqueue \/ Notify \/ EnableInterrupts
         \/ ReadCause \/ RxRead \/ TxHeads \/ TxSendDone \/ Reclaim \/ ReclaimDone
  PROVE  RxIInv'
<1> USE DescAssumption, CardAssumption DEF RxIInv
<1>1. CASE CardRaiseRx
  <2>0. icr' \in SUBSET (0..31)
    BY <1>1, CauseLayout DEF CardRaiseRx, TypeOK
  <2>1. TypeOK'
    BY <1>1, <2>0, ZenonT(30) DEF CardRaiseRx, TypeOK, rxDriver, txDriver, sender
  <2>2. RxRing' /\ RxContents' /\ RxInOrder' /\ TxRing'
    BY <1>1, RxFramePc, TxFrame DEF CardRaiseRx, rxState, txState, rxDriver, txDriver
  <2> QED BY <2>1, <2>2, ZenonT(30)
<1>2. CASE CardRaiseTx
  <2>0. icr' \in SUBSET (0..31)
    BY <1>2, CauseLayout DEF CardRaiseTx, TypeOK
  <2>1. TypeOK'
    BY <1>2, <2>0, ZenonT(30) DEF CardRaiseTx, TypeOK, rxDriver, txDriver, sender
  <2>2. RxRing' /\ RxContents' /\ RxInOrder' /\ TxRing'
    BY <1>2, RxFramePc, TxFrame DEF CardRaiseTx, rxState, txState, rxDriver, txDriver
  <2> QED BY <2>1, <2>2
<1>3. CASE Enqueue
  <2>1. queued + 1 \in 1..MaxTx /\ queued' \in 0..MaxTx
    BY <1>3 DEF Enqueue, TypeOK
  <2>2. packet_queue' \in Seq(1..MaxTx) /\ heap' \in SUBSET (1..MaxTx)
    BY <1>3, <2>1, AppendProperties, ZenonT(30) DEF Enqueue, TypeOK
  <2>3. TypeOK'
    BY <1>3, <2>1, <2>2, ZenonT(30) DEF Enqueue, TypeOK, card, rxDriver, txDriver
  <2>4. RxRing' /\ RxContents' /\ RxInOrder' /\ TxRing'
    BY <1>3, RxFramePc, TxFrame, ZenonT(30) DEF Enqueue, rxState, txState, card, rxDriver, txDriver
  <2> QED BY <2>3, <2>4
<1>4. CASE Notify
  <2>a. icr' = icr \cup {15}
    BY <1>4, CauseLayout DEF Notify
  <2>0. icr' \in SUBSET (0..31)
    BY <2>a, SMTT(30) DEF TypeOK
  <2>1. TypeOK'
    BY <1>4, <2>0, ZenonT(30) DEF Notify, TypeOK, card, rxDriver, txDriver
  <2>2. RxRing' /\ RxContents' /\ RxInOrder' /\ TxRing'
    BY <1>4, RxFramePc, TxFrame, ZenonT(30) DEF Notify, rxState, txState, card, rxDriver, txDriver
  <2> QED BY <2>1, <2>2
<1>5. CASE EnableInterrupts
  <2>1. TypeOK'
    BY <1>5, ZenonT(30) DEF EnableInterrupts, TypeOK, card, rxDriver, txDriver, sender
  <2>2. RxRing' /\ RxContents' /\ RxInOrder' /\ TxRing'
    BY <1>5, RxFrame, TxFrame DEF EnableInterrupts, RxBusy, rxState, txState, card, rxDriver, txDriver
  <2> QED BY <2>1, <2>2
<1>6. CASE ReadCause
  <2>1. TypeOK'
    BY <1>6, CauseDecoding, ZenonT(30) DEF ReadCause, TypeOK, card, rxDriver, txDriver, sender
  <2>2. RxRing' /\ RxContents' /\ RxInOrder' /\ TxRing'
    BY <1>6, RxFrame, TxFrame, ZenonT(30) DEF ReadCause, RxBusy, rxState, txState, card, rxDriver, txDriver
  <2> QED BY <2>1, <2>2
<1>7. CASE RxRead
  <2>0. /\ pc = "rx_read" /\ pc' \in {"rx_copy", "tx_heads"}
        /\ pc' = "rx_copy" => cur_rx \in rx_dd
        /\ UNCHANGED <<rdh, rdt, rx_dd, rx_data, cur_rx, rx_out, received>>
    BY <1>7 DEF RxRead, card, rxDriver
  <2>1. TypeOK'
    BY <1>7, ZenonT(30) DEF RxRead, TypeOK, card, rxDriver, txDriver, sender
  <2>2. cur_rx \in RxSlot /\ rdh \in RxSlot
    BY DEF TypeOK
  <2>3. cur_rx \in rx_dd => cur_rx # rdh
    BY <2>2 DEF RxRing, Within, RxSlot
  <2>4. RxRing'
    BY <2>0, <2>3 DEF RxRing, Within, RxNext
  <2>5. RxContents' /\ RxInOrder'
    BY <2>0 DEF RxContents, RxInOrder, Copied, Within, RxDist
  <2>6. TxRing'
    BY <1>7, TxFrame DEF RxRead, txState, card, txDriver
  <2> QED BY <2>1, <2>4, <2>5, <2>6
<1>8. CASE TxHeads
  <2>1. TypeOK'
    <3>1. pc' \in {"tx_send", "reclaim", "idle"} /\ sent' \in 0..TX_DESC
      BY <1>8 DEF TxHeads, AfterSend
    <3>2. cur_tx_head' \in TxSlot /\ tx_index' \in TxSlot
      BY <1>8 DEF TxHeads, TypeOK
    <3> QED BY <1>8, <3>1, <3>2, ZenonT(30) DEF TxHeads, TypeOK, card, rxDriver, sender
  <2>2. RxRing' /\ RxContents' /\ RxInOrder' /\ TxRing'
    BY <1>8, RxFrame, TxFrame, ZenonT(30) DEF TxHeads, AfterSend, RxBusy, rxState, txState, card, rxDriver
  <2> QED BY <2>1, <2>2
<1>9. CASE TxSendDone
  <2>1. TypeOK'
    BY <1>9, ZenonT(30) DEF TxSendDone, AfterSend, TypeOK, card, rxDriver, txDriver, sender
  <2>2. RxRing' /\ RxContents' /\ RxInOrder' /\ TxRing'
    BY <1>9, RxFrame, TxFrame, ZenonT(30) DEF TxSendDone, AfterSend, RxBusy, rxState, txState, card, rxDriver, txDriver
  <2> QED BY <2>1, <2>2
<1>10. CASE Reclaim
  <2>a. tx_index \in TxSlot /\ last_reclaimed_tx \in TxSlot /\ tx_buffers \in [TxSlot -> 0..MaxTx]
    BY DEF TypeOK
  <2>b. TxNext(tx_index) \in TxSlot
    BY <2>a DEF TxSlot, TxNext
  <2>0. tx_index' \in TxSlot /\ last_reclaimed_tx' \in TxSlot
    BY <1>10, <2>a, <2>b DEF Reclaim
  <2>c. Null \in 0..MaxTx
    BY DEF Null
  <2>d. [tx_buffers EXCEPT ![tx_index] = Null] \in [TxSlot -> 0..MaxTx]
    BY <2>a, <2>c, SMTT(30)
  <2>1. tx_buffers' \in [TxSlot -> 0..MaxTx] /\ heap' \in SUBSET (1..MaxTx)
    BY <1>10, <2>a, <2>d, ZenonT(30) DEF Reclaim, TypeOK
  <2>2. TypeOK'
    BY <1>10, <2>0, <2>1, ZenonT(30) DEF Reclaim, TypeOK, card, rxDriver
  <2>3. RxRing' /\ RxContents' /\ RxInOrder' /\ TxRing'
    BY <1>10, RxFramePc, TxFrame, SMTT(30) DEF Reclaim, rxState, txState, card, rxDriver
  <2> QED BY <2>2, <2>3
<1>11. CASE ReclaimDone
  <2>1. TypeOK'
    BY <1>11, ZenonT(30) DEF ReclaimDone, TypeOK, card, rxDriver, txDriver, sender
  <2>2. RxRing' /\ RxContents' /\ RxInOrder' /\ TxRing'
    BY <1>11, RxFrame, TxFrame, ZenonT(30) DEF ReclaimDone, RxBusy, rxState, txState, card, rxDriver, txDriver
  <2> QED BY <2>1, <2>2
<1> QED BY <1>1, <1>2, <1>3, <1>4, <1>5, <1>6, <1>7, <1>8, <1>9, <1>10, <1>11

\* The stuttering step.
LEMMA StutterRxIInv ==
  ASSUME RxIInv, UNCHANGED vars
  PROVE  RxIInv'
<1> USE DEF RxIInv
<1>1. TypeOK'
  BY ZenonT(30) DEF vars, TypeOK, card, rxDriver, txDriver, sender
<1>2. RxRing' /\ RxContents' /\ RxInOrder' /\ TxRing'
  BY RxFramePc, TxFrame DEF vars, rxState, txState, card, rxDriver, txDriver
<1> QED BY <1>1, <1>2

\* RxIInv holds in every state the driver and the card can reach.
THEOREM DriverInvariant == Spec => []RxIInv
<1>1. Init => RxIInv
  BY InitRxIInv
<1>2. RxIInv /\ [Next]_vars => RxIInv'
  BY CardReceiveRxIInv, RxCopyRxIInv, RxWriteBackRxIInv, RxReleaseRxIInv,
     CardTransmitRxIInv, TxSendRxIInv, OtherRxIInv, StutterRxIInv
  DEF Next, Card, handle_interrupt, Receive, Transmit
<1> QED BY <1>1, <1>2, PTL DEF Spec

\* Every variable of the driver and the card keeps its type: in particular the
\* ring positions never leave the rings and no null pointer is transmitted.
THEOREM TypeCorrect == Spec => []TypeOK
<1>1. RxIInv => TypeOK
  BY DEF RxIInv
<1> QED BY <1>1, DriverInvariant, PTL

\* For every length of the ring, the driver and the card never hold one receive
\* descriptor at the same time.
THEOREM RxDescriptorsExclusive == Spec => []RxExclusive
<1>1. RxIInv => RxExclusive
  <2> SUFFICES ASSUME RxIInv PROVE RxExclusive
    OBVIOUS
  <2>1. /\ rdh \in RxSlot /\ rdt \in RxSlot /\ cur_rx \in RxSlot /\ RxNext(rdt) = cur_rx
        /\ rx_dd \subseteq RxSlot
    BY DEF RxIInv, TypeOK, RxRing
  <2>2. \A i \in RxSlot : ~(Within(i, rdh, rdt) /\ Within(i, cur_rx, rdh))
    BY <2>1, DescAssumption DEF RxSlot, RxNext, Within
  <2>3. CardRx \cap rx_dd = {}
    BY <2>1, <2>2 DEF RxIInv, RxRing, CardRx
  <2>4. ~Within(cur_rx, rdh, rdt) \/ cur_rx = rdh
    BY <2>1, DescAssumption DEF RxSlot, RxNext, Within
  <2>5. pc \in {"rx_copy", "rx_write", "rx_tail"} => cur_rx \notin CardRx
    BY <2>1, <2>4 DEF RxIInv, RxRing, CardRx
  <2> QED BY <2>3, <2>5 DEF RxExclusive
<1> QED BY <1>1, DriverInvariant, PTL

\* For every length of the ring, packets are passed on in order, none lost after
\* it was accepted and none twice.
THEOREM RxDeliveredInOrder == Spec => []RxInOrder
<1>1. RxIInv => RxInOrder
  BY DEF RxIInv
<1> QED BY <1>1, DriverInvariant, PTL

\* For every length of the ring, the card is only ever out of receive
\* descriptors while there are packets to read.
THEOREM RxRingNotWedged == Spec => []RxNotWedged
<1>1. RxIInv => RxNotWedged
  <2> SUFFICES ASSUME RxIInv, rdh = rdt, pc # "rx_tail" PROVE rx_dd # {}
    BY DEF RxNotWedged
  <2>1. rdh \in RxSlot /\ rdt \in RxSlot /\ cur_rx \in RxSlot /\ RxNext(rdt) = cur_rx
    BY DEF RxIInv, TypeOK, RxRing
  <2>2. Within(cur_rx, cur_rx, rdh)
    BY <2>1, DescAssumption DEF RxSlot, RxNext, Within
  <2>3. cur_rx \in rx_dd
    BY <2>1, <2>2 DEF RxIInv, RxRing
  <2> QED BY <2>3
<1> QED BY <1>1, DriverInvariant, PTL

-----------------------------------------------------------------------------
(* No packet is forgotten.                                                 *)

\* RxNotForgotten, and nothing received before the interrupts are enabled.
RxPending ==
  /\ pc = "init" => rx_dd = {} /\ ~rx_raise
  /\ RxNotForgotten

\* If no packet arrives before enable_interrupts clears the cause register, the
\* handler never leaves a packet in the ring without an interrupt on the way.
THEOREM RxInterruptPending ==
  ASSUME MaxEarly = 0
  PROVE  Spec => []RxNotForgotten
<1>1. Init => RxPending
  BY ZenonT(30) DEF Init, RxPending, RxNotForgotten
<1>2. RxIInv /\ RxPending /\ [Next]_vars => RxPending'
  <2> SUFFICES ASSUME RxIInv, RxPending, [Next]_vars PROVE RxPending'
    OBVIOUS
  <2> USE DEF RxPending, RxNotForgotten
  <2>1. CASE CardReceive
    <3>1. pc # "init"
      BY <2>1, MaxEarly = 0 DEF CardReceive, RxIInv, TypeOK
    <3> QED BY <2>1, <3>1, ZenonT(30) DEF CardReceive
  <2>2. CASE CardRaiseRx
    BY <2>2, CauseLayout, ZenonT(30) DEF CardRaiseRx
  <2>2a. CASE CardTransmit \/ CardRaiseTx
    BY <2>2a DEF CardTransmit, CardRaiseTx
  <2>3. CASE Enqueue \/ Notify
    BY <2>3 DEF Enqueue, Notify, card
  <2>3a. CASE EnableInterrupts
    BY <2>3a DEF EnableInterrupts, card
  <2>3b. CASE ReadCause
    <3>1. CardBit.RXT0 \in icr => pc' = "rx_read"
      BY <2>3b, CauseLayout, CauseDecoding DEF ReadCause
    <3> QED BY <2>3b, <3>1, ZenonT(30) DEF ReadCause, card
  <2>4. CASE RxRead
    <3>1. cur_rx \in RxSlot /\ rdh \in RxSlot /\ rx_dd \subseteq RxSlot
      BY DEF RxIInv, TypeOK
    <3>2. cur_rx \notin rx_dd => cur_rx = rdh
      BY <2>4, <3>1 DEF RxRead, RxIInv, RxRing, Within, RxSlot
    <3>3. cur_rx = rdh => \A i \in RxSlot : ~Within(i, cur_rx, rdh)
      BY <3>1 DEF Within, RxSlot
    <3>4. cur_rx \notin rx_dd => rx_dd = {}
      BY <3>1, <3>2, <3>3 DEF RxIInv, RxRing
    <3> QED BY <2>4, <3>4 DEF RxRead
  <2>5. CASE RxCopy \/ RxWriteBack \/ RxRelease
    <3>1. pc # "init" /\ pc' \in {"rx_write", "rx_tail", "rx_read"}
      BY <2>5, ZenonT(30) DEF RxCopy, RxWriteBack, RxRelease
    <3> QED BY <3>1
  <2>6. CASE TxHeads \/ TxSend \/ TxSendDone \/ Reclaim \/ ReclaimDone
    BY <2>6, ZenonT(30) DEF TxHeads, TxSend, TxSendDone, AfterSend, Reclaim, ReclaimDone, card
  <2>7. CASE UNCHANGED vars
    BY <2>7 DEF vars, card
  <2> QED BY <2>1, <2>2, <2>2a, <2>3, <2>3a, <2>3b, <2>4, <2>5, <2>6, <2>7, ZenonT(30)
          DEF Next, Card, handle_interrupt, Receive, Transmit
<1>3. RxPending => RxNotForgotten
  BY DEF RxPending
<1> QED BY <1>1, <1>2, <1>3, DriverInvariant, PTL DEF Spec

\* The handler's send loop takes at most what was queued when it began; nothing
\* is queued before the interrupts are enabled.
SendBound ==
  /\ pc = "init" => packet_queue = <<>>
  /\ Len(packet_queue) <= MaxQueued
  /\ pc = "tx_send" => sent + Len(packet_queue) <= MaxQueued

\* TxNotForgotten, with the bound that makes it inductive.
TxPending == SendBound /\ TxNotForgotten

\* It is an invariant while no more packets wait than the ring has descriptors.
LEMMA TxPendingInvariant ==
  ASSUME MaxQueued <= TX_DESC
  PROVE  Spec => []TxPending
<1> USE DescAssumption, CardAssumption
<1>1. Init => TxPending
  <2>1. Init => pc = "init" /\ packet_queue = <<>> /\ Len(packet_queue) = 0
    BY SMTT(30) DEF Init
  <2> QED BY <2>1, SMTT(30) DEF TxPending, SendBound, TxNotForgotten
<1>2. RxIInv /\ TxPending /\ [Next]_vars => TxPending'
  <2> SUFFICES ASSUME RxIInv, TxPending, [Next]_vars PROVE TxPending'
    OBVIOUS
  <2>0. packet_queue \in Seq(1..MaxTx) /\ Len(packet_queue) \in Nat /\ sent \in Nat
    <3>1. packet_queue \in Seq(1..MaxTx) /\ sent \in 0..TX_DESC
      BY ZenonT(30) DEF RxIInv, TypeOK
    <3> QED BY <3>1, LenProperties
  <2> USE DEF TxPending
  <2>1. CASE CardReceive
    <3>1. UNCHANGED <<packet_queue, pc, cause, sent, tdh, tdt, tx_raise, notifying, icr>>
      BY <2>1 DEF CardReceive, txDriver, sender
    <3>2. SendBound'
      BY <3>1, ZenonT(30) DEF SendBound
    <3>3. TxNotForgotten'
      BY <3>1, ZenonT(30) DEF TxNotForgotten
    <3> QED BY <3>2, <3>3, ZenonT(30)
  <2>1a. CASE CardRaiseRx
    <3>1. UNCHANGED <<packet_queue, pc, cause, sent, tdh, tdt, tx_raise, notifying>>
          /\ icr \subseteq icr'
      BY <2>1a DEF CardRaiseRx, txDriver, sender
    <3> QED BY <3>1, ZenonT(30) DEF SendBound, TxNotForgotten
  <2>1c. CASE CardTransmit
    <3>1. tx_raise' /\ UNCHANGED <<packet_queue, pc, sent>>
      BY <2>1c, ZenonT(30) DEF CardTransmit, txDriver, sender
    <3> QED BY <3>1, ZenonT(30) DEF SendBound, TxNotForgotten
  <2>1b. CASE CardRaiseTx
    <3>1. icr' \cap EnabledCauses \cap {CardBit.TXDW, CardBit.TXD_LOW} # {}
      BY <2>1b, CauseLayout, ZenonT(30) DEF CardRaiseTx
    <3> QED BY <2>1b, <3>1, ZenonT(30) DEF CardRaiseTx, SendBound, TxNotForgotten, txDriver, sender
  <2>2. CASE Enqueue
    <3>1. Len(packet_queue') = Len(packet_queue) + 1
      BY <2>0, <2>2 DEF Enqueue
    <3>2. notifying' /\ pc' = "idle" /\ Len(packet_queue') <= MaxQueued
      BY <2>0, <2>2, <3>1, SMTT(30) DEF Enqueue
    <3> QED BY <3>2, ZenonT(30) DEF SendBound, TxNotForgotten
  <2>3. CASE Notify
    <3>1. icr' \cap EnabledCauses \cap {CardBit.TXDW, CardBit.TXD_LOW} # {}
      BY <2>3, CauseLayout, ZenonT(30) DEF Notify
    <3> QED BY <2>3, <3>1, ZenonT(30) DEF Notify, SendBound, TxNotForgotten, txDriver
  <2>3a. CASE EnableInterrupts
    BY <2>3a, ZenonT(30) DEF EnableInterrupts, SendBound, TxNotForgotten, txDriver, sender
  <2>3b. CASE ReadCause
    <3>1. icr \cap EnabledCauses \cap {CardBit.TXDW, CardBit.TXD_LOW} # {}
            => cause' \cap {"txdw", "txd_low"} # {}
      BY <2>3b, CauseLayout, CauseDecoding DEF ReadCause
    <3>2. pc = "idle" /\ pc' \in {"rx_read", "tx_heads"}
      BY <2>3b DEF ReadCause
    <3>3. SendBound'
      BY <2>3b, <3>2 DEF ReadCause, SendBound, txDriver, sender
    <3>4. UNCHANGED <<packet_queue, tdh, tdt, tx_raise, notifying>>
      BY <2>3b, ZenonT(30) DEF ReadCause, card, txDriver, sender
    <3>5. TxNotForgotten'
      BY <3>1, <3>2, <3>4, ZenonT(30) DEF TxNotForgotten
    <3> QED BY <3>3, <3>5, ZenonT(30)
  <2>4. CASE RxRead \/ RxCopy \/ RxWriteBack \/ RxRelease
    <3>1. pc \in {"rx_read", "rx_copy", "rx_write", "rx_tail"}
      BY <2>4 DEF RxRead, RxCopy, RxWriteBack, RxRelease
    <3>2. pc' \in {"rx_read", "rx_copy", "rx_write", "rx_tail", "tx_heads"}
      BY <2>4, ZenonT(30) DEF RxRead, RxCopy, RxWriteBack, RxRelease
    <3>3. UNCHANGED <<packet_queue, tdh, tdt, tx_raise, notifying, icr, cause>>
      BY <2>4, ZenonT(30) DEF RxRead, RxCopy, RxWriteBack, RxRelease, card, txDriver, sender
    <3>4. SendBound'
      BY <3>2, <3>3, ZenonT(30) DEF SendBound
    <3>5. TxNotForgotten'
      BY <3>1, <3>2, <3>3, ZenonT(30) DEF TxNotForgotten
    <3> QED BY <3>4, <3>5
  <2>5. CASE TxHeads
    <3>1. SendBound'
      BY <2>0, <2>5 DEF TxHeads, AfterSend, SendBound, sender
    <3>2. ASSUME cause \cap {"txdw", "txd_low"} # {}, tdh = tdt
          PROVE  pc' = "tx_send"
      BY <2>5, <3>2 DEF TxHeads
    <3>3. UNCHANGED <<packet_queue, tdh, tdt, tx_raise, notifying, icr>> /\ pc = "tx_heads"
      BY <2>5 DEF TxHeads, card, sender
    <3>4. TxNotForgotten'
      BY <3>2, <3>3, ZenonT(30) DEF TxNotForgotten
    <3> QED BY <3>1, <3>4
  <2>6. CASE TxSend
    <3>1. Len(packet_queue') = Len(packet_queue) - 1
      BY <2>0, <2>6, HeadTailProperties DEF TxSend
    <3>2. pc = "tx_send" /\ pc' = "tx_send" /\ sent' = sent + 1
      BY <2>6 DEF TxSend
    <3> QED BY <2>0, <3>1, <3>2 DEF SendBound, TxNotForgotten
  <2>7. CASE TxSendDone
    <3>1. packet_queue = <<>>
      <4>1. CASE sent = TX_DESC
        <5>1. Len(packet_queue) = 0
          BY <2>0, <2>7, <4>1, MaxQueued <= TX_DESC DEF TxSendDone, SendBound
        <5> QED BY <2>0, <5>1, EmptySeq
      <4> QED BY <2>7, <4>1 DEF TxSendDone
    <3>2. packet_queue' = packet_queue /\ pc' \in {"reclaim", "idle"}
      BY <2>7, ZenonT(30) DEF TxSendDone, AfterSend, sender
    <3> QED BY <2>0, <3>1, <3>2, ZenonT(30) DEF SendBound, TxNotForgotten
  <2>8. CASE Reclaim \/ ReclaimDone
    <3>1. pc = "reclaim" /\ pc' \in {"reclaim", "idle"}
      BY <2>8, ZenonT(30) DEF Reclaim, ReclaimDone
    <3>2. UNCHANGED <<packet_queue, tdh, tdt, tx_raise, notifying, icr>>
      BY <2>8, ZenonT(30) DEF Reclaim, ReclaimDone, card, txDriver, sender
    <3>3. SendBound'
      BY <3>1, <3>2, ZenonT(30) DEF SendBound
    <3>4. TxNotForgotten'
      BY <3>1, <3>2, ZenonT(30) DEF TxNotForgotten
    <3> QED BY <3>3, <3>4
  <2>9. CASE UNCHANGED vars
    BY <2>9, ZenonT(30) DEF vars, SendBound, TxNotForgotten, card, txDriver, sender
  <2> QED BY <2>1, <2>1a, <2>1b, <2>1c, <2>2, <2>3, <2>3a, <2>3b, <2>4, <2>5, <2>6, <2>7,
             <2>8, <2>9
          DEF Next, Card, handle_interrupt, Receive, Transmit
<1> QED BY <1>1, <1>2, DriverInvariant, PTL DEF Spec

\* While no more packets wait than the transmit ring has descriptors, a queued
\* packet always has something that will make the handler look at the queue.
THEOREM TxInterruptPending ==
  ASSUME MaxQueued <= TX_DESC
  PROVE  Spec => []TxNotForgotten
<1>1. TxPending => TxNotForgotten
  BY DEF TxPending
<1> QED BY <1>1, TxPendingInvariant, PTL

-----------------------------------------------------------------------------
(* The receive direction implements PacketFifo.                            *)

\* The packets after number a up to number b, in order.
Numbered(a, b) == [k \in 1..b-a |-> a + k]

\* A sequence given by its elements.
LEMMA SeqMade ==
  ASSUME NEW S, NEW k \in Nat, NEW f, f = [i \in 1..k |-> f[i]], \A i \in 1..k : f[i] \in S
  PROVE  f \in Seq(S) /\ Len(f) = k
  OBVIOUS

\* Sequences of the same length with the same elements are equal.
LEMMA SeqEqual ==
  ASSUME NEW S, NEW s \in Seq(S), NEW t \in Seq(S), Len(s) = Len(t),
         \A i \in 1..Len(s) : s[i] = t[i]
  PROVE  s = t
  OBVIOUS

\* A function that counts on from a.
LEMMA NumberedBy ==
  ASSUME NEW a \in Int, NEW b \in Int, NEW f,
         f = [k \in 1..b-a |-> f[k]], \A k \in 1..b-a : f[k] = a + k
  PROVE  f = Numbered(a, b)
  BY Zenon DEF Numbered

\* What joining two sequences returns.
LEMMA JoinProperties ==
  ASSUME NEW S, NEW s \in Seq(S), NEW t \in Seq(S)
  PROVE  /\ s \o t \in Seq(S) /\ Len(s \o t) = Len(s) + Len(t)
         /\ \A k \in 1..Len(s) : (s \o t)[k] = s[k]
         /\ \A k \in Len(s)+1..Len(s)+Len(t) : (s \o t)[k] = t[k - Len(s)]
  OBVIOUS

\* What happens at its two ends.
LEMMA NumberedEnds ==
  ASSUME NEW a \in Int, NEW b \in Int, a <= b
  PROVE  /\ Numbered(a, b) \in Seq(Int) /\ Len(Numbered(a, b)) = b - a
         /\ Numbered(a, b + 1) = Append(Numbered(a, b), b + 1)
         /\ a < b => /\ Numbered(a, b) # <<>> /\ Head(Numbered(a, b)) = a + 1
                     /\ Tail(Numbered(a, b)) = Numbered(a + 1, b)
<1>1. ASSUME NEW c \in Int, NEW d \in Int, c <= d
      PROVE  /\ Numbered(c, d) \in Seq(Int) /\ Len(Numbered(c, d)) = d - c
             /\ \A k \in 1..d-c : Numbered(c, d)[k] = c + k
  BY <1>1 DEF Numbered
<1>2. Numbered(a, b + 1) = Append(Numbered(a, b), b + 1)
  <2> DEFINE s == Append(Numbered(a, b), b + 1)
             t == Numbered(a, b + 1)
  <2>1. /\ s \in Seq(Int) /\ Len(s) = b - a + 1
        /\ \A k \in 1..b-a+1 : s[k] = a + k
    <3> DEFINE u == Numbered(a, b)
    <3>1. u \in Seq(Int) /\ Len(u) = b - a /\ \A k \in 1..b-a : u[k] = a + k
      BY <1>1
    <3> HIDE DEF u
    <3>2. /\ Append(u, b + 1) \in Seq(Int) /\ Len(Append(u, b + 1)) = b - a + 1
          /\ \A k \in 1..b-a : Append(u, b + 1)[k] = u[k]
          /\ Append(u, b + 1)[b - a + 1] = b + 1
      BY <3>1
    <3>3. \A k \in 1..b-a+1 : k \in 1..b-a \/ k = b - a + 1
      OBVIOUS
    <3>4. \A k \in 1..b-a+1 : Append(u, b + 1)[k] = a + k
      <4> SUFFICES ASSUME NEW k \in 1..b-a+1 PROVE Append(u, b + 1)[k] = a + k
        OBVIOUS
      <4>1. CASE k \in 1..b-a
        BY <3>1, <3>2, <4>1, Zenon
      <4>2. CASE k = b - a + 1
        BY <3>2, <4>2
      <4> QED BY <3>3, <4>1, <4>2, ZenonT(30)
    <3> QED BY <3>2, <3>4 DEF u
  <2>2. /\ t \in Seq(Int) /\ Len(t) = b - a + 1
        /\ \A k \in 1..b-a+1 : t[k] = a + k
    BY <1>1
  <2> HIDE DEF s, t
  <2>3. s = t
    BY <2>1, <2>2, SeqEqual, ZenonT(30)
  <2> QED BY <2>3 DEF s, t
<1>3. ASSUME a < b
      PROVE  /\ Numbered(a, b) # <<>> /\ Head(Numbered(a, b)) = a + 1
             /\ Tail(Numbered(a, b)) = Numbered(a + 1, b)
  <2> DEFINE s == Numbered(a, b)
             t == Numbered(a + 1, b)
  <2>1. /\ s \in Seq(Int) /\ Len(s) = b - a
        /\ \A k \in 1..b-a : s[k] = a + k
    BY <1>1
  <2>2. /\ t \in Seq(Int) /\ Len(t) = b - a - 1
        /\ \A k \in 1..b-a-1 : t[k] = a + 1 + k
    BY <1>1, <1>3
  <2> HIDE DEF s, t
  <2>4. /\ s # <<>> /\ Head(s) = s[1] /\ Tail(s) \in Seq(Int) /\ Len(Tail(s)) = b - a - 1
        /\ \A k \in 1..b-a-1 : Tail(s)[k] = s[k + 1]
    BY <1>3, <2>1
  <2>5. \A k \in 1..b-a-1 : Tail(s)[k] = t[k]
    BY <2>1, <2>2, <2>4
  <2>6. Tail(s) = t
    BY <2>2, <2>4, <2>5, SeqEqual, ZenonT(30)
  <2>7. Head(s) = a + 1
    BY <1>3, <2>1, <2>4
  <2> QED BY <2>4, <2>6, <2>7 DEF s, t
<1> QED BY <1>1, <1>2, <1>3, ZenonT(30)

\* The place in a ring of length n that is k places behind c.
LEMMA RingPlace ==
  ASSUME NEW n \in Nat, n > 1, NEW c \in 0..n-1, NEW k \in 0..n-1
  PROVE  (c + k) % n = IF c + k < n THEN c + k ELSE c + k - n
  OBVIOUS

\* What is still to be copied are the packets after those that were passed on,
\* and they leave one descriptor free.
RxNumbered ==
  /\ RxWaiting = Numbered(Len(rx_out), received)
  /\ Len(rx_out) \in Nat /\ received \in Nat
  /\ Len(rx_out) <= received /\ received - Len(rx_out) <= RX_DESC - 1

\* This follows from where the driver and the card are in the ring.
LEMMA RxWaitingNumbered == ASSUME RxIInv PROVE RxNumbered
<1> USE DescAssumption, CardAssumption
<1> DEFINE n == IF cur_rx <= rdh THEN rdh - cur_rx ELSE rdh - cur_rx + RX_DESC
           s == [k \in 1..n |-> rx_data[(cur_rx + k - 1) % RX_DESC]]
<1>1. /\ cur_rx \in 0..RX_DESC-1 /\ rdh \in 0..RX_DESC-1 /\ received \in Nat
      /\ rx_data \in [RxSlot -> 0..MaxRx]
  <2>1. /\ cur_rx \in RxSlot /\ rdh \in RxSlot /\ received \in 0..MaxRx
        /\ rx_data \in [RxSlot -> 0..MaxRx]
    BY ZenonT(30) DEF RxIInv, TypeOK
  <2> QED BY <2>1 DEF RxSlot
<1>2. Len(rx_out) \in Nat
  BY LenProperties DEF RxIInv, TypeOK
<1>3. n = RxDist(cur_rx, rdh) /\ n \in 0..RX_DESC-1
  BY <1>1 DEF RxDist
<1>4. received + Copied = Len(rx_out) + n /\ Copied \in {0, 1}
  BY <1>3 DEF RxIInv, RxContents, Copied
<1>5. Copied = 1 => n > 0
  BY <1>1 DEF RxIInv, RxRing, Copied
<1>6. ASSUME NEW k \in 1..n PROVE s[k] = Len(rx_out) + k - Copied
  <2> DEFINE j == (cur_rx + (k - 1)) % RX_DESC
  <2>1. j = IF cur_rx + (k - 1) < RX_DESC THEN cur_rx + (k - 1) ELSE cur_rx + (k - 1) - RX_DESC
    <3>1. k - 1 \in 0..RX_DESC-1
      BY <1>3
    <3> QED BY <1>1, <3>1, RingPlace, ZenonT(30)
  <2> HIDE DEF j
  <2>2. j \in RxSlot /\ Within(j, cur_rx, rdh) /\ RxDist(cur_rx, j) = k - 1
    BY <1>1, <1>3, <2>1 DEF Within, RxDist, RxSlot
  <2>3. rx_data[j] + Copied = Len(rx_out) + (k - 1) + 1 /\ rx_data[j] \in Nat
    BY <1>1, <2>2 DEF RxIInv, RxContents
  <2>4. s[k] = rx_data[j]
    BY <1>1, <1>3 DEF j
  <2> HIDE DEF s, n
  <2>5. k \in Int
    BY <1>3
  <2>6. Copied \in Int
    BY <1>4
  <2> QED BY <1>2, <2>3, <2>4, <2>5, <2>6
<1>7. s = Numbered(Len(rx_out) - Copied, received)
  <2>1. s = [k \in 1..n |-> s[k]]
    OBVIOUS
  <2>2. /\ Len(rx_out) - Copied \in Int /\ n = received - (Len(rx_out) - Copied)
        /\ \A k \in 1..n : s[k] = (Len(rx_out) - Copied) + k
    <3> HIDE DEF s, n
    <3>1. Len(rx_out) - Copied \in Int /\ n = received - (Len(rx_out) - Copied)
      BY <1>1, <1>2, <1>3, <1>4
    <3>2. ASSUME NEW k \in 1..n PROVE s[k] = (Len(rx_out) - Copied) + k
      <4>1. s[k] = Len(rx_out) + k - Copied /\ k \in Int
        BY <1>3, <1>6
      <4> QED BY <1>2, <1>4, <4>1
    <3> QED BY <3>1, <3>2
  <2> DEFINE c == Len(rx_out) - Copied
  <2> HIDE DEF s, n
  <2>3. /\ s = [k \in 1..received-c |-> s[k]] /\ \A k \in 1..received-c : s[k] = c + k
        /\ c \in Int /\ received \in Int
    BY <1>1, <2>1, <2>2
  <2> HIDE DEF c
  <2>4. s = Numbered(c, received)
    BY <2>3, NumberedBy, Zenon
  <2> QED BY <2>4 DEF c
<1>8. RxWaiting = IF Copied = 1 THEN Tail(s) ELSE s
  BY DEF RxWaiting, Copied
<1> HIDE DEF n, s
<1>9. CASE Copied = 0
  BY <1>1, <1>2, <1>3, <1>4, <1>7, <1>8, <1>9 DEF RxNumbered
<1>10. CASE Copied = 1
  <2> DEFINE a == Len(rx_out) - 1
  <2>1. a \in Int /\ a < received /\ a + 1 = Len(rx_out)
    BY <1>1, <1>2, <1>3, <1>4, <1>5, <1>10
  <2>2. s = Numbered(a, received)
    BY <1>7, <1>10
  <2> HIDE DEF a
  <2>3. Tail(s) = Numbered(Len(rx_out), received)
    <3>1. received \in Int /\ a <= received
      BY <1>1, <2>1
    <3>2. Tail(Numbered(a, received)) = Numbered(a + 1, received)
      BY <2>1, <3>1, NumberedEnds, Zenon
    <3> QED BY <2>1, <2>2, <3>2, Zenon
  <2> QED BY <1>1, <1>2, <1>3, <1>4, <1>8, <1>10, <2>1, <2>3 DEF RxNumbered
<1> QED BY <1>4, <1>9, <1>10

\* Which packets are inside the channel changes in two steps only.
LEMMA RxSteps ==
  ASSUME RxIInv, [Next]_vars
  PROVE  \/ UNCHANGED <<received, rx_out>>
         \/ received' = received + 1 /\ UNCHANGED rx_out
         \/ /\ rx_out' = Append(rx_out, Len(rx_out) + 1) /\ Len(rx_out) < received
            /\ UNCHANGED received
<1>1. CASE CardReceive
  BY <1>1, ZenonT(30) DEF CardReceive, rxDriver
<1>2. CASE RxCopy
  <2>1. Copied = 0 /\ Within(cur_rx, cur_rx, rdh) /\ RxDist(cur_rx, cur_rx) = 0
        /\ RxDist(cur_rx, rdh) \in Nat \ {0}
    <3>1. cur_rx \in RxSlot /\ rdh \in RxSlot /\ pc = "rx_copy" /\ cur_rx # rdh
      BY <1>2, ZenonT(30) DEF RxCopy, RxIInv, TypeOK, RxRing
    <3> QED BY <3>1, DescAssumption DEF Copied, Within, RxDist, RxSlot
  <2>2. Len(rx_out) \in Nat /\ received \in Nat /\ rx_data[cur_rx] \in Nat /\ cur_rx \in RxSlot
    BY LenProperties, CardAssumption DEF RxIInv, TypeOK
  <2>3. /\ received + 0 = Len(rx_out) + RxDist(cur_rx, rdh)
        /\ rx_data[cur_rx] + 0 = Len(rx_out) + 0 + 1
    BY <2>1, <2>2 DEF RxIInv, RxContents
  <2>4. rx_data[cur_rx] = Len(rx_out) + 1 /\ Len(rx_out) < received
    BY <2>1, <2>2, <2>3
  <2>5. rx_out' = Append(rx_out, rx_data[cur_rx]) /\ UNCHANGED received
    BY <1>2 DEF RxCopy, card
  <2> QED BY <2>4, <2>5
<1>3. CASE ~CardReceive /\ ~RxCopy
  BY <1>3, ZenonT(30)
  DEF Next, Card, handle_interrupt, Receive, Transmit, CardRaiseRx, CardTransmit, CardRaiseTx,
      Enqueue, Notify, EnableInterrupts, ReadCause, RxRead, RxWriteBack, RxRelease, TxHeads,
      TxSend, TxSendDone, Reclaim, ReclaimDone, vars, card, rxDriver
<1> QED BY <1>1, <1>2, <1>3, ZenonT(30)

\* Receiving, from the card's write to the ring to the handler's queue, is a
\* first-in first-out channel as long as the ring less one descriptor, for rings
\* of every length: no packet the card accepted is lost, doubled or overtaken.
THEOREM ReceivingIsFifo == Spec => RxFifo!Spec
<1>1. Init => RxFifo!Init
  <2> SUFFICES ASSUME Init PROVE RxFifo!Init
    OBVIOUS
  <2>1. received = 0 /\ rx_out = <<>>
    BY ZenonT(30) DEF Init
  <2>2. RxWaiting = Numbered(0, 0)
    BY <2>1, InitRxIInv, RxWaitingNumbered DEF RxNumbered
  <2>3. Numbered(0, 0) = <<>>
    BY DEF Numbered
  <2> QED BY <2>1, <2>2, <2>3 DEF RxFifo!Init
<1>2. RxIInv /\ RxNumbered /\ RxNumbered' /\ [Next]_vars
        => [RxFifo!Next]_<<received, RxWaiting, rx_out>>
  <2> SUFFICES ASSUME RxIInv, RxNumbered, RxNumbered', [Next]_vars
               PROVE  [RxFifo!Next]_<<received, RxWaiting, rx_out>>
    OBVIOUS
  <2> DEFINE a == Len(rx_out)
  <2>1. /\ RxWaiting = Numbered(a, received) /\ a \in Nat /\ received \in Nat /\ a <= received
        /\ rx_out \in Seq(1..MaxRx)
    BY ZenonT(30) DEF RxNumbered, RxIInv, TypeOK
  <2>1a. a \in Int /\ received \in Int
    BY <2>1
  <2>2. /\ RxWaiting' = Numbered(Len(rx_out'), received')
        /\ received' - Len(rx_out') <= RX_DESC - 1
    BY DEF RxNumbered
  <2>3. CASE UNCHANGED <<received, rx_out>>
    BY <2>1, <2>2, <2>3
  <2>4. CASE received' = received + 1 /\ UNCHANGED rx_out
    <3>0. Len(rx_out') = a /\ RxWaiting' = Numbered(a, received + 1)
          /\ received + 1 - a <= RX_DESC - 1
      <4>1. rx_out' = rx_out /\ received' = received + 1
        BY <2>4, Zenon
      <4>2. Len(rx_out') = a
        BY <4>1
      <4>3. RxWaiting' = Numbered(a, received + 1)
        BY <2>2, <4>1, Zenon
      <4>4. received' - Len(rx_out') <= RX_DESC - 1
        BY <2>2, Zenon
      <4>5. received + 1 - a <= RX_DESC - 1
        BY <2>1a, <4>1, <4>4, DescAssumption
      <4> QED BY <4>2, <4>3, <4>5
    <3> HIDE DEF a
    <3>1. Len(RxWaiting) = received - a /\ RxWaiting' = Append(RxWaiting, received + 1)
      BY <2>1, <2>1a, <3>0, NumberedEnds, Zenon
    <3>2. Len(RxWaiting) < RX_DESC - 1
      BY <2>1, <3>0, <3>1, DescAssumption
    <3> QED BY <2>4, <3>1, <3>2, ZenonT(30) DEF RxFifo!Next, RxFifo!Accept
  <2>5. CASE /\ rx_out' = Append(rx_out, a + 1) /\ a < received
             /\ UNCHANGED received
    <3>1. Len(rx_out') = a + 1
      BY <2>1, <2>5
    <3>2. /\ RxWaiting # <<>> /\ Head(RxWaiting) = a + 1
          /\ RxWaiting' = Tail(RxWaiting)
      <4>1. RxWaiting' = Numbered(a + 1, received)
        BY <2>2, <2>5, <3>1, Zenon
      <4> HIDE DEF a
      <4>2. Head(Numbered(a, received)) = a + 1 /\ Numbered(a, received) # <<>>
            /\ Tail(Numbered(a, received)) = Numbered(a + 1, received)
        BY <2>1, <2>1a, <2>5, NumberedEnds, Zenon
      <4> QED BY <2>1, <4>1, <4>2, Zenon
    <3> QED BY <2>5, <3>2, ZenonT(30) DEF RxFifo!Next, RxFifo!Deliver
  <2> QED BY <2>3, <2>4, <2>5, RxSteps, ZenonT(30)
<1>3. RxIInv => RxNumbered
  BY RxWaitingNumbered
<1> QED BY <1>1, <1>2, <1>3, DriverInvariant, PTL DEF Spec, RxFifo!Spec

-----------------------------------------------------------------------------
(* The transmit direction implements PacketFifo.                           *)

\* The number of transmit descriptors from a up to b.
TxDist(a, b) == IF a <= b THEN b - a ELSE b - a + TX_DESC

\* What the card has to transmit and then what is queued continue the numbering
\* of the packets that were transmitted.
TxContents ==
  /\ queued = Len(wire) + TxDist(tdh, tdt) + Len(packet_queue)
  /\ \A i \in TxSlot :
       Within(i, tdh, tdt) => tx_addr[i] = Len(wire) + TxDist(tdh, i) + 1
  /\ \A k \in 1..Len(packet_queue) :
       packet_queue[k] = Len(wire) + TxDist(tdh, tdt) + k

\* The send loop began with an empty ring.
TxOrder ==
  /\ TxContents
  /\ pc = "tx_send" => TxDist(tdh, tdt) <= sent

txQueue == <<queued, wire, tdh, tdt, tx_addr, packet_queue>>

\* The types of what TxOrder speaks about.
LEMMA TxTypes ==
  ASSUME RxIInv
  PROVE  /\ tdh \in TxSlot /\ tdt \in TxSlot /\ tdt = cur_tx /\ sent \in Nat
         /\ tx_addr \in [TxSlot -> 0..MaxTx] /\ queued \in Nat
         /\ packet_queue \in Seq(1..MaxTx) /\ Len(packet_queue) \in Nat
         /\ wire \in Seq(1..MaxTx) /\ Len(wire) \in Nat
         /\ TxDist(tdh, tdt) \in 0..TX_DESC-1
         /\ \A i \in TxSlot : TxDist(tdh, i) \in 0..TX_DESC-1 /\ tx_addr[i] \in Nat
<1> USE DescAssumption, CardAssumption
<1>1. /\ tdh \in TxSlot /\ tdt \in TxSlot /\ tdt = cur_tx /\ sent \in 0..TX_DESC
      /\ tx_addr \in [TxSlot -> 0..MaxTx] /\ queued \in 0..MaxTx
      /\ packet_queue \in Seq(1..MaxTx) /\ wire \in Seq(1..MaxTx)
  BY ZenonT(30) DEF RxIInv, TypeOK, TxRing
<1>2. Len(packet_queue) \in Nat /\ Len(wire) \in Nat
  BY <1>1, LenProperties
<1>3. \A i \in TxSlot : TxDist(tdh, i) \in 0..TX_DESC-1 /\ tx_addr[i] \in Nat
  BY <1>1 DEF TxSlot, TxDist
<1>4. sent \in Nat /\ queued \in Nat
  BY <1>1
<1> QED BY <1>1, <1>2, <1>3, <1>4, Zenon

\* The numbers among them.
LEMMA TxNumbers ==
  ASSUME RxIInv
  PROVE  /\ queued \in Nat /\ sent \in Nat /\ Len(packet_queue) \in Nat
         /\ Len(wire) \in Nat /\ TxDist(tdh, tdt) \in 0..TX_DESC-1
  BY TxTypes, Zenon

\* How many packets are where.
LEMMA TxCount ==
  ASSUME TxOrder
  PROVE  queued = Len(wire) + TxDist(tdh, tdt) + Len(packet_queue)
  BY Zenon DEF TxOrder, TxContents

\* The head moves past one descriptor.
LEMMA TxHeadMoves ==
  ASSUME NEW h \in TxSlot, NEW t \in TxSlot, h # t
  PROVE  /\ Within(h, h, t) /\ TxDist(h, h) = 0 /\ TxNext(h) \in TxSlot
         /\ TxDist(h, t) > 0 /\ TxDist(TxNext(h), t) = TxDist(h, t) - 1
         /\ \A i \in TxSlot : Within(i, TxNext(h), t) =>
              Within(i, h, t) /\ TxDist(TxNext(h), i) = TxDist(h, i) - 1
<1> USE DescAssumption
<1>1. Within(h, h, t) /\ TxDist(h, h) = 0 /\ TxNext(h) \in TxSlot /\ TxDist(h, t) > 0
  BY DEF Within, TxDist, TxNext, TxSlot
<1>2. TxDist(TxNext(h), t) = TxDist(h, t) - 1
  BY DEF TxDist, TxNext, TxSlot
<1>3. \A i \in TxSlot : Within(i, TxNext(h), t) =>
              Within(i, h, t) /\ TxDist(TxNext(h), i) = TxDist(h, i) - 1
  BY DEF Within, TxDist, TxNext, TxSlot
<1> QED BY <1>1, <1>2, <1>3, ZenonT(30)

\* The tail moves past one descriptor and the ring does not become full.
LEMMA TxTailMoves ==
  ASSUME NEW h \in TxSlot, NEW t \in TxSlot, TxDist(h, t) < TX_DESC - 1
  PROVE  /\ TxDist(h, TxNext(t)) = TxDist(h, t) + 1 /\ ~Within(t, h, t)
         /\ \A i \in TxSlot : Within(i, h, TxNext(t)) => Within(i, h, t) \/ i = t
<1> USE DescAssumption
<1>1. TxDist(h, TxNext(t)) = TxDist(h, t) + 1
  BY DEF TxDist, TxNext, TxSlot
<1>2. ~Within(t, h, t)
  BY DEF Within, TxSlot
<1>3. \A i \in TxSlot : Within(i, h, TxNext(t)) => Within(i, h, t) \/ i = t
  BY DEF Within, TxDist, TxNext, TxSlot
<1> QED BY <1>1, <1>2, <1>3

\* A packet is queued behind the others.
LEMMA EnqueueTxOrder ==
  ASSUME RxIInv, TxOrder, Enqueue
  PROVE  /\ TxOrder' /\ queued' = queued + 1 /\ UNCHANGED wire
         /\ Len(packet_queue) < MaxQueued
<1>1. /\ queued' = queued + 1 /\ packet_queue' = Append(packet_queue, queued + 1)
      /\ pc = "idle" /\ pc' = pc /\ queued < MaxTx /\ Len(packet_queue) < MaxQueued
      /\ UNCHANGED <<wire, tdh, tdt, tx_addr>>
  BY ZenonT(30) DEF Enqueue, card, txDriver
<1>2. queued + 1 \in 1..MaxTx
  <2>1. queued < MaxTx /\ queued \in Nat /\ MaxTx \in Nat
    BY <1>1, TxNumbers, CardAssumption, Zenon
  <2> QED BY <2>1
<1>3. /\ Len(packet_queue') = Len(packet_queue) + 1
      /\ \A k \in 1..Len(packet_queue) : packet_queue'[k] = packet_queue[k]
      /\ packet_queue'[Len(packet_queue) + 1] = queued + 1
  BY <1>1, <1>2, TxTypes, AppendProperties
<1>4. ASSUME NEW k \in 1..Len(packet_queue')
      PROVE  packet_queue'[k] = Len(wire) + TxDist(tdh, tdt) + k
  <2>1. CASE k \in 1..Len(packet_queue)
    BY <1>3, <2>1, Zenon DEF TxOrder, TxContents
  <2>2. CASE k = Len(packet_queue) + 1
    <3>1. packet_queue'[k] = queued + 1
      BY <1>3, <2>2, Zenon
    <3> QED BY <2>2, <3>1, TxNumbers, TxCount
  <2>3. k \in 1..Len(packet_queue) \/ k = Len(packet_queue) + 1
    <3>1. Len(packet_queue') = Len(packet_queue) + 1 /\ Len(packet_queue) \in Nat
      BY <1>3, TxNumbers, Zenon
    <3> QED BY <3>1
  <2> QED BY <2>1, <2>2, <2>3, Zenon
<1>5. queued' = Len(wire) + TxDist(tdh, tdt) + Len(packet_queue')
  <2>1. queued' = queued + 1 /\ Len(packet_queue') = Len(packet_queue) + 1
    BY <1>1, <1>3, Zenon
  <2> QED BY <2>1, TxNumbers, TxCount
<1> QED BY <1>1, <1>4, <1>5, ZenonT(30) DEF TxOrder, TxContents

\* The card transmits the oldest packet.
LEMMA CardTransmitTxOrder ==
  ASSUME RxIInv, TxOrder, CardTransmit
  PROVE  /\ TxOrder' /\ UNCHANGED queued
         /\ wire' = Append(wire, Len(wire) + 1) /\ Len(wire) < queued
<1> USE DescAssumption
<1>1. /\ tdh # tdt /\ wire' = Append(wire, tx_addr[tdh]) /\ tdh' = TxNext(tdh)
      /\ UNCHANGED <<pc, queued, tdt, tx_addr, packet_queue, sent>>
  BY ZenonT(30) DEF CardTransmit, txDriver, sender
<1>2. /\ Within(tdh, tdh, tdt) /\ TxDist(tdh, tdh) = 0 /\ tdh \in TxSlot
      /\ tdh' \in TxSlot /\ TxDist(tdh', tdt) = TxDist(tdh, tdt) - 1
      /\ TxDist(tdh, tdt) > 0
      /\ \A i \in TxSlot : Within(i, tdh', tdt) =>
           Within(i, tdh, tdt) /\ TxDist(tdh', i) = TxDist(tdh, i) - 1
  <2>1. tdh \in TxSlot /\ tdt \in TxSlot
    BY TxTypes, Zenon
  <2>2. /\ Within(tdh, tdh, tdt) /\ TxDist(tdh, tdh) = 0 /\ TxNext(tdh) \in TxSlot
        /\ TxDist(tdh, tdt) > 0 /\ TxDist(TxNext(tdh), tdt) = TxDist(tdh, tdt) - 1
        /\ \A i \in TxSlot : Within(i, TxNext(tdh), tdt) =>
             Within(i, tdh, tdt) /\ TxDist(TxNext(tdh), i) = TxDist(tdh, i) - 1
    BY <1>1, <2>1, TxHeadMoves, ZenonT(30)
  <2> QED BY <1>1, <2>1, <2>2, Zenon
<1>3. tx_addr[tdh] = Len(wire) + 1
  <2>1. tx_addr[tdh] = Len(wire) + 0 + 1
    BY <1>2 DEF TxOrder, TxContents
  <2> QED BY <2>1, TxTypes
<1>4. Len(wire') = Len(wire) + 1
  BY <1>1, <1>3, TxTypes
<1>5. queued' = Len(wire') + TxDist(tdh', tdt) + Len(packet_queue) /\ Len(wire) < queued
  <2>1. queued = Len(wire) + TxDist(tdh, tdt) + Len(packet_queue) /\ queued' = queued
    BY <1>1, Zenon DEF TxOrder, TxContents
  <2>2. Len(wire) \in Nat /\ TxDist(tdh, tdt) \in 0..TX_DESC-1 /\ Len(packet_queue) \in Nat
    BY TxTypes, Zenon
  <2> QED BY <1>2, <1>4, <2>1, <2>2
<1>6. ASSUME NEW i \in TxSlot, Within(i, tdh', tdt)
      PROVE  tx_addr[i] = Len(wire') + TxDist(tdh', i) + 1
  <2>1. /\ tx_addr[i] = Len(wire) + TxDist(tdh, i) + 1
        /\ TxDist(tdh', i) = TxDist(tdh, i) - 1 /\ TxDist(tdh, i) \in Int
    BY <1>2, <1>6, TxTypes DEF TxOrder, TxContents
  <2> QED BY <1>4, <2>1, TxTypes
<1>7. ASSUME NEW k \in 1..Len(packet_queue)
      PROVE  packet_queue[k] = Len(wire') + TxDist(tdh', tdt) + k
  <2>1. packet_queue[k] = Len(wire) + TxDist(tdh, tdt) + k
    BY DEF TxOrder, TxContents
  <2> QED BY <1>2, <1>4, <2>1, TxTypes
<1>8. pc' = "tx_send" => TxDist(tdh', tdt) <= sent
  BY <1>1, <1>2, TxTypes DEF TxOrder
<1> QED BY <1>1, <1>3, <1>5, <1>6, <1>7, <1>8, ZenonT(30) DEF TxOrder, TxContents

\* handle_interrupt moves the oldest packet of the queue to the end of the ring,
\* which is never full: the loop began with an empty ring, and fewer packets
\* were waiting than the ring has descriptors.
LEMMA TxSendTxOrder ==
  ASSUME MaxQueued < TX_DESC, RxIInv, TxOrder, SendBound, TxSend
  PROVE  TxOrder' /\ UNCHANGED <<queued, wire>>
<1> USE DescAssumption, CardAssumption
<1> DEFINE p == Head(packet_queue)
<1>1. /\ packet_queue # <<>> /\ packet_queue' = Tail(packet_queue)
      /\ tx_addr' = [tx_addr EXCEPT ![cur_tx] = p]
      /\ tdt' = TxNext(cur_tx) /\ sent' = sent + 1 /\ pc = "tx_send"
      /\ UNCHANGED <<queued, wire, tdh, pc>>
  BY ZenonT(30) DEF TxSend, card
<1>2. /\ Len(packet_queue) > 0 /\ p = packet_queue[1]
      /\ Len(packet_queue') = Len(packet_queue) - 1
      /\ \A k \in 1..Len(packet_queue') : packet_queue'[k] = packet_queue[k + 1]
  BY <1>1, TxTypes
<1>3. TxDist(tdh, tdt) < TX_DESC - 1
  <2>1. sent + Len(packet_queue) <= MaxQueued /\ TxDist(tdh, tdt) <= sent
    BY <1>1, Zenon DEF TxOrder, SendBound
  <2>2. Len(packet_queue) > 0
    BY <1>2, Zenon
  <2> QED BY <2>1, <2>2, TxNumbers, DescAssumption, CardAssumption
<1>4. /\ tdt \in TxSlot /\ TxDist(tdh, tdt') = TxDist(tdh, tdt) + 1
      /\ \A i \in TxSlot : Within(i, tdh, tdt') => Within(i, tdh, tdt) \/ i = tdt
      /\ ~Within(tdt, tdh, tdt)
  BY <1>1, <1>3, TxTypes, TxTailMoves, Zenon
<1>5. p = Len(wire) + TxDist(tdh, tdt) + 1
  BY <1>2, TxTypes DEF TxOrder, TxContents
<1> HIDE DEF p
<1>6. \A i \in TxSlot : tx_addr'[i] = IF i = tdt THEN p ELSE tx_addr[i]
  BY <1>1, TxTypes, Zenon
<1>7. ASSUME NEW i \in TxSlot, Within(i, tdh, tdt')
      PROVE  tx_addr'[i] = Len(wire) + TxDist(tdh, i) + 1
  BY <1>4, <1>5, <1>6, <1>7, Zenon DEF TxOrder, TxContents
<1>8. ASSUME NEW k \in 1..Len(packet_queue')
      PROVE  packet_queue'[k] = Len(wire) + TxDist(tdh, tdt') + k
  <2>1. packet_queue'[k] = packet_queue[k + 1] /\ k + 1 \in 1..Len(packet_queue)
    <3>1. Len(packet_queue) \in Nat
      BY TxTypes
    <3> QED BY <1>2, <3>1
  <2>2. packet_queue[k + 1] = Len(wire) + TxDist(tdh, tdt) + (k + 1)
    BY <2>1 DEF TxOrder, TxContents
  <2>3. TxDist(tdh, tdt') = TxDist(tdh, tdt) + 1 /\ k \in Int
    BY <1>4
  <2> QED BY <2>1, <2>2, <2>3, TxNumbers
<1>9. queued = Len(wire) + TxDist(tdh, tdt') + Len(packet_queue')
  <2>1. queued = Len(wire) + TxDist(tdh, tdt) + Len(packet_queue)
    BY Zenon DEF TxOrder, TxContents
  <2>2. /\ TxDist(tdh, tdt') = TxDist(tdh, tdt) + 1
        /\ Len(packet_queue') = Len(packet_queue) - 1
    BY <1>2, <1>4, Zenon
  <2> QED BY <2>1, <2>2, TxNumbers
<1>10. TxDist(tdh, tdt') <= sent'
  BY <1>1, <1>4, TxTypes DEF TxOrder
<1> QED BY <1>1, <1>7, <1>8, <1>9, <1>10, ZenonT(30) DEF TxOrder, TxContents

\* The other steps touch neither the ring nor the queue.
LEMMA OtherTxOrder ==
  ASSUME RxIInv, TxOrder, [Next]_vars, ~Enqueue, ~CardTransmit, ~TxSend
  PROVE  TxOrder' /\ UNCHANGED <<queued, wire>>
<1>1. UNCHANGED txQueue
  BY ZenonT(30)
  DEF Next, Card, handle_interrupt, Receive, Transmit, CardReceive, CardRaiseRx, CardRaiseTx,
      Notify, EnableInterrupts, ReadCause, RxRead, RxCopy, RxWriteBack, RxRelease, TxHeads,
      TxSendDone, Reclaim, ReclaimDone, vars, card, txDriver, sender, txQueue
<1>2. pc' = "tx_send" => (pc = "tx_send" /\ sent' = sent) \/ (tdh = tdt /\ sent' = 0)
  BY ZenonT(30)
  DEF Next, Card, handle_interrupt, Receive, Transmit, CardReceive, CardRaiseRx, CardRaiseTx,
      Notify, EnableInterrupts, ReadCause, RxRead, RxCopy, RxWriteBack, RxRelease, TxHeads,
      TxSendDone, AfterSend, Reclaim, ReclaimDone, vars, txDriver
<1>3. tdh = tdt => TxDist(tdh, tdt) = 0
  <2>1. tdh \in TxSlot /\ tdt \in TxSlot
    BY TxTypes, Zenon
  <2> QED BY <2>1, DescAssumption DEF TxDist, TxSlot
<1>4. TxContents'
  BY <1>1, ZenonT(30) DEF txQueue, TxOrder, TxContents, Within, TxDist
<1>5. pc' = "tx_send" => TxDist(tdh', tdt') <= sent'
  BY <1>1, <1>2, <1>3 DEF txQueue, TxOrder
<1> QED BY <1>1, <1>4, <1>5 DEF txQueue, TxOrder

\* What is inside the channel are the packets after those transmitted, up to the
\* last one queued.
TxNumbered ==
  /\ InFlight \o packet_queue = Numbered(Len(wire), queued)
  /\ Len(wire) \in Nat /\ queued \in Nat /\ Len(wire) <= queued
  /\ queued - Len(wire) <= TX_DESC - 1 + Len(packet_queue)

\* This follows from the order in the ring and in the queue.
LEMMA TxInsideNumbered == ASSUME RxIInv, TxOrder PROVE TxNumbered
<1> USE DescAssumption, CardAssumption
<1> DEFINE n == IF tdh <= tdt THEN tdt - tdh ELSE tdt - tdh + TX_DESC
           m == Len(packet_queue)
           a == Len(wire)
<1>1. /\ tdh \in 0..TX_DESC-1 /\ tdt \in 0..TX_DESC-1 /\ m \in Nat /\ a \in Nat
      /\ queued \in Nat /\ packet_queue \in Seq(Int)
  <2>1. tdh \in TxSlot /\ tdt \in TxSlot /\ packet_queue \in Seq(1..MaxTx)
    BY TxTypes, Zenon
  <2>2. m \in Nat /\ a \in Nat /\ queued \in Nat
    BY TxTypes, Zenon
  <2> QED BY <2>1, <2>2 DEF TxSlot
<1>2. n = TxDist(tdh, tdt) /\ n \in 0..TX_DESC-1
  BY <1>1 DEF TxDist
<1>3. queued = a + n + m /\ \A k \in 1..m : packet_queue[k] = a + n + k
  BY <1>2, Zenon DEF TxOrder, TxContents
<1>4. ASSUME NEW k \in 1..n PROVE InFlight[k] = a + k
  <2> DEFINE j == (tdh + (k - 1)) % TX_DESC
  <2>0. k - 1 \in 0..TX_DESC-1 /\ k \in Int
    BY <1>2
  <2>1. j = IF tdh + (k - 1) < TX_DESC THEN tdh + (k - 1) ELSE tdh + (k - 1) - TX_DESC
    BY <1>1, <2>0, RingPlace, ZenonT(30)
  <2>4. InFlight[k] = tx_addr[j]
    BY <1>1, <2>0 DEF InFlight
  <2> HIDE DEF j
  <2>2. j \in TxSlot /\ Within(j, tdh, tdt) /\ TxDist(tdh, j) = k - 1
    BY <1>1, <2>0, <2>1 DEF Within, TxDist, TxSlot
  <2>3. tx_addr[j] = a + (k - 1) + 1
    BY <2>2, Zenon DEF TxOrder, TxContents
  <2> QED BY <1>1, <2>0, <2>3, <2>4
<1>5. InFlight = [k \in 1..n |-> InFlight[k]]
  BY DEF InFlight
<1> HIDE DEF n, m, a
<1>6. InFlight \in Seq(Int) /\ Len(InFlight) = n
  <2>1. \A k \in 1..n : InFlight[k] \in Int
    BY <1>1, <1>2, <1>4
  <2>2. n \in Nat
    BY <1>2
  <2> QED BY <1>5, <2>1, <2>2, SeqMade, Zenon
<1>7. InFlight \o packet_queue = Numbered(a, queued)
  <2> DEFINE s == InFlight \o packet_queue
             t == Numbered(a, queued)
  <2>1. /\ s \in Seq(Int) /\ Len(s) = n + m
        /\ \A k \in 1..n : s[k] = InFlight[k]
        /\ \A k \in n+1..n+m : s[k] = packet_queue[k - n]
    <3>1. m = Len(packet_queue)
      BY DEF m
    <3>2. /\ s \in Seq(Int) /\ Len(s) = Len(InFlight) + Len(packet_queue)
          /\ \A k \in 1..Len(InFlight) : s[k] = InFlight[k]
          /\ \A k \in Len(InFlight)+1..Len(InFlight)+Len(packet_queue) :
               s[k] = packet_queue[k - Len(InFlight)]
      BY <1>1, <1>6, JoinProperties, ZenonT(30)
    <3> QED BY <1>6, <3>1, <3>2, Zenon
  <2>2. t \in Seq(Int) /\ Len(t) = n + m /\ \A k \in 1..n+m : t[k] = a + k
    <3>1. queued - a = n + m /\ n + m \in Nat
      <4>1. queued = a + n + m
        BY <1>3, Zenon
      <4>2. n \in Int /\ n >= 0 /\ a \in Nat /\ m \in Nat
        BY <1>1, <1>2
      <4> QED BY <4>1, <4>2
    <3>2. t = [k \in 1..n+m |-> a + k]
      BY <3>1 DEF Numbered
    <3> HIDE DEF t
    <3>3. \A k \in 1..n+m : a + k \in Int
      BY <1>1, <3>1
    <3>4. t \in Seq(Int) /\ Len(t) = n + m
      BY <3>1, <3>2, <3>3
    <3>5. \A k \in 1..n+m : t[k] = a + k
      BY <3>2, Zenon
    <3> QED BY <3>4, <3>5
  <2> HIDE DEF s, t
  <2>3. ASSUME NEW k \in 1..n+m PROVE s[k] = a + k
    <3>1. CASE k \in 1..n
      BY <1>4, <2>1, <3>1
    <3>2. CASE k \in n+1..n+m
      <4>1. k - n \in 1..m
        <5>1. m \in Nat /\ n \in Int
          BY <1>1, <1>2
        <5> QED BY <3>2, <5>1
      <4>2. s[k] = packet_queue[k - n] /\ packet_queue[k - n] = a + n + (k - n)
        BY <1>3, <2>1, <3>2, <4>1
      <4>3. a \in Nat /\ n \in Int /\ k \in Int
        BY <1>1, <1>2
      <4> QED BY <4>2, <4>3
    <3> QED BY <1>1, <1>2, <3>1, <3>2
  <2>4. s = t
    BY <2>1, <2>2, <2>3, SeqEqual, ZenonT(30)
  <2> QED BY <2>4 DEF s, t
<1>8. a <= queued /\ queued - a <= TX_DESC - 1 + m
  <2>1. queued = a + n + m
    BY <1>3, Zenon
  <2>2. n \in 0..TX_DESC-1 /\ a \in Nat /\ m \in Nat /\ TX_DESC \in Nat
    BY <1>1, <1>2, DescAssumption
  <2> QED BY <2>1, <2>2
<1> QED BY <1>1, <1>7, <1>8 DEF TxNumbered, a, m

\* The order is an invariant, and the packets inside the channel change in two
\* steps only.
LEMMA TxOrderStep ==
  ASSUME MaxQueued < TX_DESC, RxIInv, TxOrder, SendBound, [Next]_vars
  PROVE  /\ TxOrder'
         /\ \/ UNCHANGED <<queued, wire>>
            \/ queued' = queued + 1 /\ UNCHANGED wire /\ Len(packet_queue) < MaxQueued
            \/ /\ wire' = Append(wire, Len(wire) + 1) /\ Len(wire) < queued
               /\ UNCHANGED queued
  BY EnqueueTxOrder, CardTransmitTxOrder, TxSendTxOrder, OtherTxOrder, ZenonT(30)

\* Sending, from PacketQueueSender::enqueue to the wire, is a first-in first-out
\* channel, for rings of every length that hold what may be waiting: no packet
\* that was queued is lost, doubled or overtaken.
THEOREM SendingIsFifo ==
  ASSUME MaxQueued < TX_DESC
  PROVE  Spec => TxFifo!Spec
<1> USE DescAssumption, CardAssumption
<1>1. Init => TxOrder
  <2> SUFFICES ASSUME Init PROVE TxOrder
    OBVIOUS
  <2>1. /\ queued = 0 /\ wire = <<>> /\ packet_queue = <<>> /\ tdh = 0 /\ tdt = 0
        /\ pc = "init"
    BY ZenonT(30) DEF Init
  <2> QED BY <2>1 DEF TxOrder, TxContents, TxDist, TxSlot, Within
<1>2. Init => TxFifo!Init
  <2> SUFFICES ASSUME Init PROVE TxFifo!Init
    OBVIOUS
  <2>1. queued = 0 /\ wire = <<>>
    BY ZenonT(30) DEF Init
  <2>2. InFlight \o packet_queue = Numbered(0, 0)
    BY <1>1, <2>1, InitRxIInv, TxInsideNumbered DEF TxNumbered
  <2>3. Numbered(0, 0) = <<>>
    BY DEF Numbered
  <2> QED BY <2>1, <2>2, <2>3 DEF TxFifo!Init
<1>3. RxIInv /\ TxPending /\ TxOrder /\ [Next]_vars => TxOrder'
  BY TxOrderStep, Zenon DEF TxPending
<1>4. RxIInv /\ TxOrder => TxNumbered
  BY TxInsideNumbered
<1>5. RxIInv /\ TxPending /\ TxOrder /\ TxNumbered /\ TxNumbered' /\ [Next]_vars
        => [TxFifo!Next]_<<queued, InFlight \o packet_queue, wire>>
  <2> SUFFICES ASSUME RxIInv, TxPending, TxOrder, TxNumbered, TxNumbered', [Next]_vars
               PROVE  [TxFifo!Next]_<<queued, InFlight \o packet_queue, wire>>
    OBVIOUS
  <2> DEFINE a == Len(wire)
             inside == InFlight \o packet_queue
  <2>1. /\ inside = Numbered(a, queued) /\ a \in Int /\ queued \in Int /\ a <= queued
        /\ queued - a <= TX_DESC - 1 + Len(packet_queue) /\ Len(packet_queue) \in Nat
        /\ wire \in Seq(1..MaxTx)
    BY TxTypes DEF TxNumbered
  <2>2. inside' = Numbered(Len(wire'), queued')
    BY DEF TxNumbered
  <2>3. CASE UNCHANGED <<queued, wire>>
    BY <2>1, <2>2, <2>3
  <2>4. CASE queued' = queued + 1 /\ UNCHANGED wire /\ Len(packet_queue) < MaxQueued
    <3>1. inside' = Numbered(a, queued + 1)
      BY <2>2, <2>4, Zenon
    <3> HIDE DEF a
    <3>2. Len(inside) = queued - a /\ inside' = Append(inside, queued + 1)
      <4>1. /\ Len(Numbered(a, queued)) = queued - a
            /\ Numbered(a, queued + 1) = Append(Numbered(a, queued), queued + 1)
        BY <2>1, NumberedEnds, Zenon
      <4> QED BY <2>1, <3>1, <4>1, Zenon
    <3>3. Len(inside) < MaxQueued + TX_DESC
      BY <2>1, <2>4, <3>2
    <3> QED BY <2>4, <3>2, <3>3, ZenonT(30) DEF TxFifo!Next, TxFifo!Accept
  <2>5. CASE /\ wire' = Append(wire, a + 1) /\ a < queued
             /\ UNCHANGED queued
    <3>1. Len(wire') = a + 1
      BY <2>1, <2>5
    <3>2. /\ inside # <<>> /\ Head(inside) = a + 1 /\ inside' = Tail(inside)
      <4>1. inside' = Numbered(a + 1, queued)
        BY <2>2, <2>5, <3>1, Zenon
      <4> HIDE DEF a
      <4>2. Head(Numbered(a, queued)) = a + 1 /\ Numbered(a, queued) # <<>>
            /\ Tail(Numbered(a, queued)) = Numbered(a + 1, queued)
        BY <2>1, <2>5, NumberedEnds, Zenon
      <4> QED BY <2>1, <4>1, <4>2, Zenon
    <3> QED BY <2>5, <3>2, ZenonT(30) DEF TxFifo!Next, TxFifo!Deliver
  <2> QED BY <2>3, <2>4, <2>5, TxOrderStep, ZenonT(30) DEF TxPending
<1>6. MaxQueued <= TX_DESC
  OBVIOUS
<1> QED BY <1>1, <1>2, <1>3, <1>4, <1>5, <1>6, DriverInvariant, TxPendingInvariant, PTL
        DEF Spec, TxFifo!Spec

-----------------------------------------------------------------------------
(* The buffers of the transmit ring, when the card transmits while the CPU *)
(* writes the tail register and two batches of waiting packets fit into    *)
(* the ring.  handle_interrupt hands a batch over and frees the batch      *)
(* before it: a slot is reused only after both.                            *)

\* Where the batch of this interrupt starts: before it lies the one before.
BatchStart == IF pc \in {"tx_send", "reclaim"} THEN cur_tx_head ELSE cur_tx

\* The slots between the last one reclaimed and the next one to fill.
Held == {i \in TxSlot : \/ Within(i, last_reclaimed_tx, BatchStart)
                        \/ Within(i, BatchStart, cur_tx)}

\* Outside the send loop the card has transmitted and reported everything; what
\* it does not own is written back.
Synced ==
  /\ pc # "tx_send" => tdh = tdt /\ ~tx_raise
  /\ \A i \in TxSlot : i \in tx_dd \/ i \in CardTx

\* A write-back is reported for what is still to be reclaimed: the interrupt of
\* the batch before is being handled, that of this batch is to come.
Reported ==
  /\ pc = "init" => last_reclaimed_tx = cur_tx
  /\ last_reclaimed_tx # BatchStart =>
       IF pc = "idle" THEN CardBit.TXDW \in icr ELSE "txdw" \in cause
  /\ BatchStart # cur_tx => tdh # tdt \/ tx_raise \/ CardBit.TXDW \in icr
  /\ pc \in {"tx_send", "reclaim"} => tx_index = last_reclaimed_tx
  /\ pc = "reclaim" => "txdw" \in cause

\* Neither batch is longer than the packet queue.
Batches ==
  /\ Len(packet_queue) <= MaxQueued
  /\ TxDist(last_reclaimed_tx, BatchStart) <= MaxQueued
  /\ TxDist(BatchStart, cur_tx) <= MaxQueued
  /\ pc = "tx_send" => /\ sent = TxDist(BatchStart, cur_tx)
                       /\ sent + Len(packet_queue) <= MaxQueued

\* The slots in between hold a buffer and no others do; no buffer is held twice.
Owned ==
  /\ \A i \in TxSlot : tx_buffers[i] # Null <=> i \in Held
  /\ \A i, j \in TxSlot : tx_buffers[i] = tx_buffers[j] /\ tx_buffers[i] # Null => i = j
  /\ \A i \in TxSlot : \A k \in 1..Len(packet_queue) : tx_buffers[i] # packet_queue[k]
  /\ \A j, k \in 1..Len(packet_queue) : packet_queue[j] = packet_queue[k] => j = k
  /\ \A i \in TxSlot : tx_buffers[i] <= queued
  /\ \A k \in 1..Len(packet_queue) : packet_queue[k] <= queued

BufInv == Synced /\ Reported /\ Batches /\ Owned /\ NoLeak
\* What the invariant says of the ring and the queue, but for the causes.
bufState == <<tdh, tdt, tx_dd, tx_raise, cur_tx, last_reclaimed_tx, tx_buffers,
              packet_queue, heap, queued>>

-----------------------------------------------------------------------------

\* The empty ring.
LEMMA InitBufInv == Init => BufInv
<1> SUFFICES ASSUME Init PROVE BufInv
  OBVIOUS
<1> USE DescAssumption, CardAssumption
<1>1. Synced
  BY DEF Init, Synced
<1>2. Reported
  BY DEF Init, Reported, BatchStart
<1>3. Batches
  BY DEF Init, Batches, BatchStart, TxDist
<1>4. Owned
  <2>1. Held = {}
    BY DEF Init, Held, BatchStart, Within, TxSlot
  <2> QED BY <2>1 DEF Init, Owned, Null
<1>5. NoLeak
  BY DEF Init, NoLeak, Range, Null
<1> QED BY <1>1, <1>2, <1>3, <1>4, <1>5 DEF BufInv

\* A step that leaves the ring, the queue and the slots in between alone keeps
\* all but what is said of the causes.
LEMMA BufFrame ==
  ASSUME BufInv, UNCHANGED bufState, Held' = Held,
         pc' # "tx_send" => tdh = tdt /\ ~tx_raise,
         TxDist(last_reclaimed_tx, BatchStart') <= MaxQueued,
         TxDist(BatchStart', cur_tx) <= MaxQueued,
         pc' = "tx_send" => /\ sent' = TxDist(BatchStart', cur_tx)
                            /\ sent' + Len(packet_queue) <= MaxQueued
  PROVE  Synced' /\ Batches' /\ Owned' /\ NoLeak'
<1>1. Synced'
  BY ZenonT(30) DEF BufInv, Synced, bufState, CardTx, Within
<1>2. Batches'
  BY ZenonT(30) DEF BufInv, Batches, bufState, TxDist
<1>3. Owned'
  BY ZenonT(30) DEF BufInv, Owned, bufState
<1>4. NoLeak'
  BY ZenonT(30) DEF BufInv, NoLeak, bufState, Range
<1> QED BY <1>1, <1>2, <1>3, <1>4

\* A step that starts or ends no batch.
LEMMA BatchFrame ==
  ASSUME BufInv, UNCHANGED bufState, BatchStart' = BatchStart,
         pc' = "tx_send" <=> pc = "tx_send", pc = "tx_send" => sent' = sent
  PROVE  Synced' /\ Batches' /\ Owned' /\ NoLeak'
<1>1. Held' = Held
  BY DEF bufState, Held, Within
<1>2. pc' # "tx_send" => tdh = tdt /\ ~tx_raise
  BY DEF BufInv, Synced
<1>3. /\ TxDist(last_reclaimed_tx, BatchStart') <= MaxQueued
      /\ TxDist(BatchStart', cur_tx) <= MaxQueued
      /\ pc' = "tx_send" => /\ sent' = TxDist(BatchStart', cur_tx)
                            /\ sent' + Len(packet_queue) <= MaxQueued
  BY DEF BufInv, Batches
<1> QED BY <1>1, <1>2, <1>3, BufFrame, ZenonT(30)

\* The steps that do not touch the transmit ring.
LEMMA OtherBufInv ==
  ASSUME SyncCard, RxIInv, BufInv,
         \/ CardReceive \/ CardRaiseRx \/ Notify \/ EnableInterrupts \/ ReadCause
         \/ RxRead \/ RxCopy \/ RxWriteBack \/ RxRelease \/ UNCHANGED vars
  PROVE  BufInv'
<1>1. UNCHANGED bufState
  BY ZenonT(30) DEF CardReceive, CardRaiseRx, Notify, EnableInterrupts, ReadCause, RxRead,
         RxCopy, RxWriteBack, RxRelease, vars, card, txDriver, sender, bufState
<1>2. /\ BatchStart' = BatchStart
      /\ pc' = "tx_send" <=> pc = "tx_send"
      /\ UNCHANGED <<sent, tx_index>>
  <2>1. CASE CardReceive \/ CardRaiseRx \/ Notify \/ UNCHANGED vars
    BY <2>1, ZenonT(30) DEF CardReceive, CardRaiseRx, Notify, vars, txDriver, BatchStart
  <2>2. CASE EnableInterrupts \/ ReadCause \/ RxRead \/ RxCopy \/ RxWriteBack \/ RxRelease
    <3>1. pc \notin {"tx_send", "reclaim"} /\ pc' \notin {"tx_send", "reclaim"}
      BY <2>2, ZenonT(30) DEF EnableInterrupts, ReadCause, RxRead, RxCopy, RxWriteBack, RxRelease
    <3>2. UNCHANGED <<cur_tx, sent, tx_index>>
      BY <2>2, ZenonT(30) DEF EnableInterrupts, ReadCause, RxRead, RxCopy, RxWriteBack, RxRelease,
                  txDriver
    <3> QED BY <3>1, <3>2 DEF BatchStart
  <2> QED BY <2>1, <2>2, ZenonT(30)
<1>3. Synced' /\ Batches' /\ Owned' /\ NoLeak'
  BY <1>1, <1>2, BatchFrame
<1>4. Reported'
  <2>1. CASE CardReceive \/ CardRaiseRx \/ Notify \/ UNCHANGED vars
    <3>1. icr \subseteq icr' /\ UNCHANGED <<pc, cause>>
      BY <2>1, ZenonT(30) DEF CardReceive, CardRaiseRx, Notify, vars
    <3> QED BY <1>1, <1>2, <3>1, ZenonT(30) DEF BufInv, Reported, bufState
  <2>2. CASE EnableInterrupts
    <3>1. pc = "init" /\ pc' = "idle"
      BY <2>2 DEF EnableInterrupts
    <3>2. last_reclaimed_tx' = cur_tx' /\ BatchStart' = cur_tx'
      BY <3>1, <1>1, ZenonT(30) DEF BufInv, Reported, bufState, BatchStart
    <3> QED BY <3>1, <3>2 DEF Reported
  <2>3. CASE ReadCause
    <3>1. pc = "idle" /\ pc' \in {"rx_read", "tx_heads"}
          /\ (CardBit.TXDW \in icr => "txdw" \in cause')
      BY <2>3, CauseLayout, CauseDecoding, ZenonT(30) DEF ReadCause
    <3>2. BatchStart' = cur_tx' /\ UNCHANGED <<last_reclaimed_tx, cur_tx>>
      BY <3>1, <1>1 DEF BatchStart, bufState
    <3> QED BY <3>1, <3>2, <1>2, ZenonT(30) DEF BufInv, Reported
  <2>4. CASE RxRead \/ RxCopy \/ RxWriteBack \/ RxRelease
    <3>1. /\ pc \in {"rx_read", "rx_copy", "rx_write", "rx_tail"}
          /\ pc' \in {"rx_read", "rx_copy", "rx_write", "rx_tail", "tx_heads"}
      BY <2>4, ZenonT(30) DEF RxRead, RxCopy, RxWriteBack, RxRelease
    <3>2. UNCHANGED <<icr, cause>>
      BY <2>4, ZenonT(30) DEF RxRead, RxCopy, RxWriteBack, RxRelease
    <3> QED BY <1>1, <1>2, <3>1, <3>2, ZenonT(30) DEF BufInv, Reported, bufState
  <2> QED BY <2>1, <2>2, <2>3, <2>4
<1> QED BY <1>3, <1>4, ZenonT(30) DEF BufInv

\* The card transmits and reports only while the CPU is in the send loop.
LEMMA CardBufInv ==
  ASSUME SyncCard, RxIInv, BufInv, CardTransmit \/ CardRaiseTx
  PROVE  BufInv'
<1> USE DescAssumption
<1>1. pc = "tx_send" /\ pc' = pc
  BY ZenonT(30) DEF CardTransmit, CardRaiseTx, BufInv, Synced
<1>2. UNCHANGED <<tdt, cur_tx, last_reclaimed_tx, tx_buffers, cur_tx_head, tx_index, sent,
                  packet_queue, heap, queued, cause>>
  BY ZenonT(30) DEF CardTransmit, CardRaiseTx, txDriver, sender
<1>3. BatchStart' = BatchStart
  BY <1>1, <1>2 DEF BatchStart
<1>4. Synced'
  <2>1. CASE CardTransmit
    <3>1. /\ tdh \in TxSlot /\ tdt \in TxSlot /\ tdh # tdt
          /\ tdh' = TxNext(tdh) /\ tx_dd' = tx_dd \cup {tdh}
      BY <2>1, ZenonT(30) DEF CardTransmit, RxIInv, TypeOK
    <3>2. \A i \in CardTx : i = tdh \/ i \in CardTx'
      BY <3>1, <1>2 DEF CardTx, Within, TxSlot, TxNext
    <3> QED BY <1>1, <3>1, <3>2, ZenonT(30) DEF BufInv, Synced
  <2>2. CASE CardRaiseTx
    BY <1>1, <1>2, <2>2, ZenonT(30) DEF CardRaiseTx, BufInv, Synced, CardTx, Within
  <2> QED BY <2>1, <2>2
<1>5. Reported'
  <2>1. tx_raise' \/ CardBit.TXDW \in icr'
    BY ZenonT(30) DEF CardTransmit, CardRaiseTx
  <2> QED BY <1>1, <1>2, <1>3, <2>1, ZenonT(30) DEF BufInv, Reported
<1>6. Batches'
  BY <1>1, <1>2, <1>3, ZenonT(30) DEF BufInv, Batches, TxDist
<1>7. Owned' /\ NoLeak'
  <2>1. Held' = Held
    BY <1>2, <1>3, ZenonT(30) DEF Held, Within
  <2> QED BY <1>2, <2>1 DEF BufInv, Owned, NoLeak, Range
<1> QED BY <1>4, <1>5, <1>6, <1>7 DEF BufInv

\* PacketQueueSender::enqueue allocates a buffer that nothing else holds.
LEMMA EnqueueBufInv ==
  ASSUME RxIInv, BufInv, Enqueue
  PROVE  BufInv'
<1> USE DescAssumption, CardAssumption
<1> DEFINE n == queued + 1
<1>1. /\ pc = "idle" /\ pc' = pc /\ Len(packet_queue) < MaxQueued
      /\ packet_queue' = Append(packet_queue, n) /\ heap' = heap \cup {n} /\ queued' = n
      /\ UNCHANGED <<icr, cause, tdh, tdt, tx_dd, tx_raise, cur_tx, last_reclaimed_tx,
                     tx_buffers, cur_tx_head, tx_index, sent>>
  BY ZenonT(30) DEF Enqueue, card, txDriver
<1>2. packet_queue \in Seq(1..MaxTx) /\ queued \in Nat /\ Len(packet_queue) \in Nat
  BY LenProperties DEF RxIInv, TypeOK
<1>3. /\ Len(packet_queue') = Len(packet_queue) + 1
      /\ \A k \in 1..Len(packet_queue') :
           packet_queue'[k] = IF k = Len(packet_queue) + 1 THEN n ELSE packet_queue[k]
      /\ DOMAIN packet_queue' = 1..Len(packet_queue) + 1
      /\ DOMAIN packet_queue = 1..Len(packet_queue)
  BY <1>1, <1>2
<1> HIDE DEF n
<1>4. BatchStart' = BatchStart /\ BatchStart = cur_tx
  BY <1>1, ZenonT(30) DEF BatchStart
<1>5. Synced' /\ Reported'
  BY <1>1, <1>4, ZenonT(30) DEF BufInv, Synced, Reported, CardTx, Within
<1>6. Batches'
  <2>1. Len(packet_queue') <= MaxQueued
    BY <1>1, <1>2, <1>3
  <2>2. Batches /\ pc' # "tx_send"
    BY <1>1 DEF BufInv
  <2> QED BY <1>1, <1>4, <2>1, <2>2, ZenonT(30) DEF Batches, TxDist
<1>7. Owned'
  <2>1. Held' = Held
    BY <1>1, <1>4, ZenonT(30) DEF Held, Within
  <2>2. \A i \in TxSlot : tx_buffers[i] \in 0..MaxTx /\ tx_buffers[i] < n
    <3>1. \A i \in TxSlot : tx_buffers[i] \in 0..MaxTx /\ tx_buffers[i] <= queued
      BY ZenonT(30) DEF RxIInv, TypeOK, BufInv, Owned
    <3> QED BY <3>1, <1>2 DEF n
  <2>. DEFINE Old == 1..Len(packet_queue)
  <2>3. \A k \in Old : packet_queue[k] \in 1..MaxTx /\ packet_queue[k] < n
    <3>1. \A k \in Old : packet_queue[k] <= queued
      BY ZenonT(30) DEF BufInv, Owned
    <3> QED BY <1>2, <3>1 DEF n
  <2>3a. /\ \A i \in TxSlot : \A k \in Old : tx_buffers[i] # packet_queue[k]
         /\ \A j, k \in Old : packet_queue[j] = packet_queue[k] => j = k
    BY ZenonT(30) DEF BufInv, Owned
  <2>3b. /\ \A k \in 1..Len(packet_queue') : k \in Old \/ k = Len(packet_queue) + 1
         /\ \A k \in Old : k \in 1..Len(packet_queue') /\ k # Len(packet_queue) + 1
         /\ Len(packet_queue) + 1 \in 1..Len(packet_queue')
    BY <1>2, <1>3
  <2>3c. /\ packet_queue'[Len(packet_queue) + 1] = n
         /\ \A k \in Old : packet_queue'[k] = packet_queue[k] /\ packet_queue[k] # n
    <3>1. \A k \in Old : packet_queue[k] # n
      BY <2>3, <1>2 DEF n
    <3> QED BY <1>3, <2>3b, <3>1, ZenonT(30)
  <2> HIDE DEF Old
  <2>4. \A i \in TxSlot : \A k \in 1..Len(packet_queue') : tx_buffers[i] # packet_queue'[k]
    <3>1. \A i \in TxSlot : tx_buffers[i] # n
      BY <1>2, <2>2 DEF n
    <3> QED BY <2>3a, <2>3b, <2>3c, <3>1, ZenonT(30)
  <2>5. \A j, k \in 1..Len(packet_queue') : packet_queue'[j] = packet_queue'[k] => j = k
    BY <2>3a, <2>3b, <2>3c, ZenonT(30)
  <2>6. \A k \in 1..Len(packet_queue') : packet_queue'[k] <= n
    <3>1. n <= n /\ \A k \in Old : packet_queue[k] <= n
      BY <1>2, <2>3 DEF n
    <3> QED BY <2>3b, <2>3c, <3>1, ZenonT(30)
  <2>7. \A i \in TxSlot : tx_buffers[i] <= n
    BY <2>2, <1>2 DEF n
  <2> QED BY <1>1, <2>1, <2>4, <2>5, <2>6, <2>7, ZenonT(30) DEF BufInv, Owned
<1>8. NoLeak'
  <2>1. Range(packet_queue') = Range(packet_queue) \cup {n}
    <3>1. /\ \A k \in DOMAIN packet_queue' :
                k \in DOMAIN packet_queue \/ k = Len(packet_queue) + 1
          /\ \A k \in DOMAIN packet_queue :
                k \in DOMAIN packet_queue' /\ k # Len(packet_queue) + 1
          /\ Len(packet_queue) + 1 \in DOMAIN packet_queue'
      BY <1>2, <1>3
    <3>2. /\ packet_queue'[Len(packet_queue) + 1] = n
          /\ \A k \in DOMAIN packet_queue : packet_queue'[k] = packet_queue[k]
      BY <1>2, <1>3
    <3> QED BY <3>1, <3>2, ZenonT(30) DEF Range
  <2>2. n # Null
    BY <1>2 DEF n, Null
  <2> QED BY <1>1, <2>1, <2>2, ZenonT(30) DEF BufInv, NoLeak, Range
<1> QED BY <1>5, <1>6, <1>7, <1>8 DEF BufInv

\* handle_interrupt starts a batch at the head: with everything transmitted that
\* is where the next packet goes.
LEMMA TxHeadsBufInv ==
  ASSUME SyncCard, RxIInv, BufInv, TxHeads
  PROVE  BufInv'
<1> USE DescAssumption, CardAssumption
<1>1. /\ pc = "tx_heads" /\ pc' \in {"tx_send", "reclaim", "idle"}
      /\ cur_tx_head' = tdh /\ sent' = 0 /\ tx_index' = last_reclaimed_tx
      /\ pc' = "reclaim" => "txdw" \in cause
      /\ pc' = "idle" => "txdw" \notin cause
      /\ UNCHANGED <<icr, cause, tdh, tdt, tx_dd, tx_raise, cur_tx, last_reclaimed_tx,
                     tx_buffers, packet_queue, heap, queued>>
  BY ZenonT(30) DEF TxHeads, AfterSend, card, sender
<1>2. tdh = cur_tx /\ BatchStart = cur_tx /\ BatchStart' = cur_tx
  BY <1>1, ZenonT(30) DEF BufInv, Synced, RxIInv, TxRing, BatchStart
<1>3. cur_tx \in TxSlot /\ Len(packet_queue) \in Nat
  BY LenProperties, ZenonT(30) DEF RxIInv, TypeOK
<1>4. TxDist(cur_tx, cur_tx) = 0
  BY <1>3 DEF TxDist, TxSlot
<1>5. Held' = Held
  BY <1>1, <1>2, ZenonT(30) DEF Held, Within
<1>6. Synced' /\ Batches' /\ Owned' /\ NoLeak'
  <2>1. UNCHANGED bufState
    BY <1>1, ZenonT(30) DEF bufState
  <2>2. pc' # "tx_send" => tdh = tdt /\ ~tx_raise
    BY <1>1, ZenonT(30) DEF BufInv, Synced
  <2>3. /\ TxDist(last_reclaimed_tx, BatchStart') <= MaxQueued
        /\ TxDist(BatchStart', cur_tx) <= MaxQueued
        /\ Len(packet_queue) <= MaxQueued
    BY <1>2 DEF BufInv, Batches
  <2>4. pc' = "tx_send" => /\ sent' = TxDist(BatchStart', cur_tx)
                           /\ sent' + Len(packet_queue) <= MaxQueued
    BY <1>1, <1>2, <1>3, <1>4, <2>3
  <2> QED BY <2>1, <2>2, <2>3, <2>4, <1>5, BufFrame, ZenonT(30)
<1>7. Reported'
  BY <1>1, <1>2, ZenonT(30) DEF BufInv, Reported
<1> QED BY <1>6, <1>7 DEF BufInv

-----------------------------------------------------------------------------
(* Slots of a ring.                                                        *)

\* The end of a stretch moves on by one.
LEMMA Extend ==
  ASSUME NEW a \in TxSlot, NEW b \in TxSlot, TxDist(a, b) + 1 < TX_DESC
  PROVE  /\ TxDist(a, TxNext(b)) = TxDist(a, b) + 1
         /\ \A i \in TxSlot : Within(i, a, TxNext(b)) <=> Within(i, a, b) \/ i = b
  BY DescAssumption DEF TxDist, TxSlot, TxNext, Within

\* The start of a stretch moves on by one.
LEMMA Shorten ==
  ASSUME NEW a \in TxSlot, NEW b \in TxSlot, a # b
  PROVE  /\ TxDist(TxNext(a), b) = TxDist(a, b) - 1
         /\ Within(a, a, b)
         /\ \A i \in TxSlot : Within(i, TxNext(a), b) <=> Within(i, a, b) /\ i # a
  BY DescAssumption DEF TxDist, TxSlot, TxNext, Within

\* Two stretches that follow each other and fit into the ring do not overlap.
LEMMA Apart ==
  ASSUME NEW a \in TxSlot, NEW b \in TxSlot, NEW c \in TxSlot
  PROVE  /\ TxDist(a, b) \in Nat /\ TxDist(b, c) \in Nat
         /\ TxDist(a, b) = 0 <=> a = b
         /\ TxDist(a, b) + TxDist(b, c) < TX_DESC => ~Within(c, a, b) /\ ~Within(c, b, c)
         /\ a # b /\ TxDist(a, b) + TxDist(b, c) <= TX_DESC => ~Within(a, b, c)
         /\ ~Within(a, b, b)
  BY DescAssumption DEF TxDist, TxSlot, Within

-----------------------------------------------------------------------------
(* The batches.                                                            *)

\* enqueue_packet fills a slot that holds no buffer.
LEMMA TxSendBufInv ==
  ASSUME SyncCard, 2 * MaxQueued <= TX_DESC, RxIInv, BufInv, TxSend
  PROVE  BufInv'
<1> USE DescAssumption, CardAssumption
<1> DEFINE p == Head(packet_queue)
<1>1. /\ pc = "tx_send" /\ pc' = pc /\ packet_queue # <<>>
      /\ tdh = tdt /\ tdt = cur_tx /\ ~tx_raise
      /\ tx_dd' = tx_dd \ {cur_tx} /\ packet_queue' = Tail(packet_queue)
      /\ cur_tx' = TxNext(cur_tx) /\ tdt' = TxNext(cur_tx) /\ sent' = sent + 1
      /\ UNCHANGED <<icr, cause, tdh, tx_raise, last_reclaimed_tx, cur_tx_head,
                     tx_index, heap, queued>>
  <2>1. tdt = cur_tx
    BY DEF RxIInv, TxRing
  <2> QED BY <2>1, ZenonT(30) DEF TxSend, CpuRuns, card
<1>2. /\ tx_buffers \in [TxSlot -> 0..MaxTx]
      /\ tx_buffers' = [tx_buffers EXCEPT ![cur_tx] = p]
  BY ZenonT(30) DEF TxSend, RxIInv, TypeOK
<1>3. /\ packet_queue \in Seq(1..MaxTx) /\ sent \in Nat
      /\ cur_tx \in TxSlot /\ last_reclaimed_tx \in TxSlot /\ cur_tx_head \in TxSlot
  <2>1. sent \in 0..TX_DESC
    BY ZenonT(30) DEF RxIInv, TypeOK
  <2>2. sent \in Nat
    BY <2>1
  <2> QED BY <2>2, ZenonT(30) DEF RxIInv, TypeOK
<1>4. /\ Len(packet_queue) \in Nat /\ Len(packet_queue) > 0
      /\ p = packet_queue[1] /\ p \in 1..MaxTx
      /\ Len(packet_queue') = Len(packet_queue) - 1
      /\ \A k \in 1..Len(packet_queue') :
           packet_queue'[k] = packet_queue[k + 1] /\ k + 1 \in 1..Len(packet_queue)
      /\ DOMAIN packet_queue = 1..Len(packet_queue)
      /\ DOMAIN packet_queue' = 1..Len(packet_queue')
  BY <1>1, <1>3, HeadTailProperties
<1> HIDE DEF p
<1>5. BatchStart' = cur_tx_head /\ BatchStart = cur_tx_head
  BY <1>1 DEF BatchStart
<1>6. /\ TxDist(last_reclaimed_tx, cur_tx_head) <= MaxQueued
      /\ TxDist(cur_tx_head, cur_tx) = sent /\ sent + Len(packet_queue) <= MaxQueued
  BY <1>1, <1>5, ZenonT(30) DEF BufInv, Batches
<1>7. /\ ~Within(cur_tx, last_reclaimed_tx, cur_tx_head)
      /\ ~Within(cur_tx, cur_tx_head, cur_tx)
      /\ TxDist(last_reclaimed_tx, cur_tx_head) \in Nat
      /\ TxDist(cur_tx_head, cur_tx) + 1 < TX_DESC
  <2>1. TxDist(last_reclaimed_tx, cur_tx_head) \in Nat
    BY <1>3, Apart, ZenonT(30)
  <2>2. /\ TxDist(last_reclaimed_tx, cur_tx_head) + TxDist(cur_tx_head, cur_tx) < TX_DESC
        /\ TxDist(cur_tx_head, cur_tx) + 1 < TX_DESC
    <3>1. Len(packet_queue) \in Nat /\ Len(packet_queue) > 0 /\ sent \in Nat
      BY <1>3, <1>4
    <3> HIDE DescAssumption, CardAssumption
    <3>2. MaxQueued \in Nat /\ TX_DESC \in Nat
      BY DescAssumption, CardAssumption
    <3> QED BY <1>6, <2>1, <3>1, <3>2, 2 * MaxQueued <= TX_DESC
  <2> QED BY <1>3, <2>1, <2>2, Apart, ZenonT(30)
<1>8. /\ TxDist(cur_tx_head, cur_tx') = sent'
      /\ \A i \in TxSlot : Within(i, cur_tx_head, cur_tx')
                             <=> Within(i, cur_tx_head, cur_tx) \/ i = cur_tx
  BY <1>1, <1>3, <1>6, <1>7, Extend, ZenonT(30)
<1>9. Held' = Held \cup {cur_tx} /\ cur_tx \notin Held
  BY <1>1, <1>3, <1>5, <1>7, <1>8, ZenonT(30) DEF Held
<1>10. Synced'
  <2>1. cur_tx \in CardTx' /\ CardTx = {}
    BY <1>1, <1>3 DEF CardTx, TxSlot, TxNext, Within
  <2> QED BY <1>1, <2>1, ZenonT(30) DEF BufInv, Synced
<1>11. Reported'
  <2>1. tdh' # tdt'
    BY <1>1, <1>3, SMTT(30) DEF TxSlot, TxNext
  <2> QED BY <1>1, <1>5, <2>1, ZenonT(30) DEF BufInv, Reported
<1>12. Batches'
  <2>1. MaxQueued \in Nat /\ Len(packet_queue) \in Nat /\ sent' = sent + 1
    BY <1>1, <1>4
  <2>2. /\ Len(packet_queue') <= MaxQueued /\ sent' <= MaxQueued
        /\ sent' + Len(packet_queue') <= MaxQueued
    BY <1>3, <1>4, <1>6, <2>1
  <2>3. TxDist(last_reclaimed_tx', BatchStart') <= MaxQueued
    BY <1>1, <1>5, <1>6, ZenonT(30)
  <2>4. TxDist(BatchStart', cur_tx') = sent'
    BY <1>1, <1>5, <1>8, ZenonT(30)
  <2> QED BY <2>2, <2>3, <2>4, ZenonT(30) DEF Batches, TxDist
<1>13. tx_buffers[cur_tx] = Null
  BY <1>3, <1>9, ZenonT(30) DEF BufInv, Owned
<1>14. \A i \in TxSlot : tx_buffers'[i] = IF i = cur_tx THEN p ELSE tx_buffers[i]
  BY <1>2, <1>3, ZenonT(30)
<1>15. Owned'
  <2>0. /\ 1 \in 1..Len(packet_queue) /\ p # Null
        /\ \A k \in 1..Len(packet_queue') : k + 1 # 1
        /\ \A j, k \in 1..Len(packet_queue') : j + 1 = k + 1 => j = k
    BY <1>4 DEF Null
  <2>1. p # Null /\ p <= queued /\ \A i \in TxSlot : tx_buffers[i] # p
    BY <1>4, <2>0, ZenonT(30) DEF BufInv, Owned
  <2>2. \A k \in 1..Len(packet_queue') : /\ packet_queue'[k] # p
                                         /\ packet_queue'[k] <= queued
                                         /\ \A i \in TxSlot : tx_buffers[i] # packet_queue'[k]
    <3>1. /\ \A k \in 1..Len(packet_queue) :
                packet_queue[k] <= queued /\ \A i \in TxSlot : tx_buffers[i] # packet_queue[k]
          /\ \A k \in 1..Len(packet_queue) : packet_queue[k] = packet_queue[1] => k = 1
      BY <2>0, ZenonT(30) DEF BufInv, Owned
    <3>2. ASSUME NEW k \in 1..Len(packet_queue')
          PROVE  packet_queue'[k] = packet_queue[k + 1] /\ k + 1 \in 1..Len(packet_queue) /\ k + 1 # 1
      BY <1>4, <2>0, ZenonT(30)
    <3>3. p = packet_queue[1]
      BY <1>4
    <3> QED BY <3>1, <3>2, <3>3, ZenonT(30)
  <2>3. \A j, k \in 1..Len(packet_queue') : packet_queue'[j] = packet_queue'[k] => j = k
    <3>1. \A j, k \in 1..Len(packet_queue) : packet_queue[j] = packet_queue[k] => j = k
      BY ZenonT(30) DEF BufInv, Owned
    <3>2. ASSUME NEW k \in 1..Len(packet_queue')
          PROVE  packet_queue'[k] = packet_queue[k + 1] /\ k + 1 \in 1..Len(packet_queue)
      BY <1>4, ZenonT(30)
    <3>3. \A j, k \in 1..Len(packet_queue') : j + 1 = k + 1 => j = k
      BY <2>0
    <3> QED BY <3>1, <3>2, <3>3, ZenonT(30)
  <2>4. \A i \in TxSlot : tx_buffers'[i] # Null <=> i \in Held'
    BY <1>9, <1>14, <2>1, ZenonT(30) DEF BufInv, Owned
  <2>5. \A i, j \in TxSlot : tx_buffers'[i] = tx_buffers'[j] /\ tx_buffers'[i] # Null => i = j
    BY <1>14, <2>1, ZenonT(30) DEF BufInv, Owned
  <2>6. \A i \in TxSlot : /\ tx_buffers'[i] <= queued
                          /\ \A k \in 1..Len(packet_queue') : tx_buffers'[i] # packet_queue'[k]
    BY <1>14, <2>1, <2>2, ZenonT(30) DEF BufInv, Owned
  <2> QED BY <1>1, <2>2, <2>3, <2>4, <2>5, <2>6, ZenonT(30) DEF Owned
<1>16. NoLeak'
  <2>1. Range(packet_queue) = Range(packet_queue') \cup {p}
    <3>1. \A k \in 1..Len(packet_queue) :
            k = 1 \/ (k - 1 \in 1..Len(packet_queue') /\ packet_queue[k] = packet_queue'[k - 1])
      BY <1>4
    <3>2. Range(packet_queue) \subseteq Range(packet_queue') \cup {p}
      <4>1. ASSUME NEW k \in 1..Len(packet_queue)
            PROVE  packet_queue[k] \in Range(packet_queue') \cup {p}
        <5>1. CASE k = 1
          BY <5>1, <1>4
        <5>2. CASE k # 1
          <6>1. k - 1 \in DOMAIN packet_queue' /\ packet_queue[k] = packet_queue'[k - 1]
            BY <5>2, <3>1, <1>4
          <6> QED BY <6>1 DEF Range
        <5> QED BY <5>1, <5>2
      <4> QED BY <4>1, <1>4, ZenonT(30) DEF Range
    <3>3. p \in Range(packet_queue)
      <4>1. 1 \in DOMAIN packet_queue /\ p = packet_queue[1]
        BY <1>4
      <4> QED BY <4>1, ZenonT(30) DEF Range
    <3>4. Range(packet_queue') \subseteq Range(packet_queue)
      BY <1>4, ZenonT(40) DEF Range
    <3> QED BY <3>2, <3>3, <3>4
  <2>2. Range(tx_buffers') \ {Null} = (Range(tx_buffers) \ {Null}) \cup {p}
    <3>1. p # Null /\ DOMAIN tx_buffers = TxSlot /\ DOMAIN tx_buffers' = TxSlot
      BY <1>2, <1>4 DEF Null
    <3> QED BY <1>3, <1>13, <1>14, <3>1, ZenonT(30) DEF Range
  <2> QED BY <1>1, <2>1, <2>2, ZenonT(30) DEF BufInv, NoLeak
<1> QED BY <1>10, <1>11, <1>12, <1>15, <1>16 DEF BufInv

\* A batch ends without a reclaim loop only when the batch before was freed, and
\* with one once it is.
LEMMA BatchDoneBufInv ==
  ASSUME SyncCard, RxIInv, BufInv, TxSendDone \/ ReclaimDone
  PROVE  BufInv'
<1> USE DescAssumption, CardAssumption
<1>1. /\ pc \in {"tx_send", "reclaim"} /\ pc' \in {"reclaim", "idle"}
      /\ UNCHANGED <<icr, cause, cur_tx_head, tx_index, sent>>
  BY ZenonT(30) DEF TxSendDone, ReclaimDone, AfterSend, txDriver
<1>2. UNCHANGED bufState
  BY ZenonT(30) DEF TxSendDone, ReclaimDone, card, txDriver, sender, bufState
<1>3. tdh = tdt /\ ~tx_raise
  BY DEF TxSendDone, ReclaimDone, CpuRuns, BufInv, Synced
<1>4. pc' = "reclaim" => "txdw" \in cause /\ pc = "tx_send"
  BY DEF TxSendDone, ReclaimDone, AfterSend
<1>5. pc' = "idle" => last_reclaimed_tx = cur_tx_head
  <2>1. CASE TxSendDone
    BY <2>1, ZenonT(30) DEF TxSendDone, AfterSend, BufInv, Reported, BatchStart
  <2>2. CASE ReclaimDone
    BY <2>2 DEF ReclaimDone, BufInv, Reported
  <2> QED BY <2>1, <2>2, ZenonT(30)
<1>6. /\ BatchStart = cur_tx_head
      /\ pc' = "reclaim" => BatchStart' = cur_tx_head
      /\ pc' = "idle" => BatchStart' = cur_tx
  BY <1>1, <1>2 DEF BatchStart, bufState
<1>7. cur_tx \in TxSlot /\ cur_tx_head \in TxSlot /\ last_reclaimed_tx \in TxSlot
  BY ZenonT(30) DEF RxIInv, TypeOK
<1>8. Held' = Held
  <2>1. \A i \in TxSlot : ~Within(i, cur_tx, cur_tx) /\ ~Within(i, cur_tx_head, cur_tx_head)
    BY <1>7, Apart
  <2>2. CASE pc' = "reclaim"
    BY <1>2, <1>6, <2>2 DEF Held, bufState
  <2>3. CASE pc' = "idle"
    BY <1>2, <1>5, <1>6, <2>1, <2>3 DEF Held, bufState
  <2> QED BY <1>1, <2>2, <2>3, ZenonT(30)
<1>9. /\ TxDist(last_reclaimed_tx, BatchStart') <= MaxQueued
      /\ TxDist(BatchStart', cur_tx) <= MaxQueued
  <2>1. TxDist(cur_tx, cur_tx) = 0
    BY <1>7, Apart, ZenonT(30)
  <2> QED BY <1>1, <1>5, <1>6, <2>1 DEF BufInv, Batches
<1>10. Synced' /\ Batches' /\ Owned' /\ NoLeak'
  BY <1>1, <1>2, <1>3, <1>8, <1>9, BufFrame, ZenonT(30)
<1>11. Reported'
  <2>1. CardBit.TXDW \in icr \/ cur_tx_head = cur_tx
    BY <1>3, <1>6 DEF BufInv, Reported
  <2>2. tx_index = last_reclaimed_tx
    BY <1>1 DEF BufInv, Reported
  <2>3. CASE pc' = "reclaim"
    BY <1>1, <1>2, <1>4, <1>6, <2>1, <2>2, <2>3, ZenonT(30) DEF Reported, bufState
  <2>4. CASE pc' = "idle"
    BY <1>1, <1>2, <1>5, <1>6, <2>1, <2>4, ZenonT(30) DEF Reported, bufState
  <2> QED BY <1>1, <2>3, <2>4
<1> QED BY <1>10, <1>11 DEF BufInv

\* What the reclaim loop frees: the oldest slot that holds a buffer, and it is
\* written back.
LEMMA ReclaimFacts ==
  ASSUME RxIInv, BufInv, pc = "reclaim", tx_index # cur_tx_head
  PROVE  /\ tx_index = last_reclaimed_tx /\ tx_index \in Held /\ CardTx = {}
         /\ tx_index \in tx_dd
         /\ tx_buffers[tx_index] # Null /\ tx_buffers[tx_index] \in heap
<1> USE DescAssumption, CardAssumption
<1>1. tx_index = last_reclaimed_tx /\ BatchStart = cur_tx_head
  BY DEF BufInv, Reported, BatchStart
<1>2. /\ tx_index \in TxSlot /\ cur_tx_head \in TxSlot /\ tdh \in TxSlot
      /\ tx_buffers \in [TxSlot -> 0..MaxTx]
  BY ZenonT(30) DEF RxIInv, TypeOK
<1>3. tx_index \in Held
  BY <1>1, <1>2, Shorten, ZenonT(30) DEF Held
<1>4. CardTx = {}
  BY <1>2 DEF BufInv, Synced, CardTx, Within, TxSlot
<1>5. tx_index \in tx_dd
  BY <1>2, <1>4, ZenonT(30) DEF BufInv, Synced
<1>6. tx_buffers[tx_index] # Null /\ tx_buffers[tx_index] \in Range(tx_buffers)
  BY <1>2, <1>3, ZenonT(30) DEF BufInv, Owned, Range
<1> QED BY <1>1, <1>3, <1>4, <1>5, <1>6 DEF BufInv, NoLeak

\* The reclaim loop frees one buffer and forgets its pointer.
LEMMA ReclaimBufInv ==
  ASSUME SyncCard, 2 * MaxQueued <= TX_DESC, RxIInv, BufInv, Reclaim
  PROVE  BufInv'
<1> USE DescAssumption, CardAssumption
<1> DEFINE r == tx_index
<1>1. pc = "reclaim" /\ pc' = pc /\ r # cur_tx_head
  BY DEF Reclaim
<1>2. /\ r = last_reclaimed_tx /\ r \in Held /\ r \in tx_dd
      /\ tx_buffers[r] # Null /\ tx_buffers[r] \in heap
  BY <1>1, ReclaimFacts, ZenonT(30)
<1>3. /\ tx_index' = TxNext(r) /\ last_reclaimed_tx' = TxNext(r)
      /\ heap' = heap \ {tx_buffers[r]}
      /\ tx_buffers' = [tx_buffers EXCEPT ![r] = Null]
      /\ UNCHANGED <<icr, cause, tdh, tdt, tx_dd, tx_raise, cur_tx, cur_tx_head, sent,
                     packet_queue, queued>>
  BY <1>2, ZenonT(30) DEF Reclaim, card
<1>4. /\ r \in TxSlot /\ cur_tx_head \in TxSlot /\ cur_tx \in TxSlot
      /\ tx_buffers \in [TxSlot -> 0..MaxTx] /\ packet_queue \in Seq(1..MaxTx)
      /\ queued \in 0..MaxTx
  BY ZenonT(30) DEF RxIInv, TypeOK
<1> HIDE DEF r
<1>5. BatchStart = cur_tx_head /\ BatchStart' = cur_tx_head
  BY <1>1, <1>3, ZenonT(30) DEF BatchStart
<1>6. /\ TxDist(r, cur_tx_head) <= MaxQueued /\ TxDist(cur_tx_head, cur_tx) <= MaxQueued
      /\ TxDist(r, cur_tx_head) \in Nat /\ TxDist(cur_tx_head, cur_tx) \in Nat
  BY <1>2, <1>4, <1>5, Apart, ZenonT(30) DEF BufInv, Batches
<1>7. ~Within(r, cur_tx_head, cur_tx)
  <2>1. TxDist(r, cur_tx_head) + TxDist(cur_tx_head, cur_tx) <= TX_DESC
    BY <1>6, 2 * MaxQueued <= TX_DESC
  <2> QED BY <1>1, <1>4, <2>1, Apart, ZenonT(30)
<1>8. /\ TxDist(TxNext(r), cur_tx_head) = TxDist(r, cur_tx_head) - 1
      /\ \A i \in TxSlot : Within(i, TxNext(r), cur_tx_head)
                             <=> Within(i, r, cur_tx_head) /\ i # r
  BY <1>1, <1>4, Shorten, ZenonT(30)
<1>9. Held' = Held \ {r}
  BY <1>2, <1>3, <1>5, <1>7, <1>8, ZenonT(30) DEF Held
<1>10. Synced'
  BY <1>1, <1>3, ZenonT(30) DEF BufInv, Synced, CardTx, Within
<1>11. Reported'
  BY <1>1, <1>3, <1>5, ZenonT(30) DEF BufInv, Reported
<1>12. Batches'
  <2>1. MaxQueued \in Nat
    OBVIOUS
  <2>2. TxDist(TxNext(r), cur_tx_head) <= MaxQueued
    BY <1>6, <1>8, <2>1
  <2>3. Batches /\ pc' # "tx_send"
    BY <1>1 DEF BufInv
  <2> QED BY <1>3, <1>5, <2>2, <2>3, ZenonT(30) DEF Batches, TxDist
<1>13. \A i \in TxSlot : tx_buffers'[i] = IF i = r THEN Null ELSE tx_buffers[i]
  BY <1>3, <1>4, ZenonT(30)
<1>14. Owned'
  <2>1. \A k \in 1..Len(packet_queue) : packet_queue[k] # Null
    BY <1>4 DEF Null
  <2>2. Null <= queued
    BY <1>4, SMTT(30) DEF Null
  <2>3. \A i \in TxSlot : tx_buffers'[i] # Null <=> i \in Held'
    BY <1>9, <1>13, ZenonT(30) DEF BufInv, Owned
  <2>4. \A i, j \in TxSlot : tx_buffers'[i] = tx_buffers'[j] /\ tx_buffers'[i] # Null => i = j
    BY <1>13, ZenonT(30) DEF BufInv, Owned
  <2>5. \A i \in TxSlot : /\ tx_buffers'[i] <= queued
                          /\ \A k \in 1..Len(packet_queue) : tx_buffers'[i] # packet_queue[k]
    BY <1>13, <2>1, <2>2, ZenonT(30) DEF BufInv, Owned
  <2>6. Owned
    BY DEF BufInv
  <2> QED BY <1>3, <2>3, <2>4, <2>5, <2>6, ZenonT(30) DEF Owned
<1>15. NoLeak'
  <2>1. tx_buffers[r] \notin Range(packet_queue)
    <3>1. DOMAIN packet_queue = 1..Len(packet_queue)
      BY <1>4
    <3> QED BY <1>4, <3>1, ZenonT(30) DEF BufInv, Owned, Range
  <2>2. Range(tx_buffers') \ {Null} = (Range(tx_buffers) \ {Null}) \ {tx_buffers[r]}
    <3>1. DOMAIN tx_buffers' = TxSlot /\ DOMAIN tx_buffers = TxSlot
      BY <1>3, <1>4, ZenonT(30)
    <3>2. \A i \in TxSlot : i # r => tx_buffers[i] # tx_buffers[r]
      BY <1>2, <1>4, ZenonT(30) DEF BufInv, Owned
    <3> QED BY <1>4, <1>13, <3>1, <3>2, ZenonT(30) DEF Range
  <2> QED BY <1>3, <2>1, <2>2, ZenonT(40) DEF BufInv, NoLeak
<1> QED BY <1>10, <1>11, <1>12, <1>14, <1>15 DEF BufInv

-----------------------------------------------------------------------------

\* The buffers stay in order in every state the driver and the card can reach.
LEMMA BufInvariant ==
  ASSUME SyncCard, 2 * MaxQueued <= TX_DESC
  PROVE  Spec => []BufInv
<1>1. Init => BufInv
  BY InitBufInv
<1>2. RxIInv /\ BufInv /\ [Next]_vars => BufInv'
  BY OtherBufInv, CardBufInv, EnqueueBufInv, TxHeadsBufInv, TxSendBufInv,
     BatchDoneBufInv, ReclaimBufInv
  DEF Next, Card, handle_interrupt, Receive, Transmit
<1> QED BY <1>1, <1>2, DriverInvariant, PTL DEF Spec

\* For every ring that two batches fit into, handle_interrupt never overwrites
\* the pointer to a buffer it has not freed: what is allocated is queued or kept
\* for the reclaim loop.
THEOREM BuffersNeverLeaked ==
  ASSUME SyncCard, 2 * MaxQueued <= TX_DESC
  PROVE  Spec => []NoLeak
<1>1. BufInv => NoLeak
  BY DEF BufInv
<1> QED BY <1>1, BufInvariant, PTL

\* For every such ring the reclaim loop frees no null pointer, no buffer twice
\* and no buffer the card still has to transmit.
THEOREM ReclaimAlwaysSafe ==
  ASSUME SyncCard, 2 * MaxQueued <= TX_DESC
  PROVE  Spec => []ReclaimSafe
<1>1. RxIInv /\ BufInv => ReclaimSafe
  BY ReclaimFacts, ZenonT(30) DEF ReclaimSafe
<1> QED BY <1>1, BufInvariant, DriverInvariant, PTL
=============================================================================
