-------------------------------- MODULE E1000 --------------------------------
(***************************************************************************)
(* The e1000 driver (src/hardware/device/e1000.rs), the packet queue in    *)
(* front of it (src/hardware/device.rs) and the network card it drives.    *)
(*                                                                         *)
(* The CPU and the card run concurrently and meet in the two descriptor    *)
(* rings, the head and tail registers and the interrupt cause register.    *)
(* There is one CPU: while handle_interrupt runs no sender runs, but the   *)
(* interrupt may be taken between any two steps of a sender.               *)
(*                                                                         *)
(* The card owns the descriptors from head up to, not including, tail.     *)
(* With SyncCard it transmits while the CPU writes the tail register, as   *)
(* the emulated card does; otherwise at its own pace.                      *)
(***************************************************************************)
EXTENDS Integers, Sequences, Functions, CauseRegisters

CONSTANTS RX_DESC, TX_DESC,
          SyncCard,   \* does writing the tail wait for the transmission?
          MaxRx,      \* bound: packets the card receives
          MaxEarly,   \* bound: packets that arrive before enable_interrupts
          MaxTx,      \* bound: packets that are sent
          MaxQueued   \* bound: packets waiting in the packet queue at once

ASSUME DescAssumption == RX_DESC \in Nat /\ RX_DESC > 1 /\ TX_DESC \in Nat /\ TX_DESC > 1
ASSUME CardAssumption ==
  /\ SyncCard \in BOOLEAN
  /\ MaxRx \in Nat /\ MaxEarly \in Nat /\ MaxTx \in Nat /\ MaxQueued \in Nat

VARIABLES
  icr,                    \* the cause register: the bits not yet read
  rdh, rdt,               \* receive head and tail
  rx_dd,                  \* receive descriptors whose DD bit is set
  rx_data,                \* the packet in each receive buffer
  rx_raise,               \* the card is still to raise the receive cause
  tdh, tdt,               \* transmit head and tail
  tx_dd,                  \* transmit descriptors whose DD bit is set
  tx_addr,                \* the buffer each transmit descriptor points to
  tx_raise,               \* the card is still to raise the transmit cause
  cur_rx, cur_tx,         \* the driver's positions in the rings
  last_reclaimed_tx,
  tx_buffers,             \* the driver's pointers to the buffers handed over
  pc, cause, cur_tx_head, \* handle_interrupt and its locals
  sent, tx_index,         \* the counters of its two transmit loops
  packet_queue,           \* packets waiting to be sent, oldest first
  notifying,              \* a sender has queued a packet, is still to notify
  heap,                   \* transmit buffers that are allocated
  received, rx_out,       \* packets accepted by the card; passed to the handler
  queued, wire            \* packets ever queued; transmitted

card == <<rdh, rx_data, rx_raise, tdh, tx_raise, received, wire>>
rxDriver == <<rdt, cur_rx, rx_out>>
txDriver == <<tdt, tx_addr, cur_tx, last_reclaimed_tx, tx_buffers, cur_tx_head,
              sent, tx_index>>
sender == <<packet_queue, heap, notifying, queued>>
vars == <<icr, rx_dd, tx_dd, pc, cause, card, rxDriver, txDriver, sender>>

RxSlot == 0..RX_DESC-1
TxSlot == 0..TX_DESC-1

\* (i + 1) % RX_DESC and (i + 1) % TX_DESC for slots.
RxNext(i) == IF i = RX_DESC - 1 THEN 0 ELSE i + 1
TxNext(i) == IF i = TX_DESC - 1 THEN 0 ELSE i + 1

\* Packets are numbered from 1 in the order they enter; a transmit buffer has
\* the number of its packet, and the null pointer is 0.
Null == 0

\* E1000Card::init, up to enable_interrupts.
Init ==
  /\ icr = {}
  /\ rdh = 0 /\ rdt = RX_DESC - 1
  /\ rx_dd = {} /\ rx_data = [i \in RxSlot |-> 0] /\ rx_raise = FALSE
  /\ tdh = 0 /\ tdt = 0
  /\ tx_dd = TxSlot /\ tx_addr = [i \in TxSlot |-> Null] /\ tx_raise = FALSE
  /\ cur_rx = 0 /\ cur_tx = 0 /\ last_reclaimed_tx = 0
  /\ tx_buffers = [i \in TxSlot |-> Null]
  /\ pc = "init" /\ cause = {} /\ cur_tx_head = 0 /\ sent = 0 /\ tx_index = 0
  /\ packet_queue = <<>> /\ notifying = FALSE /\ heap = {}
  /\ received = 0 /\ rx_out = <<>> /\ queued = 0 /\ wire = <<>>

\* The CPU is past its last write of the tail register.
CpuRuns == SyncCard => tdh = tdt /\ ~tx_raise

-----------------------------------------------------------------------------
(* The card.                                                               *)

\* A packet arrives: it is written to the buffer at the head.  Without a free
\* descriptor the card drops it, which changes nothing here.
CardReceive ==
  /\ received < MaxRx
  /\ pc = "init" => received < MaxEarly
  /\ rdh # rdt
  /\ rx_data' = [rx_data EXCEPT ![rdh] = received + 1]
  /\ rx_dd' = rx_dd \cup {rdh}
  /\ rdh' = RxNext(rdh)
  /\ received' = received + 1
  /\ rx_raise' = TRUE
  /\ UNCHANGED <<icr, tx_dd, pc, cause, tdh, tx_raise, wire, rxDriver,
                 txDriver, sender>>

CardRaiseRx ==
  /\ rx_raise
  /\ icr' = icr \cup {CardBit.RXT0}
  /\ rx_raise' = FALSE
  /\ UNCHANGED <<rx_dd, tx_dd, pc, cause, rdh, rx_data, tdh, tx_raise,
                 received, wire, rxDriver, txDriver, sender>>

\* The card transmits the packet at the head and writes the descriptor back.
CardTransmit ==
  /\ tdh # tdt
  /\ wire' = Append(wire, tx_addr[tdh])
  /\ tx_dd' = tx_dd \cup {tdh}
  /\ tdh' = TxNext(tdh)
  /\ tx_raise' = TRUE
  /\ UNCHANGED <<icr, rx_dd, pc, cause, rdh, rx_data, rx_raise, received,
                 rxDriver, txDriver, sender>>

CardRaiseTx ==
  /\ tx_raise
  /\ SyncCard => tdh = tdt
  /\ icr' = icr \cup {CardBit.TXDW}
  /\ tx_raise' = FALSE
  /\ UNCHANGED <<rx_dd, tx_dd, pc, cause, rdh, rx_data, rx_raise, tdh,
                 received, wire, rxDriver, txDriver, sender>>

-----------------------------------------------------------------------------
(* PacketQueueSender::enqueue, from any task; the notify closure of         *)
(* E1000Card::init writes txd_low to ICS, and the card behaves as if its    *)
(* transmit ring had run low.                                              *)

Enqueue ==
  /\ pc = "idle" /\ CpuRuns
  /\ ~notifying
  /\ queued < MaxTx
  /\ Len(packet_queue) < MaxQueued
  /\ queued' = queued + 1
  /\ heap' = heap \cup {queued + 1}
  /\ packet_queue' = Append(packet_queue, queued + 1)
  /\ notifying' = TRUE
  /\ UNCHANGED <<icr, rx_dd, tx_dd, pc, cause, card, rxDriver, txDriver>>

\* Mutant: the packet is queued and the card is not told.
Notify_Dropped ==
  /\ pc = "idle" /\ CpuRuns
  /\ notifying
  /\ notifying' = FALSE
  /\ UNCHANGED <<icr, rx_dd, tx_dd, pc, cause, card, rxDriver, txDriver,
                 packet_queue, heap, queued>>

Notify ==
  /\ pc = "idle" /\ CpuRuns
  /\ notifying
  /\ icr' = icr \cup into(CauseBits, {"txd_low"})
  /\ notifying' = FALSE
  /\ UNCHANGED <<rx_dd, tx_dd, pc, cause, card, rxDriver, txDriver,
                 packet_queue, heap, queued>>

-----------------------------------------------------------------------------
(* enable_interrupts and handle_interrupt.                                 *)

\* What enable_interrupts writes to IMASK.
EnabledCauses == into(IMaskBits, {"txdw", "lsc", "rxto", "txd_low"})

\* IMASK is written; reading the cause register clears it.
EnableInterrupts ==
  /\ pc = "init"
  /\ icr' = {}
  /\ pc' = "idle"
  /\ UNCHANGED <<rx_dd, tx_dd, cause, card, rxDriver, txDriver, sender>>

\* The interrupt line is asserted for the causes that are enabled.
ReadCause ==
  /\ pc = "idle" /\ CpuRuns
  /\ icr \cap EnabledCauses # {}
  /\ cause' = from(CauseBits, icr \cup {CardBit.INT_ASSERTED})
  /\ icr' = {}
  /\ pc' = IF "rxt" \in cause' THEN "rx_read" ELSE "tx_heads"
  /\ UNCHANGED <<rx_dd, tx_dd, card, rxDriver, txDriver, sender>>

\* The receive loop: look at the descriptor at cur_rx, copy the packet into a
\* buffer of its own and queue it, give the descriptor back, move the tail.
\* Mutant: one packet per interrupt.
RxRead_Once ==
  /\ pc = "rx_read"
  /\ cause' = cause \ {"rxt"}
  /\ pc' = IF cur_rx \in rx_dd /\ "rxt" \in cause THEN "rx_copy" ELSE "tx_heads"
  /\ UNCHANGED <<icr, rx_dd, tx_dd, card, rxDriver, txDriver, sender>>

RxRead ==
  /\ pc = "rx_read"
  /\ pc' = IF cur_rx \in rx_dd THEN "rx_copy" ELSE "tx_heads"
  /\ UNCHANGED <<icr, rx_dd, tx_dd, cause, card, rxDriver, txDriver, sender>>

RxCopy ==
  /\ pc = "rx_copy"
  /\ rx_out' = Append(rx_out, rx_data[cur_rx])
  /\ pc' = "rx_write"
  /\ UNCHANGED <<icr, rx_dd, tx_dd, cause, card, rdt, cur_rx, txDriver,
                 sender>>

\* Mutant: the DD bit stays set.
RxWriteBack_KeepDD ==
  /\ pc = "rx_write"
  /\ pc' = "rx_tail"
  /\ UNCHANGED <<icr, rx_dd, tx_dd, cause, card, rxDriver, txDriver, sender>>

RxWriteBack ==
  /\ pc = "rx_write"
  /\ rx_dd' = rx_dd \ {cur_rx}
  /\ pc' = "rx_tail"
  /\ UNCHANGED <<icr, tx_dd, cause, card, rxDriver, txDriver, sender>>

\* Mutant: the tail is moved to the next descriptor to read.
RxRelease_NextTail ==
  /\ pc = "rx_tail"
  /\ cur_rx' = RxNext(cur_rx)
  /\ rdt' = RxNext(cur_rx)
  /\ pc' = "rx_read"
  /\ UNCHANGED <<icr, rx_dd, tx_dd, cause, card, rx_out, txDriver, sender>>

RxRelease ==
  /\ pc = "rx_tail"
  /\ cur_rx' = RxNext(cur_rx)
  /\ rdt' = cur_rx
  /\ pc' = "rx_read"
  /\ UNCHANGED <<icr, rx_dd, tx_dd, cause, card, rx_out, txDriver, sender>>

-----------------------------------------------------------------------------
(* The transmit half of handle_interrupt.                                  *)

\* Mutant: a transmitted packet is not followed by the reclaim loop.
AfterSend_NoReclaim == "idle"

\* The reclaim loop runs only for a write-back; after it the handler is done.
AfterSend == IF "txdw" \in cause THEN "reclaim" ELSE "idle"

\* Mutant: packets are handed over whether or not the card is done.
TxHeads_Busy ==
  /\ pc = "tx_heads" /\ CpuRuns
  /\ cur_tx_head' = tdh
  /\ sent' = 0
  /\ tx_index' = last_reclaimed_tx
  /\ pc' = IF cause \cap {"txd_low", "txdw"} # {} THEN "tx_send" ELSE AfterSend
  /\ UNCHANGED <<icr, rx_dd, tx_dd, cause, card, rxDriver, sender, tdt, tx_addr,
                 cur_tx, last_reclaimed_tx, tx_buffers>>

TxHeads ==
  /\ pc = "tx_heads" /\ CpuRuns
  /\ cur_tx_head' = tdh
  /\ sent' = 0
  /\ tx_index' = last_reclaimed_tx
  /\ pc' = IF tdh = tdt /\ cause \cap {"txd_low", "txdw"} # {} THEN "tx_send" ELSE AfterSend
  /\ UNCHANGED <<icr, rx_dd, tx_dd, cause, card, rxDriver, sender, tdt, tx_addr,
                 cur_tx, last_reclaimed_tx, tx_buffers>>

\* enqueue_packet: fill the descriptor at cur_tx, then move the tail past it.
TxSend ==
  /\ pc = "tx_send" /\ CpuRuns
  /\ sent < TX_DESC
  /\ packet_queue # <<>>
  /\ tx_addr' = [tx_addr EXCEPT ![cur_tx] = Head(packet_queue)]
  /\ tx_dd' = tx_dd \ {cur_tx}
  /\ tx_buffers' = [tx_buffers EXCEPT ![cur_tx] = Head(packet_queue)]
  /\ packet_queue' = Tail(packet_queue)
  /\ cur_tx' = TxNext(cur_tx)
  /\ tdt' = TxNext(cur_tx)
  /\ sent' = sent + 1
  /\ UNCHANGED <<icr, rx_dd, pc, cause, card, rxDriver, last_reclaimed_tx,
                 cur_tx_head, tx_index, heap, notifying, queued>>

TxSendDone ==
  /\ pc = "tx_send" /\ CpuRuns
  /\ sent = TX_DESC \/ packet_queue = <<>>
  /\ pc' = AfterSend
  /\ UNCHANGED <<icr, rx_dd, tx_dd, cause, card, rxDriver, txDriver, sender>>

\* Mutant: last_reclaimed_tx is not moved.
Reclaim_Again ==
  /\ pc = "reclaim"
  /\ tx_index # cur_tx_head
  /\ tx_index' = TxNext(tx_index)
  /\ IF tx_index \in tx_dd
       THEN /\ heap' = heap \ {tx_buffers[tx_index]}
            /\ tx_buffers' = [tx_buffers EXCEPT ![tx_index] = Null]
       ELSE UNCHANGED <<heap, tx_buffers>>
  /\ UNCHANGED <<icr, rx_dd, tx_dd, pc, cause, card, rxDriver, tdt, tx_addr,
                 cur_tx, cur_tx_head, last_reclaimed_tx, sent, packet_queue,
                 notifying, queued>>

\* Mutant: the slot is passed over and its buffer never freed.
Reclaim_Forget ==
  /\ pc = "reclaim"
  /\ tx_index # cur_tx_head
  /\ tx_index' = TxNext(tx_index)
  /\ tx_buffers' = [tx_buffers EXCEPT ![tx_index] = Null]
  /\ last_reclaimed_tx' = TxNext(tx_index)
  /\ UNCHANGED <<icr, rx_dd, tx_dd, pc, cause, card, rxDriver, tdt, tx_addr,
                 cur_tx, cur_tx_head, sent, sender>>

\* Free the buffer of the next completed descriptor behind the head.
Reclaim ==
  /\ pc = "reclaim"
  /\ tx_index # cur_tx_head
  /\ tx_index' = TxNext(tx_index)
  /\ IF tx_index \in tx_dd
       THEN /\ heap' = heap \ {tx_buffers[tx_index]}
            /\ tx_buffers' = [tx_buffers EXCEPT ![tx_index] = Null]
            /\ last_reclaimed_tx' = TxNext(tx_index)
       ELSE UNCHANGED <<heap, tx_buffers, last_reclaimed_tx>>
  /\ UNCHANGED <<icr, rx_dd, tx_dd, pc, cause, card, rxDriver, tdt, tx_addr,
                 cur_tx, cur_tx_head, sent, packet_queue, notifying, queued>>

ReclaimDone ==
  /\ pc = "reclaim"
  /\ tx_index = cur_tx_head
  /\ pc' = "idle"
  /\ UNCHANGED <<icr, rx_dd, tx_dd, cause, card, rxDriver, txDriver, sender>>

-----------------------------------------------------------------------------

Receive == RxRead \/ RxCopy \/ RxWriteBack \/ RxRelease

Transmit == TxHeads \/ TxSend \/ TxSendDone \/ Reclaim \/ ReclaimDone

handle_interrupt == ReadCause \/ Receive \/ Transmit

Card == CardReceive \/ CardRaiseRx \/ CardTransmit \/ CardRaiseTx

Next == Card \/ Enqueue \/ Notify \/ EnableInterrupts \/ handle_interrupt

Spec == Init /\ [][Next]_vars

(* The card finishes what it was given and raises the causes it owes; the   *)
(* CPU finishes what it started and takes a pending interrupt.  Packets     *)
(* need not arrive and need not be sent.                                    *)
Fairness ==
  /\ WF_vars(CardTransmit) /\ WF_vars(CardRaiseRx) /\ WF_vars(CardRaiseTx)
  /\ WF_vars(Notify) /\ WF_vars(EnableInterrupts) /\ WF_vars(handle_interrupt)

FairSpec == Spec /\ Fairness

-----------------------------------------------------------------------------
(* Properties.                                                             *)

\* Every variable keeps to the values the rings and registers allow.
TypeOK ==
  /\ icr \in SUBSET (0..31)
  /\ cause \in SUBSET DOMAIN CauseBits
  /\ rdh \in RxSlot /\ rdt \in RxSlot /\ cur_rx \in RxSlot
  /\ rx_dd \in SUBSET RxSlot
  /\ rx_data \in [RxSlot -> 0..MaxRx]
  /\ rx_raise \in BOOLEAN /\ tx_raise \in BOOLEAN /\ notifying \in BOOLEAN
  /\ tdh \in TxSlot /\ tdt \in TxSlot /\ cur_tx \in TxSlot
  /\ last_reclaimed_tx \in TxSlot /\ cur_tx_head \in TxSlot /\ tx_index \in TxSlot
  /\ tx_dd \in SUBSET TxSlot
  /\ tx_addr \in [TxSlot -> 0..MaxTx]
  /\ tx_buffers \in [TxSlot -> 0..MaxTx]
  /\ pc \in {"init", "idle", "rx_read", "rx_copy", "rx_write", "rx_tail",
             "tx_heads", "tx_send", "reclaim"}
  /\ sent \in 0..TX_DESC
  /\ packet_queue \in Seq(1..MaxTx)
  /\ heap \in SUBSET (1..MaxTx)
  /\ received \in 0..MaxRx /\ queued \in 0..MaxTx
  /\ rx_out \in Seq(1..MaxRx)
  /\ wire \in Seq(1..MaxTx)

\* i lies in the ring from a up to, not including, b.
Within(i, a, b) == IF a <= b THEN a <= i /\ i < b ELSE a <= i \/ i < b

CardRx == {i \in RxSlot : Within(i, rdh, rdt)}
CardTx == {i \in TxSlot : Within(i, tdh, tdt)}

\* The driver and the card never hold one receive descriptor at the same time:
\* the card cannot overwrite a packet that waits to be read, and the descriptor
\* that handle_interrupt copies from and writes back whole
\* (src/hardware/device/e1000.rs:390-412) is not the card's.
RxExclusive ==
  /\ CardRx \cap rx_dd = {}
  /\ pc \in {"rx_copy", "rx_write", "rx_tail"} => cur_rx \notin CardRx

\* The packets reach the handler's queue in the order the card accepted them,
\* each once and none skipped, across every wrap of the ring.
RxInOrder == \A i \in 1..Len(rx_out) : rx_out[i] = i

\* The receive loop does not race with the card: when the handler has left the
\* loop, a packet it did not see has a receive interrupt on the way, one that
\* IMASK enables.
RxNotForgotten ==
  pc \in {"idle", "tx_heads", "tx_send", "reclaim"} /\ rx_dd # {}
    => rx_raise \/ CardBit.RXT0 \in icr \cap EnabledCauses

\* The receive ring does not wedge: the card runs out of descriptors only while
\* a packet waits to be read or its descriptor is being given back, never with
\* everything read and nobody left to move the tail.
RxNotWedged == rdh = rdt => rx_dd # {} \/ pc = "rx_tail"

\* A packet never waits in the queue with nothing left to send it: either the
\* card is still busy or owes an interrupt, or an enabled cause is pending, or
\* the sender is still to notify, or the handler has yet to look at the queue.
TxNotForgotten ==
  packet_queue # <<>> =>
    \/ tdh # tdt \/ tx_raise \/ notifying
    \/ icr \cap EnabledCauses \cap {CardBit.TXDW, CardBit.TXD_LOW} # {}
    \/ pc \in {"rx_read", "rx_copy", "rx_write", "rx_tail", "tx_heads"}
         /\ cause \cap {"txdw", "txd_low"} # {}
    \/ pc = "tx_send"

\* The reclaim loop only frees what is allocated and no longer the card's: no
\* null pointer, no buffer twice, no buffer that is still to be transmitted
\* (src/hardware/device/e1000.rs:452-465).
ReclaimSafe ==
  pc = "reclaim" /\ tx_index # cur_tx_head /\ tx_index \in tx_dd =>
    /\ tx_buffers[tx_index] \in heap
    /\ \A i \in CardTx : tx_addr[i] # tx_buffers[tx_index]

\* No transmit buffer is leaked: what is allocated is queued, or its pointer is
\* kept for the reclaim loop.
NoLeak == heap = Range(packet_queue) \cup (Range(tx_buffers) \ {Null})

\* The buffer of every packet is freed in the end.
BufferIsFreed ==
  \A n \in 1..MaxTx : (n \in heap) ~> (n \notin heap)

-----------------------------------------------------------------------------
(* Both directions implement PacketFifo.                                   *)

\* What the driver has still to copy out of the receive ring, in ring order: the
\* packet at cur_rx is out of the channel once it is copied.
RxWaiting ==
  LET n == IF cur_rx <= rdh THEN rdh - cur_rx ELSE rdh - cur_rx + RX_DESC
      s == [k \in 1..n |-> rx_data[(cur_rx + k - 1) % RX_DESC]]
  IN  IF pc \in {"rx_write", "rx_tail"} THEN Tail(s) ELSE s

RxFifo == INSTANCE PacketFifo
            WITH Capacity <- RX_DESC - 1, accepted <- received,
                 fifo <- RxWaiting, out <- rx_out

\* Receiving, from the card's write to the ring to the handler's queue, is a
\* first-in first-out channel as long as the ring less one descriptor: each
\* packet the card accepts is delivered, once, in order.
RxImplementsFifo == RxFifo!FairSpec

\* What the card still has to transmit, in ring order.
InFlight ==
  LET n == IF tdh <= tdt THEN tdt - tdh ELSE tdt - tdh + TX_DESC
  IN  [k \in 1..n |-> tx_addr[(tdh + k - 1) % TX_DESC]]

TxFifo == INSTANCE PacketFifo
            WITH Capacity <- MaxQueued + TX_DESC, accepted <- queued,
                 fifo <- InFlight \o packet_queue, out <- wire

\* Sending, from PacketQueueSender::enqueue to the wire, is a first-in first-out
\* channel: each packet queued is transmitted, once, in order.
TxImplementsFifo == TxFifo!FairSpec
=============================================================================
