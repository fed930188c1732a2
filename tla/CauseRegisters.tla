--------------------------- MODULE CauseRegisters ---------------------------
(***************************************************************************)
(* The interrupt registers of the card and their decoding                  *)
(* (hardware/device/e1000/regs.rs): what the driver enables in IMASK, what *)
(* it writes to ICS, and what it makes of ICR are three layouts that have  *)
(* to agree with each other and with the card.  A register is the set of   *)
(* its bits that are 1, a decoded register the set of its flags.           *)
(***************************************************************************)
EXTENDS Naturals

\* The bits that the card sets (Intel's manual of the card): a descriptor was
\* written back, a packet was received, the transmit ring runs low; the top bit
\* says that the interrupt line is asserted.
CardBit == [TXDW |-> 0, RXT0 |-> 7, TXD_LOW |-> 15, INT_ASSERTED |-> 31]

\* Mutant: two receive flags are swapped.
IMaskBits_RxdmtoForRxto ==
  [txdw |-> 0, txqe |-> 1, lsc |-> 2, rxdmto |-> 7, dsw |-> 5, rxo |-> 6,
   rxto |-> 4, mdac |-> 9, phyint |-> 12, lsecpn |-> 14, txd_low |-> 15]

\* The bit of each flag of IMaskRegister.
IMaskBits ==
  [txdw |-> 0, txqe |-> 1, lsc |-> 2, rxdmto |-> 4, dsw |-> 5, rxo |-> 6,
   rxto |-> 7, mdac |-> 9, phyint |-> 12, lsecpn |-> 14, txd_low |-> 15]

\* The bit of each flag of InterruptCauseRegister.
CauseBits ==
  [txdw |-> 0, txqe |-> 1, lsc |-> 2, rxdmt |-> 4, dsw |-> 5, rxo |-> 6,
   rxt |-> 7, txd_low |-> 15, int_asserted |-> 31]

\* A register value as the flags that are true, and back.
from(bits, raw) == {f \in DOMAIN bits : bits[f] \in raw}
into(bits, flags) == {bits[f] : f \in flags}
=============================================================================
