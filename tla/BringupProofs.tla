--------------------------- MODULE BringupProofs ----------------------------
(***************************************************************************)
(* Proofs about start-up: the parts run one after the other and share only *)
(* the frames of the heap, from which the rings of the cards get theirs, so*)
(* that the invariant is the conjunction of the invariants of the parts.   *)
(***************************************************************************)
EXTENDS Bringup, FirmwareProofs, PciProofs

BootInv == HeapInv /\ AcpiInv /\ PciInv

\* The invariant holds when Hardware::init begins.
LEMMA BootStart == Init => BootInv
<1> SUFFICES ASSUME Init PROVE BootInv
  OBVIOUS
<1>1. HeapInit /\ AcpiInit /\ PciInit(ConfigSpaces)
  BY Zenon DEF Init
<1>2. PciInv
  BY <1>1, BringupAssumption, PciStart, Zenon
<1> QED BY <1>1, <1>2, HeapStart, AcpiStart, Zenon DEF BootInv

\* Every step of start-up keeps the invariant: it is a step of one part and
\* leaves the others alone.
LEMMA BootStep == BootInv /\ [Next]_vars => BootInv'
<1> SUFFICES ASSUME BootInv, [Next]_vars PROVE BootInv'
  OBVIOUS
<1>1. \A f \in Range(page_table) : f \in Nat
  <2>1. page_table \in Seq(Nat)
    BY Zenon DEF BootInv, HeapInv, HeapTypes
  <2> QED BY <2>1 DEF Range
<1>2. CASE Next
  <2>1. [init_heap]_heap_vars
    BY <1>2, Zenon DEF Next, rsdp_acip_setup, memory_setup, InitInstance, NetworkSetup,
                       NetworkReady, PrintTables
  <2>2. [RSDT_load \/ get_rsdt_entries]_acpi_vars
    BY <1>2, Zenon DEF Next, rsdp_acip_setup, memory_setup, InitInstance, NetworkSetup,
                       NetworkReady, PrintTables
  <2>3. [Scan \/ \E f \in Nat : NewCard(f)]_pci_vars
    BY <1>1, <1>2, Zenon DEF Next, rsdp_acip_setup, memory_setup, InitInstance, NetworkSetup,
                             NetworkReady, PrintTables
  <2> QED BY <2>1, <2>2, <2>3, HeapStep, AcpiStep, PciStep, Zenon DEF BootInv
<1>3. CASE UNCHANGED vars
  <2>1. UNCHANGED heap_vars /\ UNCHANGED acpi_vars /\ UNCHANGED pci_vars
    BY <1>3, Zenon DEF vars
  <2> QED BY <2>1, HeapStep, AcpiStep, PciStep, Zenon DEF BootInv
<1> QED BY <1>2, <1>3

\* The invariant of start-up.
THEOREM BootInvariant == Spec => []BootInv
  BY BootStart, BootStep, PTL DEF Spec

\* A frame that the allocator hands out backs one heap page or one page table,
\* and lies in a region that the boot loader marked usable, for every memory
\* map, every size of the heap and every number of tables that map_to creates
\* (BootInfoFrameAllocator, init_heap).
THEOREM HeapFramesSound == Spec => []FramesSound
<1>1. BootInv => FramesSound
  BY HeapInvFrames, Zenon DEF BootInv
<1> QED BY <1>1, BootInvariant, PTL

\* The pages of the heap follow each other in memory, except around a page
\* table and at the end of a region (init_heap).
THEOREM HeapIsContiguous == Spec => []HeapContiguous
<1>1. BootInv => HeapContiguous
  BY HeapInvContiguous, Zenon DEF BootInv
<1> QED BY <1>1, BootInvariant, PTL

\* The walk yields every table of the firmware in order, and stands on an entry
\* of an interrupt controller table until it has yielded all of them, for every
\* root table (RSDT::load, RSDTIter, APICEntryIter).
THEOREM TablesAreWalked == Spec => []TablesWalked
<1>1. BootInv => TablesWalked
  BY AcpiInvWalked, Zenon DEF BootInv
<1> QED BY <1>1, BootInvariant, PTL

\* A card whose receiver or transmitter is on has the ring allocated for it, and
\* may use memory, for every configuration space, every length of the rings
\* and wherever the heap lies (E1000Card::init, enable_bus_mastering).
THEOREM RingsAreReady == Spec => []RingsReady
<1>1. BootInv => RingsReady
  BY PciInvReady, Zenon DEF BootInv
<1> QED BY <1>1, BootInvariant, PTL

\* The scan sets up every card that it reaches, once and with its MAC address,
\* and no other device, for every configuration space (load_device,
\* E1000Driver::new, NetworkExtension::setup).
THEOREM CardsAreDriven == Spec => []CardsDriven
<1>1. BootInv => CardsDriven
  BY PciInvDriven, Zenon DEF BootInv
<1> QED BY <1>1, BootInvariant, PTL
=============================================================================
