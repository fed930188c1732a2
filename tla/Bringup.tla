------------------------------- MODULE Bringup -------------------------------
(***************************************************************************)
(* Start-up from Hardware::init (hardware.rs) to the run loop              *)
(* (kernel_main, main.rs): the root ACPI table, the heap, the network      *)
(* cards and the walk over the ACPI tables, one after the other.  The      *)
(* rings of a card lie in the heap and are given to it by the addresses of *)
(* the frames that back the heap.  What interrupts do meanwhile is in      *)
(* Interrupts and E1000.                                                   *)
(***************************************************************************)
EXTENDS HeapSetup, PciScan, AcpiTables

CONSTANTS ConfigSpaces,  \* what may be plugged in
          Machines       \* the memory maps, configuration spaces and root
                         \* tables that occur together

ASSUME BringupAssumption == \A c \in ConfigSpaces : IsConfigSpace(c)

VARIABLES boot_info,    \* is there an RSDP address, a physical memory offset?
          boot          \* the part of start-up that runs

vars == <<heap_vars, pci_vars, acpi_vars, boot_info, boot>>

Init ==
  /\ \E m \in Machines : memory_map = m[1] /\ config = m[2] /\ firmware = m[3]
  /\ HeapInit /\ AcpiInit /\ PciInit(ConfigSpaces)
  /\ boot_info \in [rsdp_addr : BOOLEAN, physical_memory_offset : BOOLEAN]
  /\ boot = "rsdp"

-----------------------------------------------------------------------------
(* Hardware::init.                                                         *)

rsdp_acip_setup ==
  /\ boot = "rsdp"
  /\ IF ~boot_info.rsdp_addr
     THEN boot' = "heap" /\ UNCHANGED acpi_vars
     ELSE IF boot_info.physical_memory_offset
     THEN boot' = "heap" /\ RSDT_load
     ELSE boot' = "panicked" /\ UNCHANGED acpi_vars
  /\ UNCHANGED <<heap_vars, pci_vars, boot_info>>

\* memory_setup: the offset is unwrapped, and the heap has to be complete.
memory_setup ==
  /\ boot = "heap"
  /\ \/ /\ boot_info.physical_memory_offset
        /\ init_heap
        /\ boot' = IF heap' = "failed" THEN "panicked" ELSE "heap"
     \/ /\ ~boot_info.physical_memory_offset
        /\ boot' = "panicked"
        /\ UNCHANGED heap_vars
  /\ UNCHANGED <<pci_vars, acpi_vars, boot_info>>

\* setup_pci scans, and makes a device of none.
InitInstance ==
  /\ boot = "heap" /\ heap = "ok"
  /\ boot' = "network"
  /\ UNCHANGED <<heap_vars, pci_vars, acpi_vars, boot_info>>

-----------------------------------------------------------------------------
(* kernel_main.                                                            *)

\* NetworkExtension::setup, to the end of the scan.  translate_addr gives the
\* frame of a page of the heap.
NetworkSetup ==
  /\ boot = "network"
  /\ Scan \/ \E f \in Range(page_table) : NewCard(f)
  /\ boot' = IF step' = "panicked" THEN "panicked" ELSE "network"
  /\ UNCHANGED <<heap_vars, acpi_vars, boot_info>>

NetworkReady ==
  /\ boot = "network" /\ step = "scan" /\ bus_slot = Buses * Slots
  /\ boot' = IF boot_info.rsdp_addr THEN "tables" ELSE "run"
  /\ UNCHANGED <<heap_vars, pci_vars, acpi_vars, boot_info>>

PrintTables ==
  /\ boot = "tables"
  /\ get_rsdt_entries
  /\ boot' = IF walk' = "done" THEN "run" ELSE "tables"
  /\ UNCHANGED <<heap_vars, pci_vars, boot_info>>

Next == rsdp_acip_setup \/ memory_setup \/ InitInstance \/ NetworkSetup
        \/ NetworkReady \/ PrintTables

Spec == Init /\ [][Next]_vars

\* One CPU executes start-up, and the hardware answers.
FairSpec == Spec /\ WF_vars(Next)

-----------------------------------------------------------------------------
(* Properties.                                                             *)

\* Start-up comes to the run loop, or stops for one of these reasons: the boot
\* loader gave no physical memory offset, no usable frame is left for the heap
\* or its page tables, a card has its registers in I/O space, or its EEPROM is
\* missing or too slow.  Neither the scan, nor a card that is skipped, nor the
\* walk over the tables stops it.
StartCompletes ==
  <>(\/ boot = "run"
     \/ /\ boot = "panicked"
        /\ \/ ~boot_info.physical_memory_offset
           \/ Range(usable_frames) \subseteq Range(page_table \o tables \o <<frame>>)
           \/ IsE1000(device) /\ (device.base_addresses[0].space = "IO" \/ ~has_eeprom))
=============================================================================
