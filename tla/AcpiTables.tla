------------------------------ MODULE AcpiTables ------------------------------
(***************************************************************************)
(* The walk over the firmware's ACPI tables: the root table (RSDT or XSDT, *)
(* acpi.rs), the tables it points to, and the entries of the interrupt     *)
(* controller table, signature "APIC" (acpi/acpi.rs).                      *)
(*                                                                         *)
(* kernel_main takes the tables one by one.  Nothing in the kernel calls   *)
(* entries() yet; the model calls it on each "APIC" table it meets.        *)
(*                                                                         *)
(* A pointer in the root table is the number of the table it points to;    *)
(* positions inside a table are in bytes.                                  *)
(***************************************************************************)
EXTENDS Integers, Sequences

CONSTANTS RsdtAddr,   \* physical address of the root table
          Firmwares   \* root tables, see IsFirmware

HeaderSize == 36      \* size_of::<SDTHeader>()
ApicHeader == HeaderSize + 8
RootWidth(f) == IF f.signature = "XSDT" THEN 8 ELSE 4

\* The bytes that APICEntryIter::next reads of an entry of each type.
EntryReads(type) ==
  CASE type = 0 -> 8 [] type = 1 -> 12 [] type = 2 -> 10 [] type = 4 -> 6
    [] OTHER -> 2

\* A table as the ACPI specification has it: the entries of an interrupt
\* controller table follow each other and fill it.
IsTable(t) ==
  /\ t.length \in Nat
  /\ t.entries \in Seq([at : Nat, type : 0..255, length : Nat])
  /\ t.signature = "APIC" =>
       /\ t.length >= ApicHeader
       /\ t.entries = <<>> => t.length = ApicHeader
       /\ t.entries # <<>> => t.entries[1].at = ApicHeader
       /\ \A k \in DOMAIN t.entries :
            /\ t.entries[k].length >= EntryReads(t.entries[k].type)
            /\ t.entries[k].at + t.entries[k].length =
                 IF k = Len(t.entries) THEN t.length ELSE t.entries[k + 1].at

\* A root table; a rest shorter than a pointer may follow the last one.
IsFirmware(f) ==
  /\ DOMAIN f.tables = 1..Len(f.tables) /\ Len(f.tables) \in Nat
  /\ \A k \in DOMAIN f.tables : IsTable(f.tables[k])
  /\ \E rest \in 0..RootWidth(f) - 1 :
       f.length = HeaderSize + RootWidth(f) * Len(f.tables) + rest

ASSUME AcpiAssumption ==
  /\ RsdtAddr \in Nat
  /\ \A f \in Firmwares : IsFirmware(f)

VARIABLES firmware,
          rsdt,       \* Hardware.rsdt: where the pointers start, size, count
          ptr, left,  \* RSDTIter
          found,      \* the entries that the iterator has yielded
          apic, entry_ptr, remaining_size,  \* the table of APICEntryIter, and it
          seen,       \* the entries that it has yielded
          walk        \* "load", "iter", "next", "entries" or "done"

acpi_iter == <<ptr, left, found, apic, entry_ptr, remaining_size, seen>>
acpi_vars == <<firmware, rsdt, acpi_iter, walk>>

AcpiInit ==
  /\ firmware \in Firmwares
  /\ rsdt = [start |-> 0, size |-> 0, count |-> 0]
  /\ ptr = 0 /\ left = 0 /\ found = <<>>
  /\ apic = 0 /\ entry_ptr = 0 /\ remaining_size = 0 /\ seen = <<>>
  /\ walk = "load"

-----------------------------------------------------------------------------
(* The root table.                                                         *)

\* Mutant: one pointer too many when bytes are left after the last one.
RSDT_load_RoundUp ==
  /\ walk = "load"
  /\ LET size == RootWidth(firmware)
     IN  rsdt' = [start |-> RsdtAddr + HeaderSize, size |-> size,
                  count |-> (firmware.length - HeaderSize + size - 1) \div size]
  /\ walk' = "iter"
  /\ UNCHANGED <<firmware, acpi_iter>>

\* RSDP::load_rsdt, in rsdp_acip_setup.
RSDT_load ==
  /\ walk = "load"
  /\ LET size == IF firmware.signature = "XSDT" THEN 8 ELSE 4
     IN  rsdt' = [start |-> RsdtAddr + HeaderSize, size |-> size,
                  count |-> (firmware.length - HeaderSize) \div size]
  /\ walk' = "iter"
  /\ UNCHANGED <<firmware, acpi_iter>>

iter ==
  /\ walk = "iter"
  /\ ptr' = rsdt.start /\ left' = rsdt.count
  /\ walk' = "next"
  /\ UNCHANGED <<firmware, rsdt, found, apic, entry_ptr, remaining_size, seen>>

\* The table that the pointer at physical address p points to, read with the
\* given size; 0 when no pointer is there.
PointerAt(p, size) ==
  LET first == RsdtAddr + HeaderSize
      k == (p - first) \div size + 1
  IN  IF /\ size = RootWidth(firmware) /\ (p - first) % size = 0
         /\ k \in DOMAIN firmware.tables
      THEN k ELSE 0

Kinds == [APIC |-> "Apic", FACP |-> "FADT", HPET |-> "HighPrecisionEventTimer",
          WAET |-> "WindowsACPIEmulatedDevices"]

\* AcipEntry::load, by the signature of the table.
AcipEntry(t) ==
  IF t.signature \in DOMAIN Kinds THEN Kinds[t.signature] ELSE "Unknown"

\* RSDTIter::next, the entry made of the table, and for an "APIC" table the
\* iterator over its entries.
RSDTIter_next ==
  /\ walk = "next" /\ left > 0
  /\ LET k == PointerAt(ptr, rsdt.size)
         t == firmware.tables[k]
     IN  IF k = 0 THEN /\ found' = Append(found, "garbage")
                       /\ UNCHANGED <<apic, entry_ptr, remaining_size, seen, walk>>
         ELSE /\ found' = Append(found, AcipEntry(t))
              /\ IF AcipEntry(t) = "Apic"
                 THEN /\ apic' = k
                      /\ entry_ptr' = HeaderSize + 8
                      /\ remaining_size' = t.length - 8 - HeaderSize
                      /\ seen' = <<>>
                      /\ walk' = "entries"
                 ELSE UNCHANGED <<apic, entry_ptr, remaining_size, seen, walk>>
  /\ ptr' = ptr + rsdt.size
  /\ left' = left - 1
  /\ UNCHANGED <<firmware, rsdt>>

RSDTIter_end ==
  /\ walk = "next" /\ left = 0
  /\ walk' = "done"
  /\ UNCHANGED <<firmware, rsdt, acpi_iter>>

-----------------------------------------------------------------------------
(* The entries of an interrupt controller table.                           *)

Entries == firmware.tables[apic].entries
EntriesAt(p) == {k \in DOMAIN Entries : Entries[k].at = p}

EntryKinds == [t \in {0, 1, 2, 4} |->
  CASE t = 0 -> "ProcessLocal" [] t = 1 -> "IOApic"
    [] t = 2 -> "IOApicInterruptSourceOverride"
    [] t = 4 -> "LocalApicNonMaskableInterrupts"]

APICEntry(e) == IF e.type \in DOMAIN EntryKinds THEN EntryKinds[e.type]
                ELSE "Unknown"

\* APICEntryIter::next: what lies at the pointer is read as an entry.
APICEntryIter_next ==
  /\ walk = "entries" /\ remaining_size # 0
  /\ \E k \in EntriesAt(entry_ptr) :
       /\ seen' = Append(seen, APICEntry(Entries[k]))
       /\ entry_ptr' = entry_ptr + Entries[k].length
       /\ remaining_size' = remaining_size - Entries[k].length
  /\ UNCHANGED <<firmware, rsdt, ptr, left, found, apic, walk>>

APICEntryIter_end ==
  /\ walk = "entries" /\ remaining_size = 0
  /\ walk' = "next"
  /\ UNCHANGED <<firmware, rsdt, acpi_iter>>

get_rsdt_entries == iter \/ RSDTIter_next \/ RSDTIter_end
                    \/ APICEntryIter_next \/ APICEntryIter_end

-----------------------------------------------------------------------------
(* Properties.                                                             *)

\* The iterator over the root table yields what each of the firmware's tables
\* is, in order, once and to the last, with pointers of four or of eight bytes
\* and whatever follows the last one (RSDT::load, RSDTIter::next).  The
\* iterator over an "APIC" table stands on an entry until it has yielded all
\* of them and reads no byte behind the end of the table, although it goes by
\* the length found in each entry (APICEntryIter::next).
TablesWalked ==
  /\ \A k \in DOMAIN found : /\ k \in DOMAIN firmware.tables
                             /\ found[k] = AcipEntry(firmware.tables[k])
  /\ walk = "done" => Len(found) = Len(firmware.tables)
  /\ walk = "entries" =>
       /\ \A k \in DOMAIN seen : /\ k \in DOMAIN Entries
                                 /\ seen[k] = APICEntry(Entries[k])
       /\ IF remaining_size = 0 THEN Len(seen) = Len(Entries)
          ELSE \E k \in EntriesAt(entry_ptr) :
                 entry_ptr + EntryReads(Entries[k].type)
                   <= firmware.tables[apic].length
=============================================================================
