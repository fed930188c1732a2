# Verification of rucoonos

TLA+ models of the rucoonos kernel, the TLC runs that check them on small
instances, and TLAPS proofs for every value of the constants.  `PROJECT.json`
lists runs, mutants, findings, hazards and theorems, and maps each definition to
the lines of source it models.

## The system

rucoonos is a single-core x86_64 kernel.  Its work is done by

- **the executor** (`kernel/`): a loop takes a task id from the run queue, moves
  newly added tasks into its list, finds the task and polls it.  Wakers put ids
  into the run queue, from tasks and from interrupt handlers;
- **interrupt handlers** (`src/interrupts*`, `networking/interrupt.rs`), which run
  with interrupts off at any point of the rest.  `set_interrupt` replaces the
  IDT by a copy with one more handler and unmasks its line;
- **the e1000 driver** (`hardware/device/e1000*`): a receive and a transmit ring
  shared with the card.  Its interrupt handler moves received packets into the
  handler's queue, queued packets into the ring, and frees what was sent;
- **the network handler** (`extensions/networking/`): one task that receives
  packets and requests of other tasks from one queue, and keeps the DHCP
  exchange of each device and the bindings of waiting `get_mac` and `raw_ping`;
- **the protocols** (`networking/protocols/`): nested builders and parsers for
  Ethernet, ARP, IPv4, ICMP, UDP and DHCP;
- **logging** (`extensions/logging*`): a `tracing` subscriber that enqueues, and a
  task that keeps a stack of span names and prints;
- **memory** (`memory.rs`, `hardware/allocator.rs`): a frame allocator over the
  boot loader's memory map, and the mapping of the heap;
- **start-up** (`hardware.rs`, `main.rs`, `hardware/pci.rs`, `acpi*`): the root ACPI
  table, the heap, a scan of PCI that brings up each e1000 card it finds, and a
  walk over the ACPI tables.

What makes it hard: interrupts between any two instructions, a device that
writes to memory by itself, registers that a read clears, a network that
loses and duplicates, spin locks shared with handlers, offsets written by hand.

## Inventory

| Component | State | Operations | What must hold |
|---|---|---|---|
| executor | id counter, two queues, task list, wakers | add_task, run, wake | a queued id has its task; ids are unique; no wake-up is lost |
| e1000 driver | rings, heads and tails, ICR, buffers | init, enable_interrupts, read_mac_address, notify, handle_interrupt | a card that is on has its own rings; one owner per descriptor; FIFO; nothing waits without an interrupt; buffers freed once |
| e1000 registers | IMS, ICR | encode, decode | the mask enables and the cause decodes the events that the handler serves |
| network handler | DHCP exchange, bindings, IP map | start, requests, one case per packet | leases are held; answers reach who asked |
| protocols | frame under construction, options left to read | build, parse, checksum, option walk | what is built is parsed back; lengths and checksum are right; the operation is found |
| logging | queue, span names, stack | new_span, enter, event, exit, logger | events print under their span |
| interrupts | IDTs, masks, PICS, statics | basic_init, set_interrupt, handlers | the loaded IDT is live; no handler blocks; every line is acknowledged |
| memory | next frame, page table | allocate_frame, init_heap | frames are usable and not shared; heap pages are adjacent where they can be |
| PCI | configuration space, position of the scan | bruteforce, load_device, enable_bus_mastering | each card in reach is driven once, under its own address |
| ACPI | pointers, iterators | RSDT::load, both iterators | each table and entry is visited once |
| hardware set-up | boot information, part reached | Hardware::init, kernel_main | start-up ends in the run loop, or for a known reason |

## Modules

An action is one step that an interrupt handler, the card or another task can
come between.  State keeps the source's names.

- **Executor**: `add_task` is three steps (`FetchId`, `EnqueueTask`,
  `EnqueueId`), as is one turn of `run` (`Dequeue`, `TakeOver`/`Drained`, `Find`,
  then a poll).  A poll registers its waker and then looks for its event, so a
  `Signal` and its `wake` can fall in between.  Constants say which futures
  complete at once (`Trivial`) or after an event (`Finite`).
- **E1000**: `handle_interrupt` is split at each access to memory or registers
  shared with the card (`ReadCause`, `RxRead`, `RxCopy`, `RxWriteBack`,
  `RxRelease`, `TxHeads`, `TxSend`, `Reclaim`).  The card (`CardReceive`,
  `CardTransmit`, and the interrupts it raises later) runs at any time, or, with
  `SyncCard`, completes its pending write-backs before the CPU goes on.
- **PacketFifo**: what a direction of the driver promises, a queue that accepts
  and delivers in order; `E1000` implements it twice (`RxFifo`, `TxFifo`).
- **CauseRegisters**: registers as sets of bits, the layouts of mask and cause as
  records.  `E1000` extends it: the card and `Notify` set bits, the line is asserted
  for enabled bits, and the handler acts on what it decodes, so a layout that
  disagrees shows as a forgotten packet.
- **NetHandler**: one action per request and per kind of packet, the tasks that
  call `get_mac` and `raw_ping`, servers and hosts that answer.  Actions are
  whole handler cases: the executor does not preempt a poll.
- **Packets**: a byte is the field it was written for and its index there, so
  that overlaps, shifted reads and cut-off fields show.  A server's answer is
  a sequence of options; `Data::try_from` walks their bytes (`TakeOperation`,
  `SkipOption`, `EndOfOptions`), where values may hold any byte.
- **Checksum**: `set_checksum` over words below `M`, beside the one's-complement
  sum that a receiver computes.
- **Logging**: tasks and one handler, each in its own span, and the logger.
- **Interrupts**: start-up, `set_interrupt`, the two 8259s, and one handler at a
  time.  The code registers one line after start-up; the runs register two, as
  the interface allows, so that an IDT on the heap is replaced as well.
- **HeapSetup**: `init_heap` over a memory map; `map_to` takes any number of
  frames for page tables from the same allocator.
- **PciScan**: configuration space as a function from location and register to a
  pair of 16-bit words, read through `address` and `read_word` as in the code.
  `E1000Driver::new` is one action per part, and the register writes of `init`
  are made one by one (`write_command`), since a card that is on acts between
  two of them.  The control registers are kept to on or off, and the
  write of the inter-packet gap is left out.
- **AcpiTables**: a pointer is the number of its table, positions are bytes.
  Nothing calls `entries()` yet; the model calls it on each "APIC" table.
- **Bringup**: `Hardware::init` and `kernel_main` up to the run loop, composed of the
  three modules above: the rings lie in frames that `HeapSetup` mapped.
  `setup_pci` scans and makes a device of none, so `Hardware.devices` stays empty
  and the code in `kernel_main` that uses it does nothing.
- **ExecutorProofs**, **E1000Proofs**, **NetHandlerProofs**, **PreemptionProofs**
  (Interrupts and Logging), **ProtocolProofs** (Packets and Checksum),
  **FirmwareProofs** (HeapSetup and AcpiTables), **PciProofs**, **BringupProofs**: the
  theorems.
- **MC\***: the values of constants for TLC.

## Runs

Each property of a passing run has a mutant: a plausible slip in the code under
which TLC finds that property violated.

| Run | Shows | Bounds |
|---|---|---|
| Executor_tasks | ids find their task, are unique, wake-ups are kept; added tasks are polled, events are seen | 2 callers, 1 waker, 3 tasks: one completes at once, one after an event, one never; queue 2 |
| E1000_rings | exclusive descriptors, order, no wedge, no forgotten packet, a FIFO each way | rings of 3, 4 packets each way, 2 queued: both wrap, batches meet a busy ring, the card runs at its own pace |
| E1000_reclaim | buffers freed once, after sending, and all of them | ring of 6, 10 packets, batches of 3, a card that sends at once |
| NetHandler_dhcp | an address in use was leased to the device; exchange, address and indicator agree and go forward | 2 devices on separate networks, 2 servers, 2 addresses, loss and duplication |
| NetHandler_calls | answers go to who asked, no call is forgotten | 2 tasks, 2 hosts, loss, duplication, echo requests |
| NetHandler_live | addresses and answers arrive | 2 tasks, 2 hosts, reliable network |
| Logging_safety | events print under their span and above the level, names are removed | 2 tasks and a handler, 3 spans, 2 events, queue 3 |
| Interrupts_lines | IDT live and complete, PICS free, statics set, lines served | 3 lines, 2 registrations |
| Interrupts_heap | logging in a handler can wait for the allocator's lock (a violation) | the same |
| Packets_build | build and parse agree, lengths agree, the operation of an answer is found | 7 kinds of packet, payloads of 0 to 24 bytes: both sides of the 46-byte minimum; answers of up to 4 options, values that hold option codes, pads and empty options among them |
| Checksum_fold | the checksum is accepted unless the fold carries | 10 words as in the header, of 4 bits instead of 16 |
| Bringup_boot | frames usable and not shared, heap adjacent, rings in place before a card is on, each card driven once, tables walked, start-up ends | 3 pages, up to 2 new tables each, every map of up to 3 regions over 6 bounds; 5 sets of PCI devices on 2 of 3 buses: two cards, none, multifunction, in I/O space, without EEPROM; root tables of both widths with up to 4 tables of up to 2 entries |

Larger counts repeat these cases: two actors of a kind show each race between
them, and each ring wraps.  Deadlock is checked where the system never stops;
it is not where bounded traffic is used up, a computation ends, the kernel
panics, or the allocator deadlock below really stops it.

### Where code and documentation disagree

**Interrupts_heap** refutes the doc comment of the logging extension, which says
that it "avoids any form of locking and can therefore not cause any deadlocks":
an interrupt inside an allocation leaves the handler, which allocates a span,
spinning on the allocator's lock.  `LineServed` excepts exactly this state.

### Limits of what holds

The passing runs stay inside these limits; each was found by leaving it, with the
change of constants given, or by reading the lines named.  None of them is a
listed run.

- A completed task stays in the list and can be polled again, which panics
  (`kernel/src/lib.rs:107`).  Executor_tasks reaches that state, and its liveness
  properties except it.
- A packet that arrives before `enable_interrupts` loses its interrupt:
  E1000_rings with `MaxEarly = 1` violates `RxNotForgotten`.
- A batch of `TX_DESC` packets makes the full ring look empty: E1000_rings with
  `MaxQueued = 3` violates `TxImplementsFifo`.
- With a card that is slower than the handler (`SyncCard = FALSE`) or batches of
  more than half the ring, E1000_reclaim violates `ReclaimSafe` and `NoLeak`.
- Two callers with one target replace each other's binding: NetHandler_live with
  both clients on one host violates `PingAnswered` and `MacAnswered`.
- An echo request panics at a `todo!` (`EchoRequest`, fired by NetHandler_calls).
- Two devices on one network (`SharedLan = TRUE`) violate `LeaseHeld`: they share a
  transaction id and do not compare the hardware address.  `DhcpConsistent` and
  `DhcpOnward` still hold.
- The receive ring has to lie below 4 GiB (`e1000.rs:188`): `RingsReady` excepts
  frames above, which Bringup_boot has.
- Bus 255, functions other than 0 and multifunction cards are not found
  (`pci.rs:211`, `pci.rs:254`); the set `Cards` of `CardsDriven` leaves them out.
- A buffer or ring across two heap pages is only right where the pages are
  adjacent; `HeapContiguous` says where they are not.  Where the allocator puts
  buffers is not modelled.
- A pad or an empty option before the message type derails the walk over DHCP
  options (`dhcp.rs:63`); `OperationFound` excepts both, Packets_build has them.
- Adding the carries of the checksum can carry again (`ipv4.rs:106`); the condition
  of `CorrectUnlessCarry` leaves that case out.
- The DHCP request goes out without its end option (`dhcp.rs:192`), which
  `LengthsAgree` excepts; flags and fragment offset are read one byte too late
  (`ipv4.rs:154`), and `RoundTrip` does not compare them.  Header fields are compared
  as bytes: `dscp` is written shifted by 1 and read shifted by 2, which the
  constant 0 that the kernel sends hides.  `chaddr` is read with 16 bytes, of which the
  builders write six; `RoundTrip` checks that the others are zero.

## Fairness

- **Executor**: the run loop and started calls go on (weak fairness: nothing
  disables them).  Polls return (strong fairness of `PollReturns`): scheduling is
  cooperative, and the futures of the kernel look at their event finitely often.
- **E1000**: the card sends, raises its interrupts, and the CPU takes them.
- **NetHandler**: the handler and woken tasks are polled, which the executor's
  liveness gives; hosts answer, which only a reliable network gives.
- **Interrupts**: handlers run to their end; the interrupted code and a pending
  line go on infinitely often when they can infinitely often (strong fairness),
  since handlers are short and the controller offers a line at every chance.
- **Bringup**: start-up goes on (weak fairness of its one next-state relation): it
  is one thread, and the EEPROM that was found answers each later read.

## Proofs

Assumptions are those the modules name: natural bounds, rings of at least two
descriptors, headers of at most `M` words, finitely many devices, hosts that
answer ARP with their own address, DHCP answers that are made of whole options and
end in the end option (`IsAnswer`).  Start-up assumes what it is handed to be well
formed: regions of the memory map are not empty, ascend and begin and end at
frame boundaries (`IsMemoryMap`), tables are as long as their headers say
(`IsFirmware`), configuration space has 16 registers at each location
(`IsConfigSpace`), MAC addresses have six bytes.  These are assumptions about the
boot loader, the firmware and the bus.  Nothing in the repository promises regions
at frame boundaries, and `usable_frames` relies on them: the first frame of a region
that begins inside a frame would lie partly outside it (`memory.rs:71`).  TLC
evaluates the assumptions for the instances of the runs.

- **ExecutorProofs**: `TaskAvailable` is not inductive, since `run` looks a task up
  two steps after it took the id.  `IInv` adds `IdsKnown` (an id
  that is queued, held by a waker or taken before the drain belongs to a task
  that was handed over; after the drain the task is in the list), `IdsFresh` (ids
  in use are below the counter, and no two callers hold one) and `Schedulable`
  (an unfinished task is queued, has a waker, or is being added or run).
  One lemma per action.
- **E1000Proofs**, the descriptors: `RxIInv` adds the shape of the ring (`RxRing`:
  the filled descriptors are those from `cur_rx` to the head, the tail is the one
  before `cur_rx`) and its contents (`RxContents`: they hold the next packets in
  order).  `RxPending` and `TxPending` carry the two theorems about interrupts to
  come, with the assumptions `MaxEarly = 0` and `MaxQueued <= TX_DESC`; the limits
  above show that the first is needed and what happens at the second's bound.
  `CauseLayout` and `CauseDecoding` are what they need of the registers.
- **E1000Proofs**, the channels: `ReceivingIsFifo` (`Spec => RxFifo!Spec`) and
  `SendingIsFifo` (`Spec => TxFifo!Spec`, assuming `MaxQueued < TX_DESC`) show each
  step of driver and card to be a step of PacketFifo or a stutter.  Packets are
  numbered as they come, so that the content of a channel is an interval
  (`Numbered`), and a step moves one of its ends.
- **E1000Proofs**, the buffers: `ReclaimSafe` and `NoLeak`, assuming `SyncCard` and
  `2 * MaxQueued <= TX_DESC`.  `handle_interrupt` frees the batch before only after
  it has sent the next one, so two batches have to fit.  `BufInv` says
  that exactly the slots from the last one reclaimed to the next one to fill hold
  a buffer (`Owned`), that these are at most two batches (`Batches`), and that an
  interrupt is pending for what is left to reclaim (`Reported`).
- **NetHandlerProofs**: the shape of every message in flight (`Typed`);
  `ExchangeSteps` reduces any step to the start, the two arms of the DHCP match,
  or none, from which `DhcpConsistent` and `DhcpOnward` follow; `MacTruthful` with
  the fact that who is bound to a host asked for it (`MacInv`); `LeaseHeld` with the
  fact that a device asks for one address only (`LeaseInv`), assuming `~SharedLan`.
  `MacTracked` and `PingTracked` follow from `AllPlaced`, which says for each step of a
  caller where its request or listener is, and that it is there once.  They
  assume that no two callers ask for one host: a limit named above.
- **PreemptionProofs**, interrupts: `IInv` says for each step of start-up which
  lock is held and whether interrupts are on (`Exclusive`), which table is in `IDT`
  and in the CPU and that both are allocated (`Allocated`), what the tables hold
  (`Complete`), and which statics are set (`Prepared`).  `IdtValid`, `PicsAvailable`
  and `HandlersReady` follow, for any sequence of registrations.
- **PreemptionProofs**, logging: the logger's stack and the messages still queued
  determine the stack after each of them; `LogInv` says that this is the nesting
  in which the messages were recorded, so that `EventInItsSpan` is kept when the
  logger prints, and that it ends in the spans open now (`StackBalanced`).
- **FirmwareProofs**, memory: `UsableFrames` shows that the frames of a memory map
  ascend and lie in usable regions.  `HeapInv` says that the frames handed out are
  the first `next` of these, and that pages and tables are among them, each once
  (`HeapFrames`) and in order (`HeapOrder`).
- **FirmwareProofs**, ACPI: `AcpiInv` ties the pointer and what is left of a table to
  the number of entries yielded, for the root table (`RootInv`) and the interrupt
  controller tables (`EntriesInv`).  `EntriesInside` shows that entries of any lengths
  that follow each other begin at different places inside their table, so that
  the walk never takes one for another.
- **PciProofs**: `ScanInv` says that the devices given to the handler are the cards
  before the position of the scan, once each (`Driven`), and what
  `E1000Driver::new` knows at each step about the card it sets up.  `CardInv` says of
  the register writes of each phase which are made and which are still to come
  (`Pending`, `Applied`): no later write of a phase undoes an earlier one, and the
  write that turns a ring on is the last.  `CurrentDevice` shows that the shifts and
  masks of `address` and `read_word` read the register that was meant.
- **BringupProofs**: the invariant is the conjunction of the three; a step of
  start-up is a step of one part and leaves the others alone.  TLC finds it to
  hold in all states of Bringup_boot (with the numbers of writes bounded by 9).
- **ProtocolProofs**, building: `RoundTrip` and `LengthsAgree` speak of finished
  frames only; `BuildInv` says for each builder, when it is called, which layers
  are laid out (`Stages`), that nothing is written behind them and what is not
  written is zero (`Blank`), and which values their headers have.  The fields of a
  layout lie side by side (`Well`), so a builder leaves the layers outside its own
  as they are (`Layer`).  Behind the headers only the fields of the payload are
  written (`PayloadOnly`): the ten bytes after the MAC address in `chaddr`, which the
  parser reads as well, are therefore zero (`ChaddrReads`).  The assumption is that the buffer holds the largest
  packet, with one byte to spare for the end option of the DHCP request.
- **ProtocolProofs**, parsing: `Walk` says that until option 53 is read the bytes to
  come are those of the options from some option up to it (`From`): a length skips
  exactly one option (`SkipsOption`), whatever bytes are in its value.
- **ProtocolProofs**, checksums: `ChecksumInv` says that the plain sum and the
  one's-complement sum are congruent modulo `M - 1`, vanish together, and that the
  sum is bounded, so that one fold gives the same representative.

Facts about every position of a sequence (the frames of a memory map, the entries
of a table, the bytes of the options of an answer) need induction over data.  The
library's induction theorems cannot be used with these provers; `UpTo` in
FirmwareProofs and ProtocolProofs replaces them: a set that has 0,
and with each number below `n` the next one, has all up to `n`, since there is no
least number outside it (`LeastElement`).

Every invariant and every action property that a passing run checks is proved.
Only model-checked: liveness under fairness, including the fairness part of
`RxImplementsFifo` and `TxImplementsFifo`, since the prover handles neither fairness
nor ENABLED.

## Not modelled

- **Output** (`vga`, `video`, `serial`), **GDT**, **random numbers**: plain I/O,
  static tables, and a generator (`get_rand`) that nothing calls.
- **`done_guard`**: no handler uses it.  **AML** (`acpi/acpi/aml.rs`): not called.
- **UDP bindings**: nothing inserts one.  **CTRL and STATUS**: decoded, used nowhere.
- **The ICMP checksum over a payload**: the kernel sends empty payloads only.
- **The heap allocator** and the page-table library, which are crates of their own.
- **Driver, handler and executor in one module**: each is checked against what the
  other promises (a FIFO each way, polls that return); their product is too
  large for TLC at bounds where rings wrap and exchanges overlap.
- **Tests** and the **host tool** in `boot/`.
