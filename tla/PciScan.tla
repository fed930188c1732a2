-------------------------------- MODULE PciScan --------------------------------
(***************************************************************************)
(* Finding the network cards and bringing them up: the scan of the PCI     *)
(* configuration space (hardware/pci.rs), E1000Driver::new                 *)
(* (hardware/device.rs) with E1000Card::init and what follows it           *)
(* (hardware/device/e1000.rs), and the loop over the devices in            *)
(* NetworkExtension::setup (extensions/networking.rs).                     *)
(*                                                                         *)
(* A 32-bit register of configuration space is a pair of 16-bit words,     *)
(* low word first.  A physical address is the number of its frame, which   *)
(* a card's registers hold as a high part and a low part.                  *)
(***************************************************************************)
EXTENDS Integers, Sequences

CONSTANTS Buses, Slots,     \* the scan visits Buses buses: 255, of 32 slots
          RX_DESC, TX_DESC,
          Low,              \* the frames below 4 GiB
          Eeprom            \* the MAC address in the EEPROM of each card that
                            \* has one, by location

\* An absent device answers with ones, in every register.
Ones == <<65535, 65535>>

\* Configuration space: sixteen registers of two words for each device, which
\* has a bus, a slot of it and a function.
Bytes == 0..2^8 - 1
Words == 0..2^16 - 1
ConfigRegisters == {4 * i : i \in 0..15}
IsConfigSpace(c) ==
  \A l \in DOMAIN c : /\ l \in Nat \X (0..Slots - 1) \X (0..7)
                      /\ c[l] \in [ConfigRegisters -> Words \X Words]

\* The number of a slot has five bits; a MAC address is six bytes.
ASSUME PciAssumption ==
  /\ Buses \in Nat /\ Slots \in 1..32
  /\ RX_DESC \in Nat \ {0} /\ TX_DESC \in Nat \ {0} /\ Low \in Nat \ {0}
  /\ \A l \in DOMAIN Eeprom : Eeprom[l] \in [1..6 -> Bytes]

VARIABLES
  config,       \* configuration space: location, then register, to value
  bus_slot, id, \* the scan: positions visited, devices enumerated so far
  step,         \* where E1000Driver::new is; "scan" outside of it
  device,       \* the device it was given
  has_eeprom,
  writes,       \* the register writes it is about to make
  registers,    \* the registers of each card
  rings,        \* the frames of the rings allocated for each card
  network_devices  \* the devices that were set up

pci_vars == <<config, bus_slot, id, step, device, has_eeprom, writes, registers,
              rings, network_devices>>

Locations == DOMAIN config
Registers == {"TXDESCLO", "TXDESCHI", "TXDESCLEN", "TXDESCHEAD", "TXDESCTAIL",
              "RXDESCLO", "RXDESCHI", "RXDESCLEN", "RXDESCHEAD", "RXDESCTAIL",
              "RCTRL", "TCTRL", "TXDESCCTRL", "IMASK"}

-----------------------------------------------------------------------------
(* Configuration space.                                                    *)

\* The address written to CONFIG_ADDRESS, without the enable bit.
address(bus, slot, func, offset) ==
  bus * 2^16 + slot * 2^11 + func * 2^8 + (offset - (offset % 4))

\* What CONFIG_DATA reads after that.
Data(a) ==
  LET loc == <<a \div 2^16, (a \div 2^11) % 32, (a \div 2^8) % 8>>
  IN  IF loc \in Locations THEN config[loc][a % 2^8] ELSE Ones

read_32bit(bus, slot, func, offset) == Data(address(bus, slot, func, offset))
read_word(bus, slot, func, offset) ==
  read_32bit(bus, slot, func, offset)[IF (offset \div 2) % 2 = 1 THEN 2 ELSE 1]

BaseAddressRegister(raw) ==
  IF raw[1] % 2 = 0
  THEN [space |-> "Memory", address |-> <<raw[1] - (raw[1] % 16), raw[2]>>]
  ELSE [space |-> "IO", address |-> <<raw[1] - (raw[1] % 4), raw[2]>>]

NoDevice == [found |-> FALSE]

load_device(bus, slot) ==
  IF read_word(bus, slot, 0, 0) = 65535 THEN NoDevice
  ELSE LET third == read_32bit(bus, slot, 0, 8)
           fourth == read_32bit(bus, slot, 0, 12)
       IN  [found |-> TRUE, location |-> <<bus, slot, 0>>,
            vendor_id |-> read_word(bus, slot, 0, 0),
            id |-> read_word(bus, slot, 0, 2),
            class |-> <<third[2] \div 256, third[2] % 256>>,
            header_type |-> IF fourth[2] % 256 = 0 THEN "Generic" ELSE "Unknown",
            base_addresses |->
              [i \in 0..5 |->
                 BaseAddressRegister(read_32bit(bus, slot, 0, 16 + 4 * i))]]

\* The device at the position the scan has reached.
Current == load_device(bus_slot \div Slots, bus_slot % Slots)
IsE1000(dev) == dev.found /\ dev.id = 4110 /\ dev.vendor_id = 32902

PciInit(configs) ==
  /\ config \in configs
  /\ bus_slot = 0 /\ id = 0 /\ step = "scan"
  /\ device = NoDevice /\ has_eeprom = FALSE /\ writes = <<>>
  /\ registers = [l \in Locations |-> [r \in Registers |-> 0]]
  /\ rings = [l \in Locations |-> [rx |-> 0, tx |-> 0]]
  /\ network_devices = <<>>

-----------------------------------------------------------------------------
(* The scan.                                                               *)

Scanning == step = "scan" /\ bus_slot < Buses * Slots
card == <<device, has_eeprom, writes, registers, rings>>

ScanNone ==
  /\ Scanning /\ ~Current.found
  /\ bus_slot' = bus_slot + 1
  /\ UNCHANGED <<config, id, step, card, network_devices>>

ScanOther ==
  /\ Scanning /\ Current.found /\ ~IsE1000(Current)
  /\ bus_slot' = bus_slot + 1
  /\ id' = id + 1
  /\ UNCHANGED <<config, step, card, network_devices>>

\* What a card makes of a write to its command (low) and status (high) word:
\* a one written to an error bit of the status, 8 and 11 to 15, clears it.
WriteCommand(l, value) ==
  config' = [config EXCEPT ![l][4] =
    <<value[1], (config[l][4][2] % 2^8) + ((config[l][4][2] \div 2^9) % 4) * 2^9>>]

\* E1000Driver::new begins: enable_bus_mastering sets bit 2 of the command and
\* writes the status back as it was read.
enable_bus_mastering ==
  /\ Scanning /\ IsE1000(Current)
  /\ LET l == Current.location
         previous == Data(address(l[1], l[2], l[3], 4))
         master == IF (previous[1] \div 4) % 2 = 1 THEN previous[1]
                   ELSE previous[1] + 4
     IN  WriteCommand(l, <<master, previous[2]>>)
  /\ device' = Current
  /\ step' = "header"
  /\ UNCHANGED <<bus_slot, id, has_eeprom, writes, registers, rings,
                 network_devices>>

\* The next element of the enumeration.
NextDevice == bus_slot' = bus_slot + 1 /\ id' = id + 1 /\ step' = "scan"

\* Mutant: the scan does not move on.
HeaderUnknown_Again ==
  /\ step = "header" /\ device.header_type = "Unknown"
  /\ step' = "scan"
  /\ UNCHANGED <<config, bus_slot, id, card, network_devices>>

\* A device whose header is not generic gives Err, and is left out.
HeaderUnknown ==
  /\ step = "header" /\ device.header_type = "Unknown"
  /\ NextDevice
  /\ UNCHANGED <<config, card, network_devices>>

-----------------------------------------------------------------------------
(* E1000Card::init.                                                        *)

\* The registers that hold a ring's address are written in init for the
\* receive ring, and by mistake also those of the transmit ring, and again,
\* rightly, when that ring is set up.
RxWrites(f) ==
  << <<"TXDESCLO", f \div Low>>, <<"TXDESCHI", f % Low>>,
     <<"RXDESCLO", f % Low>>, <<"RXDESCHI", 0>>,
     <<"RXDESCLEN", RX_DESC * 16>>, <<"RXDESCHEAD", 0>>,
     <<"RXDESCTAIL", RX_DESC - 1>>, <<"RCTRL", 1>> >>

\* Mutant: the address of the transmit ring is taken to be set already.
TxWrites_LengthOnly(f) ==
  << <<"TXDESCLEN", TX_DESC * 16>>, <<"TXDESCHEAD", 0>>, <<"TXDESCTAIL", 0>>,
     <<"TCTRL", 1>> >>

TxWrites(f) ==
  << <<"TXDESCHI", f \div Low>>, <<"TXDESCLO", f % Low>>,
     <<"TXDESCLEN", TX_DESC * 16>>, <<"TXDESCHEAD", 0>>, <<"TXDESCTAIL", 0>>,
     <<"TCTRL", 1>> >>

\* The first access through a BAR in I/O space is a todo!.
IoSpace ==
  /\ step = "header" /\ device.header_type = "Generic"
  /\ device.base_addresses[0].space = "IO"
  /\ step' = "panicked"
  /\ UNCHANGED <<config, bus_slot, id, card, network_devices>>

\* An EEPROM that does not answer within a thousand reads is taken for
\* missing.  The receive ring is in frame f.
InitRx(f) ==
  /\ step = "header" /\ device.header_type = "Generic"
  /\ device.base_addresses[0].space = "Memory"
  /\ \E answered \in BOOLEAN :
       has_eeprom' = (device.location \in DOMAIN Eeprom /\ answered)
  /\ rings' = [rings EXCEPT ![device.location].rx = f]
  /\ writes' = RxWrites(f)
  /\ step' = "rx"
  /\ UNCHANGED <<config, bus_slot, id, device, registers, network_devices>>

\* Coms::write_command.
write_command ==
  /\ writes # <<>>
  /\ registers' = [registers EXCEPT ![device.location][Head(writes)[1]] =
                     Head(writes)[2]]
  /\ writes' = Tail(writes)
  /\ UNCHANGED <<config, bus_slot, id, step, device, has_eeprom, rings,
                 network_devices>>

InitTx(f) ==
  /\ step = "rx" /\ writes = <<>>
  /\ rings' = [rings EXCEPT ![device.location].tx = f]
  /\ writes' = TxWrites(f)
  /\ step' = "tx"
  /\ UNCHANGED <<config, bus_slot, id, device, has_eeprom, registers,
                 network_devices>>

-----------------------------------------------------------------------------
(* The rest of E1000Driver::new.                                           *)

enable_interrupts ==
  /\ step = "tx" /\ writes = <<>>
  /\ writes' = << <<"TXDESCCTRL", 2^26>>, <<"IMASK", 1>> >>
  /\ step' = "irq"
  /\ UNCHANGED <<config, bus_slot, id, device, has_eeprom, registers, rings,
                 network_devices>>

\* A word of the EEPROM: two bytes of the address, the first one low.
read_eeprom(k) ==
  LET mac == Eeprom[device.location] IN mac[2 * k + 1] + 2^8 * mac[2 * k + 2]

\* Mutant: the bytes of each word are taken high byte first.
MacBytes_Swapped(first2, second2, third2) ==
  <<first2 \div 2^8, first2 % 2^8, second2 \div 2^8, second2 % 2^8,
    third2 \div 2^8, third2 % 2^8>>

MacBytes(first2, second2, third2) ==
  <<first2 % 2^8, first2 \div 2^8, second2 % 2^8, second2 \div 2^8,
    third2 % 2^8, third2 \div 2^8>>

\* Without an EEPROM this is a todo!.
read_mac_address ==
  /\ step = "irq" /\ writes = <<>>
  /\ IF has_eeprom
     THEN /\ network_devices' = Append(network_devices,
               [id |-> id, location |-> device.location,
                mac |-> MacBytes(read_eeprom(0), read_eeprom(1), read_eeprom(2))])
          /\ NextDevice
     ELSE /\ step' = "panicked"
          /\ UNCHANGED <<bus_slot, id, network_devices>>
  /\ UNCHANGED <<config, card>>

Scan == ScanNone \/ ScanOther \/ enable_bus_mastering \/ HeaderUnknown
NewCard(f) == IoSpace \/ InitRx(f) \/ write_command \/ InitTx(f)
              \/ enable_interrupts \/ read_mac_address

-----------------------------------------------------------------------------
(* Properties.                                                             *)

\* When a card's receiver or transmitter is on, the card may use the memory of
\* its ring at once: the registers hold the ring that was allocated for it, of
\* the right size and empty, and bus mastering is on.  E1000Card::init writes
\* the address of the receive ring to the registers of both rings and puts
\* that right later; the receive ring has to lie below 4 GiB, as the high part
\* of its address is not written.
RingsReady ==
  \A l \in Locations :
    LET r == registers[l]
    IN  /\ r["RCTRL"] = 1 =>
             /\ rings[l].rx < Low =>
                  r["RXDESCHI"] * Low + r["RXDESCLO"] = rings[l].rx
             /\ r["RXDESCLEN"] = RX_DESC * 16
             /\ r["RXDESCHEAD"] = 0 /\ r["RXDESCTAIL"] = RX_DESC - 1
        /\ r["TCTRL"] = 1 =>
             /\ r["TXDESCHI"] * Low + r["TXDESCLO"] = rings[l].tx
             /\ r["TXDESCLEN"] = TX_DESC * 16
             /\ r["TXDESCHEAD"] = r["TXDESCTAIL"]
        /\ r["RCTRL"] = 1 \/ r["TCTRL"] = 1 => (config[l][4][1] \div 4) % 2 = 1

\* Function 0 of every slot that is scanned, when it is a card with a generic
\* header.  The last bus is not scanned.
Cards ==
  {l \in Locations : /\ l[1] < Buses /\ l[3] = 0
                     /\ config[l][0] = <<32902, 4110>>
                     /\ config[l][12][2] % 256 = 0}

\* The handler and the interrupt handler get one device for each card that the
\* scan reaches, no other, with a number of its own and the MAC address of that
\* card, whatever else is plugged in and although some cards are skipped on the
\* way (NetworkExtension::setup, E1000Driver::new).
CardsDriven ==
  LET devices == {network_devices[i] : i \in DOMAIN network_devices}
  IN  /\ \A i, j \in DOMAIN network_devices :
           i # j => /\ network_devices[i].id # network_devices[j].id
                    /\ network_devices[i].location # network_devices[j].location
      /\ \A d \in devices : /\ d.location \in Cards
                            /\ d.mac = Eeprom[d.location]
      /\ (step = "scan" /\ bus_slot = Buses * Slots) =>
           {d.location : d \in devices} = Cards
=============================================================================
