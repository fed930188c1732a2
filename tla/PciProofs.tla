----------------------------- MODULE PciProofs ------------------------------
(***************************************************************************)
(* Proofs about the scan of the PCI bus and the set-up of the network cards*)
(* it finds, for every configuration space and every length of the rings.  *)
(* PciInv, the inductive invariant, has one part for the scan as a whole,  *)
(* ScanInv, and one for each card and the step its set-up has come to.     *)
(***************************************************************************)
EXTENDS PciScan, TLAPS

\* The elements of a sequence.
LEMMA Component ==
  ASSUME NEW S, NEW s \in Seq(S)
  PROVE  Len(s) \in Nat /\ DOMAIN s = 1..Len(s) /\ \A k \in 1..Len(s) : s[k] \in S
  OBVIOUS

-----------------------------------------------------------------------------
(* PciScan: configuration space.                                           *)

\* The parts of an address, as CONFIG_DATA takes it apart again.
Parts(a, bus, slot, offset) ==
  a \div 2^16 = bus /\ (a \div 2^11) % 32 = slot /\ (a \div 2^8) % 8 = 0 /\ a % 2^8 = offset

\* The address that read_32bit writes has bus, slot and offset in its bits.
LEMMA AddressParts ==
  ASSUME NEW bus \in Nat, NEW slot \in 0..31, NEW offset \in ConfigRegisters
  PROVE  Parts(address(bus, slot, 0, offset), bus, slot, offset)
<1> DEFINE a == bus * 65536 + slot * 2048 + offset
<1>0. offset \in 0..255 /\ offset % 4 = 0
  BY DEF ConfigRegisters
<1>1. address(bus, slot, 0, offset) = a
  BY <1>0 DEF address
<1>2. a \div 65536 = bus
  BY <1>0
<1>3. (a \div 2048) % 32 = slot
  <2>1. a \div 2048 = bus * 32 + slot
    BY <1>0
  <2> HIDE DEF a
  <2> QED BY <2>1
<1>4. (a \div 256) % 8 = 0
  <2>1. a \div 256 = bus * 256 + slot * 8
    BY <1>0
  <2>2. bus * 256 + slot * 8 = 8 * (bus * 32 + slot)
    OBVIOUS
  <2>3. \A q \in Nat : (8 * q) % 8 = 0
    OBVIOUS
  <2>4. bus * 32 + slot \in Nat
    OBVIOUS
  <2> HIDE DEF a
  <2> QED BY <2>1, <2>2, <2>3, <2>4
<1>5. a % 256 = offset
  <2>1. a = 256 * (bus * 256 + slot * 8) + offset
    BY <1>0
  <2>2. \A q \in Nat : (256 * q + offset) % 256 = offset
    BY <1>0
  <2>3. bus * 256 + slot * 8 \in Nat
    OBVIOUS
  <2> HIDE DEF a
  <2>4. PICK q \in Nat : q = bus * 256 + slot * 8
    BY <2>3
  <2>5. a = 256 * q + offset
    BY <2>1, <2>4
  <2> QED BY <2>2, <2>5
<1>6. 2^16 = 65536 /\ 2^11 = 2048 /\ 2^8 = 256
  OBVIOUS
<1> HIDE DEF a
<1>7. Parts(a, bus, slot, offset)
  BY <1>2, <1>3, <1>4, <1>5, <1>6, SMT DEF Parts
<1> QED BY <1>1, <1>7, Zenon

\* A register of function 0 is read back where it is.
LEMMA Reads ==
  ASSUME NEW bus \in Nat, NEW slot \in 0..31, NEW offset \in ConfigRegisters
  PROVE  read_32bit(bus, slot, 0, offset) =
           IF <<bus, slot, 0>> \in DOMAIN config THEN config[<<bus, slot, 0>>][offset]
           ELSE Ones
<1> DEFINE a == address(bus, slot, 0, offset)
<1>1. Parts(a, bus, slot, offset)
  BY AddressParts, Zenon
<1> HIDE DEF a
<1>2. Data(a) = IF <<bus, slot, 0>> \in DOMAIN config THEN config[<<bus, slot, 0>>][offset]
                ELSE Ones
  BY <1>1, Zenon DEF Parts, Data, Locations
<1> QED BY <1>2, Zenon DEF read_32bit, a

\* read_word gives the two halves of the first register, or ones.
LEMMA ReadWords ==
  ASSUME NEW bus \in Nat, NEW slot \in 0..31
  PROVE  /\ read_word(bus, slot, 0, 0) =
              IF <<bus, slot, 0>> \in DOMAIN config THEN config[<<bus, slot, 0>>][0][1] ELSE Ones[1]
         /\ read_word(bus, slot, 0, 2) =
              IF <<bus, slot, 0>> \in DOMAIN config THEN config[<<bus, slot, 0>>][0][2] ELSE Ones[2]
<1>1. address(bus, slot, 0, 2) = address(bus, slot, 0, 0)
  BY DEF address
<1>2. read_32bit(bus, slot, 0, 2) = read_32bit(bus, slot, 0, 0)
  BY <1>1, Zenon DEF read_32bit
<1>3. 0 \in ConfigRegisters /\ (0 \div 2) % 2 # 1 /\ (2 \div 2) % 2 = 1
  BY DEF ConfigRegisters
<1>4. read_32bit(bus, slot, 0, 0) =
        IF <<bus, slot, 0>> \in DOMAIN config THEN config[<<bus, slot, 0>>][0] ELSE Ones
  BY <1>3, Reads, Zenon
<1>5. /\ read_word(bus, slot, 0, 0) = read_32bit(bus, slot, 0, 0)[1]
      /\ read_word(bus, slot, 0, 2) = read_32bit(bus, slot, 0, 0)[2]
  BY <1>2, <1>3, Zenon DEF read_word
<1>7. CASE <<bus, slot, 0>> \in DOMAIN config
  BY <1>4, <1>5, <1>7, Zenon
<1>8. CASE <<bus, slot, 0>> \notin DOMAIN config
  BY <1>4, <1>5, <1>8, Zenon
<1> QED BY <1>7, <1>8, Zenon

\* The location that the scan visits at position n, and the position of one.
Loc(n) == <<n \div Slots, n % Slots, 0>>
Pos(l) == l[1] * Slots + l[2]

\* A number is its quotient times the divisor, and its rest.
LEMMA DivMod ==
  ASSUME NEW d \in Nat \ {0}, NEW n \in Nat
  PROVE  n \div d \in Nat /\ n % d \in 0..d-1 /\ (n \div d) * d + (n % d) = n
<1>1. n \div d \in Nat
  OBVIOUS
<1>2. n % d \in 0..d-1
  OBVIOUS
<1>3. n = d * (n \div d) + (n % d)
  OBVIOUS
<1>4. PICK q \in Nat, r \in 0..d-1 : q = n \div d /\ r = n % d
  BY <1>1, <1>2, Zenon
<1>5. n = d * q + r
  BY <1>3, <1>4, Zenon
<1>6. q * d + r = n
  BY <1>5
<1> QED BY <1>1, <1>2, <1>4, <1>6, Zenon

\* Quotient and rest are the ones the number was made of.
LEMMA MultipleAndRest ==
  ASSUME NEW d \in Nat \ {0}, NEW q \in Nat, NEW r \in 0..d-1
  PROVE  (q * d + r) \div d = q /\ (q * d + r) % d = r /\ q * d + r \in Nat
  OBVIOUS

\* The order of numbers follows that of their quotients.
LEMMA BelowMultiple ==
  ASSUME NEW d \in Nat \ {0}, NEW q \in Nat, NEW r \in 0..d-1, NEW b \in Nat
  PROVE  q * d + r < b * d <=> q < b
  OBVIOUS

\* A position of the scan has a location, and is its position.
LEMMA LocOfPosition ==
  ASSUME NEW n \in Nat
  PROVE  /\ n \div Slots \in Nat /\ n % Slots \in 0..31
         /\ Loc(n)[1] = n \div Slots /\ Loc(n)[2] = n % Slots /\ Loc(n)[3] = 0
         /\ Pos(Loc(n)) = n
<1>1. Slots \in Nat \ {0} /\ Slots <= 32
  BY PciAssumption
<1>2. n \div Slots \in Nat /\ n % Slots \in 0..Slots-1 /\ (n \div Slots) * Slots + (n % Slots) = n
  BY <1>1, DivMod, Zenon
<1>3. n % Slots \in 0..31
  BY <1>1, <1>2
<1>4. Loc(n)[1] = n \div Slots /\ Loc(n)[2] = n % Slots /\ Loc(n)[3] = 0
  BY Zenon DEF Loc
<1>5. Pos(Loc(n)) = (n \div Slots) * Slots + (n % Slots)
  BY <1>4, SMT DEF Pos
<1> QED BY <1>2, <1>3, <1>4, <1>5, Zenon

\* A location has a position, which the scan reaches when its bus is scanned.
LEMMA PositionOfLoc ==
  ASSUME NEW l \in Nat \X (0..Slots - 1) \X (0..7)
  PROVE  /\ Pos(l) \in Nat /\ (Pos(l) < Buses * Slots <=> l[1] < Buses)
         /\ l[3] = 0 => Loc(Pos(l)) = l
<1>1. Slots \in Nat \ {0} /\ Buses \in Nat
  BY PciAssumption
<1>0. l[1] \in Nat /\ l[2] \in 0..Slots - 1 /\ l[3] \in 0..7 /\ l = <<l[1], l[2], l[3]>>
  OBVIOUS
<1>2. PICK q \in Nat, r \in 0..Slots-1, f \in 0..7 : l = <<q, r, f>>
  BY <1>0, Zenon
<1>3. l[1] = q /\ l[2] = r /\ l[3] = f
  BY <1>2
<1>4. (q * Slots + r) \div Slots = q /\ (q * Slots + r) % Slots = r /\ q * Slots + r \in Nat
  BY <1>1, MultipleAndRest, Zenon
<1>5. q * Slots + r < Buses * Slots <=> q < Buses
  BY <1>1, BelowMultiple, Zenon
<1> QED BY <1>2, <1>3, <1>4, <1>5, Zenon DEF Pos, Loc

\* The words by which the driver knows its card.
Ident == <<32902, 4110>>
Header(w) == IF w[2] % 256 = 0 THEN "Generic" ELSE "Unknown"

\* What load_device and Device::load read of the device the scan is at.
LEMMA CurrentDevice ==
  ASSUME IsConfigSpace(config), bus_slot \in Nat
  PROVE  LET l == Loc(bus_slot)
         IN  /\ IsE1000(Current) <=> l \in DOMAIN config /\ config[l][0] = Ident
             /\ IsE1000(Current) => /\ Current.location = l /\ Current.found
                                    /\ Current.header_type = Header(config[l][12])
<1> DEFINE b == bus_slot \div Slots
           s == bus_slot % Slots
           l == Loc(bus_slot)
           w0 == IF l \in DOMAIN config THEN config[l][0] ELSE Ones
           w12 == IF l \in DOMAIN config THEN config[l][12] ELSE Ones
<1>1. b \in Nat /\ s \in 0..31 /\ l = <<b, s, 0>>
  BY LocOfPosition, Zenon DEF Loc
<1> HIDE DEF b, s, l
<1>2. 12 \in ConfigRegisters /\ 0 \in ConfigRegisters
  BY DEF ConfigRegisters
<1>3. read_32bit(b, s, 0, 12) = w12
  BY <1>1, <1>2, Reads, Zenon
<1>4. read_word(b, s, 0, 0) = w0[1] /\ read_word(b, s, 0, 2) = w0[2]
  BY <1>1, ReadWords, Zenon
<1>5. w0 \in Words \X Words
  <2>1. Ones \in Words \X Words
    <3>1. 65535 \in Words
      BY DEF Words
    <3> QED BY <3>1, SMT DEF Ones
  <2> QED BY <1>2, <2>1, Zenon DEF IsConfigSpace
<1>6. Current = load_device(b, s)
  BY Zenon DEF Current, b, s
<1> HIDE DEF w0, w12
<1>7. w0 = Ident <=> w0[1] = 32902 /\ w0[2] = 4110
  BY <1>5, SMT DEF Ident
<1>8. /\ Current.found <=> w0[1] # 65535
      /\ Current.found => /\ Current.location = <<b, s, 0>>
                          /\ Current.vendor_id = w0[1] /\ Current.id = w0[2]
                          /\ Current.header_type = Header(w12)
  <2>1. CASE w0[1] = 65535
    BY <1>4, <1>6, <2>1, SMT DEF load_device, NoDevice
  <2>2. CASE w0[1] # 65535
    BY <1>3, <1>4, <1>6, <2>2, SMT DEF load_device, Header
  <2> QED BY <2>1, <2>2
<1>9. IsE1000(Current) <=> w0 = Ident
  BY <1>7, <1>8, SMT DEF IsE1000
<1>10. Ones # Ident
  BY DEF Ones, Ident
<1>11. w0 = Ident <=> l \in DOMAIN config /\ config[l][0] = Ident
  BY <1>10, Zenon DEF w0
<1>12. l \in DOMAIN config => w12 = config[l][12]
  BY SMT DEF w12
<1>13. IsE1000(Current) => Current.found
  BY SMT DEF IsE1000
<1>14. IsE1000(Current) => Current.location = l /\ Current.header_type = Header(config[l][12])
  <2>1. Current.found => Current.location = l /\ Current.header_type = Header(w12)
    BY <1>1, <1>8, SMT
  <2> QED BY <1>9, <1>11, <1>12, <1>13, <2>1, Zenon
<1> QED BY <1>9, <1>11, <1>13, <1>14, Zenon DEF l

-----------------------------------------------------------------------------
(* The scan and the cards it drives.                                      *)

\* The locations of the cards that the driver takes, in configuration space c.
CardsOf(c) ==
  {l \in DOMAIN c : /\ l[1] < Buses /\ l[3] = 0
                    /\ c[l][0] = Ident /\ Header(c[l][12]) = "Generic"}

\* The cards, as the registers of the configuration space tell them.
LEMMA CardsAre == Cards = CardsOf(config)
<1>1. ASSUME NEW w PROVE Header(w) = "Generic" <=> w[2] % 256 = 0
  BY SMT DEF Header
<1>2. Ident = <<32902, 4110>>
  BY SMT DEF Ident
<1> QED BY <1>1, <1>2, SMT DEF Cards, CardsOf, Locations

NetworkDevices(c) == [id : Nat, location : DOMAIN c, mac : [1..6 -> Bytes]]

\* The devices nd are the cards at the positions before bs.
Driven(nd, c, bs, i) ==
  /\ nd \in Seq(NetworkDevices(c)) /\ i \in Nat /\ bs \in Nat
  /\ \A j \in 1..Len(nd) :
       /\ nd[j].id < i /\ nd[j].location \in CardsOf(c) /\ Pos(nd[j].location) < bs
       /\ nd[j].mac = Eeprom[nd[j].location]
  /\ \A j, k \in 1..Len(nd) :
       j # k => nd[j].id # nd[k].id /\ nd[j].location # nd[k].location
  /\ \A l \in CardsOf(c) : Pos(l) < bs => \E j \in 1..Len(nd) : nd[j].location = l

\* The card at a position.
LEMMA CardPosition ==
  ASSUME NEW c, IsConfigSpace(c), NEW l \in CardsOf(c)
  PROVE  Pos(l) \in Nat /\ Pos(l) < Buses * Slots /\ Loc(Pos(l)) = l
<1>1. l \in Nat \X (0..Slots - 1) \X (0..7) /\ l[1] < Buses /\ l[3] = 0
  BY Zenon DEF IsConfigSpace, CardsOf
<1> QED BY <1>1, PositionOfLoc, Zenon

\* The scan passes a position without a card.
LEMMA PassBy ==
  ASSUME NEW nd, NEW c, NEW bs, NEW i, Driven(nd, c, bs, i), IsConfigSpace(c),
         Loc(bs) \notin CardsOf(c), NEW later \in {i, i + 1}
  PROVE  Driven(nd, c, bs + 1, later)
<1>1. i \in Nat /\ bs \in Nat
  BY Zenon DEF Driven
<1>2. later \in Nat /\ bs + 1 \in Nat /\ \A x \in Nat : x < i => x < later
  BY <1>1
<1>3. \A x \in Nat : (x < bs => x < bs + 1) /\ (x < bs + 1 => x < bs \/ x = bs)
  BY <1>1
<1>4. \A l \in CardsOf(c) : Pos(l) \in Nat /\ Pos(l) # bs
  BY CardPosition, Zenon
<1>5. ASSUME NEW j \in 1..Len(nd)
      PROVE  /\ nd[j].id < later /\ nd[j].location \in CardsOf(c) /\ Pos(nd[j].location) < bs + 1
             /\ nd[j].mac = Eeprom[nd[j].location]
  <2>1. PICK d \in NetworkDevices(c) : d = nd[j]
    <3>1. nd \in Seq(NetworkDevices(c))
      BY Zenon DEF Driven
    <3> QED BY <3>1, Component, Zenon
  <2>2. d.id \in Nat
    BY SMT DEF NetworkDevices
  <2>3. d.id < i /\ d.location \in CardsOf(c) /\ Pos(d.location) < bs /\ d.mac = Eeprom[d.location]
    BY <2>1, Zenon DEF Driven
  <2>4. d.id < later /\ Pos(d.location) < bs + 1
    BY <1>2, <1>3, <1>4, <2>2, <2>3, Zenon
  <2> QED BY <2>1, <2>3, <2>4, Zenon
<1>6. \A l \in CardsOf(c) : Pos(l) < bs + 1 => \E j \in 1..Len(nd) : nd[j].location = l
  BY <1>3, <1>4, Zenon DEF Driven
<1> QED BY <1>2, <1>5, <1>6, Zenon DEF Driven

\* The scan sets up the card at a position.
LEMMA SetUp ==
  ASSUME NEW nd, NEW c, NEW bs, NEW i, Driven(nd, c, bs, i), IsConfigSpace(c),
         Loc(bs) \in CardsOf(c), Loc(bs) \in DOMAIN Eeprom,
         NEW d, d = [id |-> i, location |-> Loc(bs), mac |-> Eeprom[Loc(bs)]]
  PROVE  Driven(Append(nd, d), c, bs + 1, i + 1)
<1> DEFINE N == NetworkDevices(c)
           n == Len(nd)
           new == Append(nd, d)
<1>1. i \in Nat /\ bs \in Nat /\ nd \in Seq(N)
  BY Zenon DEF Driven
<1>2. Loc(bs) \in DOMAIN c /\ Eeprom[Loc(bs)] \in [1..6 -> Bytes]
  BY PciAssumption, Zenon DEF CardsOf
<1>3. d.id = i /\ d.location = Loc(bs) /\ d.mac = Eeprom[Loc(bs)]
  OBVIOUS
<1>4. d \in N
  BY <1>1, <1>2, SMT DEF NetworkDevices
<1> HIDE DEF N
<1>5. /\ n \in Nat /\ new \in Seq(N) /\ Len(new) = n + 1 /\ new[n + 1] = d
      /\ \A j \in 1..n : new[j] = nd[j] /\ nd[j] \in N
  BY <1>1, <1>4, SMT
<1>6. \A j \in 1..n+1 : j \in 1..n \/ j = n + 1
  BY <1>5
<1>7. \A j \in 1..n : j \in 1..n+1 /\ j # n + 1
  BY <1>5
<1>8. n + 1 \in 1..n+1 /\ i + 1 \in Nat /\ bs + 1 \in Nat /\ i < i + 1 /\ bs < bs + 1
  BY <1>1, <1>5
<1>9. /\ \A x \in Nat : (x < bs => x < bs + 1 /\ x # bs) /\ (x < bs + 1 => x < bs \/ x = bs)
      /\ \A x \in Nat : x < i => x < i + 1 /\ x # i
  BY <1>1
<1>10. \A l \in CardsOf(c) : Pos(l) \in Nat /\ Loc(Pos(l)) = l
  BY CardPosition, Zenon
<1>11. Pos(Loc(bs)) = bs
  BY <1>1, LocOfPosition, Zenon
<1> HIDE DEF n, new
<1>12. ASSUME NEW j \in 1..n
       PROVE  /\ nd[j].id < i + 1 /\ nd[j].id # i /\ nd[j].location \in CardsOf(c)
              /\ Pos(nd[j].location) < bs + 1 /\ nd[j].location # Loc(bs)
              /\ nd[j].mac = Eeprom[nd[j].location]
  <2>1. PICK e \in N : e = nd[j]
    BY <1>5, Zenon
  <2>2. e.id \in Nat
    BY SMT DEF NetworkDevices, N
  <2>3. e.id < i /\ e.location \in CardsOf(c) /\ Pos(e.location) < bs /\ e.mac = Eeprom[e.location]
    BY <2>1, Zenon DEF Driven, n
  <2>4. e.id < i + 1 /\ e.id # i /\ Pos(e.location) < bs + 1 /\ e.location # Loc(bs)
    BY <1>9, <1>10, <1>11, <2>2, <2>3, Zenon
  <2> QED BY <2>1, <2>3, <2>4, Zenon
<1>13. \A j \in 1..n+1 :
         /\ new[j].id < i + 1 /\ new[j].location \in CardsOf(c) /\ Pos(new[j].location) < bs + 1
         /\ new[j].mac = Eeprom[new[j].location]
  BY <1>3, <1>5, <1>6, <1>8, <1>11, <1>12, ZenonT(30)
<1>14. \A j, k \in 1..n+1 :
         j # k => new[j].id # new[k].id /\ new[j].location # new[k].location
  <2>1. \A j, k \in 1..n : j # k => nd[j].id # nd[k].id /\ nd[j].location # nd[k].location
    BY Zenon DEF Driven, n
  <2>2. ASSUME NEW j \in 1..n
        PROVE  /\ new[j].id # new[n + 1].id /\ new[j].location # new[n + 1].location
               /\ new[j] = nd[j]
    BY <1>3, <1>5, <1>12, ZenonT(30)
  <2> SUFFICES ASSUME NEW j \in 1..n+1, NEW k \in 1..n+1, j # k
               PROVE  new[j].id # new[k].id /\ new[j].location # new[k].location
    BY Zenon
  <2>3. CASE j \in 1..n /\ k \in 1..n
    BY <2>1, <2>2, <2>3, Zenon
  <2>4. CASE j = n + 1
    BY <1>6, <2>2, <2>4, Zenon
  <2>5. CASE k = n + 1
    BY <1>6, <2>2, <2>5, Zenon
  <2> QED BY <1>6, <2>3, <2>4, <2>5, Zenon
<1>15. \A l \in CardsOf(c) : Pos(l) < bs + 1 => \E j \in 1..n+1 : new[j].location = l
  <2>1. \A l \in CardsOf(c) : Pos(l) < bs => \E j \in 1..n : nd[j].location = l
    BY Zenon DEF Driven, n
  <2> QED BY <1>3, <1>5, <1>7, <1>8, <1>9, <1>10, <2>1, ZenonT(30)
<1>16. 1..n+1 = 1..Len(new) /\ new \in Seq(N)
  BY <1>5, Zenon
<1>17. Driven(new, c, bs + 1, i + 1)
  BY <1>8, <1>13, <1>14, <1>15, <1>16, ZenonT(30) DEF Driven, N
<1> QED BY <1>17, Zenon DEF new

\* What the handler and the interrupt handler get, from the devices set up.
LEMMA DrivenCards ==
  ASSUME IsConfigSpace(config), Driven(network_devices, config, bus_slot, id)
  PROVE  CardsDriven
<1> DEFINE nd == network_devices
           devices == {nd[i] : i \in DOMAIN nd}
<1>1. nd \in Seq(NetworkDevices(config))
  BY Zenon DEF Driven
<1>2. DOMAIN nd = 1..Len(nd)
  BY <1>1, Component, Zenon
<1>3. \A l \in CardsOf(config) : Pos(l) < Buses * Slots
  BY CardPosition, Zenon
<1>4. \A i, j \in DOMAIN nd : i # j => nd[i].id # nd[j].id /\ nd[i].location # nd[j].location
  BY <1>2, Zenon DEF Driven
<1>5. ASSUME NEW d \in devices
      PROVE  d.location \in CardsOf(config) /\ d.mac = Eeprom[d.location]
  <2>1. PICK i \in 1..Len(nd) : d = nd[i]
    BY <1>2, Zenon
  <2>2. nd[i].location \in CardsOf(config) /\ nd[i].mac = Eeprom[nd[i].location]
    BY Zenon DEF Driven
  <2> QED BY <2>1, <2>2, Zenon
<1>6. ASSUME bus_slot = Buses * Slots PROVE {d.location : d \in devices} = CardsOf(config)
  <2>1. ASSUME NEW l \in CardsOf(config) PROVE \E d \in devices : l = d.location
    <3>1. PICK j \in 1..Len(nd) : nd[j].location = l
      BY <1>3, <1>6, Zenon DEF Driven
    <3> QED BY <1>2, <3>1, Zenon
  <2> QED BY <1>5, <2>1, Zenon
<1> QED BY <1>4, <1>5, <1>6, CardsAre, Zenon DEF CardsDriven

\* A write to the command register of the device at l changes no other word.
Commanded(c, c2, l, v) ==
  /\ IsConfigSpace(c2) /\ DOMAIN c2 = DOMAIN c /\ c2[l][4] = v
  /\ \A m \in DOMAIN c : /\ m # l => c2[m] = c[m]
                         /\ c2[m][0] = c[m][0] /\ c2[m][12] = c[m][12]
  /\ CardsOf(c2) = CardsOf(c)

\* A write to the command register does that.
LEMMA CommandWritten ==
  ASSUME NEW c, IsConfigSpace(c), NEW l \in DOMAIN c, NEW v \in Words \X Words
  PROVE  Commanded(c, [c EXCEPT ![l][4] = v], l, v)
<1> DEFINE c2 == [c EXCEPT ![l][4] = v]
<1>1. c[l] \in [ConfigRegisters -> Words \X Words] /\ 4 \in ConfigRegisters
  BY DEF IsConfigSpace, ConfigRegisters
<1> DEFINE d == [c[l] EXCEPT ![4] = v]
<1>2. d \in [ConfigRegisters -> Words \X Words] /\ d[4] = v /\ d[0] = c[l][0] /\ d[12] = c[l][12]
  <2>1. 0 \in ConfigRegisters /\ 12 \in ConfigRegisters
    BY DEF ConfigRegisters
  <2> QED BY <1>1, <2>1
<1> HIDE DEF d
<1>3. c2 = [c EXCEPT ![l] = d]
  BY Zenon DEF d
<1> HIDE DEF c2
<1>4. DOMAIN c2 = DOMAIN c /\ c2[l] = d /\ \A m \in DOMAIN c : m # l => c2[m] = c[m]
  BY <1>3, Zenon
<1>5. \A m \in DOMAIN c : c2[m][0] = c[m][0] /\ c2[m][12] = c[m][12]
  BY <1>2, <1>4, Zenon
<1>6. IsConfigSpace(c2)
  BY <1>2, <1>4, Zenon DEF IsConfigSpace
<1>7. CardsOf(c2) = CardsOf(c)
  BY <1>4, <1>5, ZenonT(30) DEF CardsOf
<1>8. Commanded(c, c2, l, v)
  BY <1>2, <1>4, <1>5, <1>6, <1>7, ZenonT(30) DEF Commanded
<1> QED BY <1>8, Zenon DEF c2

\* Bit 2 of the command word: the card may use memory.
Master(w) == (w \div 4) % 2 = 1

\* The words that enable_bus_mastering writes are words, and have the bit set.
LEMMA MasterSet ==
  ASSUME NEW w \in Words, NEW s \in Words
  PROVE  LET m == IF (w \div 4) % 2 = 1 THEN w ELSE w + 4
             t == (s % 2^8) + ((s \div 2^9) % 4) * 2^9
         IN  m \in Words /\ Master(m) /\ t \in Words
<1> DEFINE m == IF (w \div 4) % 2 = 1 THEN w ELSE w + 4
           t == (s % 2^8) + ((s \div 2^9) % 4) * 2^9
<1>1. PICK q \in Nat, r \in 0..3 : w = 4 * q + r
  <2>1. w \in Nat
    BY SMT DEF Words
  <2>2. w \div 4 \in Nat /\ w % 4 \in 0..3 /\ w = 4 * (w \div 4) + (w % 4)
    BY <2>1
  <2> QED BY <2>2
<1>2. w \div 4 = q /\ (w + 4) \div 4 = q + 1
  BY <1>1
<1>3. q <= 16383 /\ (q % 2 # 1 => q # 16383 /\ (q + 1) % 2 = 1)
  <2>1. q <= 16383
    BY <1>1, SMT DEF Words
  <2>2. q % 2 # 1 => q # 16383 /\ (q + 1) % 2 = 1
    OBVIOUS
  <2> QED BY <2>1, <2>2
<1>4. q % 2 # 1 => w + 4 \in Words
  <2>1. w \in 0..2^16 - 1
    BY SMT DEF Words
  <2>2. q % 2 # 1 => w + 4 \in 0..2^16 - 1
    BY <1>1, <1>3, <2>1
  <2> QED BY <2>2, SMT DEF Words
<1>5. m \in Words
  BY <1>2, <1>4, SMT
<1>6. Master(m)
  BY <1>2, <1>3, SMT DEF Master
<1>7. t \in Words
  <2>1. s \in Nat
    BY SMT DEF Words
  <2>2. s % 256 \in Nat /\ s % 256 <= 255 /\ s \div 512 \in Nat
    BY <2>1
  <2>3. PICK x \in Nat, d \in Nat : x = s % 256 /\ x <= 255 /\ d = s \div 512
    BY <2>2, SMT
  <2>4. PICK y \in Nat : y = d % 4 /\ y <= 3
    BY SMT
  <2>5. t = x + y * 512
    BY <2>3, <2>4
  <2> HIDE DEF t
  <2>6. x + y * 512 \in Words
    BY <2>3, <2>4, SMT DEF Words
  <2> QED BY <2>5, <2>6, Zenon
<1> QED BY <1>5, <1>6, <1>7, Zenon

\* enable_bus_mastering: the location, and what becomes of configuration space.
LEMMA MasterWritten ==
  ASSUME IsConfigSpace(config), bus_slot \in Nat, enable_bus_mastering
  PROVE  LET l == Loc(bus_slot)
         IN  /\ l \in DOMAIN config /\ config[l][0] = Ident /\ bus_slot < Buses * Slots
             /\ device'.location = l /\ device'.header_type = Header(config[l][12])
             /\ \E v \in Words \X Words : /\ config' = [config EXCEPT ![l][4] = v]
                                          /\ Master(v[1])
<1> DEFINE l == Loc(bus_slot)
           w == config[l][4]
<1>1. /\ IsE1000(Current) /\ device' = Current /\ bus_slot < Buses * Slots
  BY Zenon DEF enable_bus_mastering, Scanning
<1>2. /\ l \in DOMAIN config /\ config[l][0] = Ident
      /\ Current.location = l /\ Current.header_type = Header(config[l][12])
  BY <1>1, CurrentDevice, Zenon
<1>3. l = <<bus_slot \div Slots, bus_slot % Slots, 0>> /\ bus_slot \div Slots \in Nat
      /\ bus_slot % Slots \in 0..31 /\ l[1] = bus_slot \div Slots /\ l[2] = bus_slot % Slots
      /\ l[3] = 0
  BY LocOfPosition, Zenon DEF Loc
<1>4. 4 \in ConfigRegisters
  BY DEF ConfigRegisters
<1>5. Data(address(l[1], l[2], l[3], 4)) = w
  <2>1. read_32bit(bus_slot \div Slots, bus_slot % Slots, 0, 4) =
          IF <<bus_slot \div Slots, bus_slot % Slots, 0>> \in DOMAIN config
          THEN config[<<bus_slot \div Slots, bus_slot % Slots, 0>>][4] ELSE Ones
    BY <1>3, <1>4, Reads, Zenon
  <2>2. Data(address(bus_slot \div Slots, bus_slot % Slots, 0, 4)) = w
    BY <1>2, <1>3, <2>1, Zenon DEF read_32bit
  <2> HIDE DEF l
  <2> QED BY <1>3, <2>2, Zenon
<1>6. w \in Words \X Words
  BY <1>2, <1>4, Zenon DEF IsConfigSpace
<1>7. w[1] \in Words /\ w[2] \in Words
  BY <1>6
<1> DEFINE m == IF (w[1] \div 4) % 2 = 1 THEN w[1] ELSE w[1] + 4
           t == (w[2] % 2^8) + ((w[2] \div 2^9) % 4) * 2^9
<1>8. m \in Words /\ Master(m) /\ t \in Words
  BY <1>7, MasterSet, Zenon
<1>9. config' = [config EXCEPT ![l][4] = <<m, t>>]
  <2>1. WriteCommand(l, <<m, w[2]>>)
    BY <1>2, <1>5, Zenon DEF enable_bus_mastering
  <2>2. <<m, w[2]>>[1] = m
    OBVIOUS
  <2> HIDE DEF m
  <2> QED BY <2>1, <2>2, Zenon DEF WriteCommand
<1> HIDE DEF m, t
<1>10. <<m, t>> \in Words \X Words /\ <<m, t>>[1] = m
  BY <1>8
<1> QED BY <1>1, <1>2, <1>8, <1>9, <1>10, Zenon

-----------------------------------------------------------------------------
RegisterWrites == Registers \X Nat

\* After n of the writes W, ws are the others, and r holds what was written.
Pending(W, n, ws) ==
  /\ n \in 0..Len(W) /\ Len(ws) = Len(W) - n
  /\ \A i \in 1..Len(ws) : ws[i] = W[n + i]
Applied(W, n, r) == \A k \in 1..n : r[W[k][1]] = W[k][2]
Distinct(W) == \A i, j \in 1..Len(W) : W[i][1] = W[j][1] => i = j

\* The write of v[2] to register v[1].
Write(r, v) == [r EXCEPT ![v[1]] = v[2]]

\* A write changes one register.
LEMMA WriteOne ==
  ASSUME NEW r \in [Registers -> Nat], NEW v \in RegisterWrites
  PROVE  /\ Write(r, v) \in [Registers -> Nat] /\ Write(r, v)[v[1]] = v[2]
         /\ \A x \in Registers : x # v[1] => Write(r, v)[x] = r[x]
<1>1. v[1] \in Registers /\ v[2] \in Nat
  BY SMT DEF RegisterWrites
<1> QED BY <1>1, Zenon DEF Write

\* The next write of a phase.
LEMMA WriteNext ==
  ASSUME NEW W \in Seq(RegisterWrites), Distinct(W), NEW ws \in Seq(RegisterWrites), NEW n,
         Pending(W, n, ws), ws # <<>>, NEW r \in [Registers -> Nat], Applied(W, n, r)
  PROVE  /\ Pending(W, n + 1, Tail(ws)) /\ Applied(W, n + 1, Write(r, Head(ws)))
         /\ n + 1 \in 1..Len(W) /\ Head(ws) = W[n + 1]
<1>1. n \in Nat /\ Len(W) \in Nat /\ Len(ws) \in Nat /\ Len(ws) # 0 /\ Len(ws) = Len(W) - n
  BY SMT DEF Pending
<1>2. n + 1 \in 1..Len(W) /\ 1 \in 1..Len(ws) /\ n + 1 \in 0..Len(W)
  BY <1>1
<1>3. Head(ws) = ws[1] /\ Len(Tail(ws)) = Len(ws) - 1 /\ \A i \in 1..Len(ws)-1 : Tail(ws)[i] = ws[i + 1]
  BY <1>1, SMT
<1>4. Head(ws) = W[n + 1]
  BY <1>2, <1>3, Zenon DEF Pending
<1>5. Len(Tail(ws)) = Len(W) - (n + 1)
  BY <1>1, <1>3
<1>6. \A i \in 1..Len(Tail(ws)) : i \in 1..Len(ws)-1 /\ i + 1 \in 1..Len(ws) /\ n + (i + 1) = (n + 1) + i
  BY <1>1, <1>3
<1>7. \A i \in 1..Len(Tail(ws)) : Tail(ws)[i] = W[(n + 1) + i]
  <2> SUFFICES ASSUME NEW i \in 1..Len(Tail(ws)) PROVE Tail(ws)[i] = W[(n + 1) + i]
    OBVIOUS
  <2>1. Tail(ws)[i] = ws[i + 1] /\ ws[i + 1] = W[n + (i + 1)]
    BY <1>3, <1>6, Zenon DEF Pending
  <2> QED BY <1>6, <2>1, Zenon
<1>8. W[n + 1] \in RegisterWrites /\ \A k \in 1..n : W[k] \in RegisterWrites /\ k \in 1..Len(W) /\ k # n + 1
  BY <1>1, <1>2, SMT
<1>10. PICK v \in RegisterWrites : v = Head(ws) /\ v = W[n + 1]
  BY <1>4, <1>8, Zenon
<1>11. Write(r, v)[v[1]] = v[2] /\ \A x \in Registers : x # v[1] => Write(r, v)[x] = r[x]
  BY WriteOne, Zenon
<1>9. ASSUME NEW k \in 1..n+1 PROVE Write(r, Head(ws))[W[k][1]] = W[k][2]
  <2>1. CASE k = n + 1
    BY <1>10, <1>11, <2>1, Zenon
  <2>2. CASE k \in 1..n
    <3>1. W[k][1] # W[n + 1][1]
      BY <1>2, <1>8, <2>2, Zenon DEF Distinct
    <3>2. W[k][1] \in Registers
      <4>1. PICK u \in RegisterWrites : u = W[k]
        BY <1>8, <2>2, Zenon
      <4>2. u[1] \in Registers
        BY SMT DEF RegisterWrites
      <4> QED BY <4>1, <4>2, Zenon
    <3>3. Write(r, Head(ws))[W[k][1]] = r[W[k][1]]
      BY <1>10, <1>11, <3>1, <3>2, Zenon
    <3> QED BY <2>2, <3>3, Zenon DEF Applied
  <2>3. k = n + 1 \/ k \in 1..n
    BY <1>1
  <2> QED BY <2>1, <2>2, <2>3
<1> QED BY <1>2, <1>4, <1>5, <1>7, <1>9, Zenon DEF Pending, Applied

\* The writes of E1000Card::init for the receive ring.
LEMMA RxWritten ==
  ASSUME NEW f \in Nat
  PROVE  /\ RxWrites(f) \in Seq(RegisterWrites) /\ Len(RxWrites(f)) = 8 /\ Distinct(RxWrites(f))
         /\ \A k \in 1..8 : RxWrites(f)[k][1] # "TCTRL" /\ (RxWrites(f)[k][1] = "RCTRL" => k = 8)
<1>1. f \div Low \in Nat /\ f % Low \in Nat /\ RX_DESC * 16 \in Nat /\ RX_DESC - 1 \in Nat
  BY PciAssumption, SMT
<1>2. Len(RxWrites(f)) = 8
  BY SMT DEF RxWrites
<1>3. RxWrites(f) \in Seq(RegisterWrites)
  BY <1>1, SMT DEF RxWrites, RegisterWrites, Registers
<1>4. \A k \in 1..8 : RxWrites(f)[k][1] # "TCTRL" /\ (RxWrites(f)[k][1] = "RCTRL" => k = 8)
  BY SMT DEF RxWrites
<1>5. \A i, j \in 1..8 : RxWrites(f)[i][1] = RxWrites(f)[j][1] => i = j
  BY SMT DEF RxWrites
<1> QED BY <1>2, <1>3, <1>4, <1>5, Zenon DEF Distinct

\* The writes for the transmit ring.
LEMMA TxWritten ==
  ASSUME NEW f \in Nat
  PROVE  /\ TxWrites(f) \in Seq(RegisterWrites) /\ Len(TxWrites(f)) = 6 /\ Distinct(TxWrites(f))
         /\ \A k \in 1..6 :
              /\ TxWrites(f)[k][1] \notin {"RXDESCLO", "RXDESCHI", "RXDESCLEN", "RXDESCHEAD",
                                          "RXDESCTAIL", "RCTRL"}
              /\ TxWrites(f)[k][1] = "TCTRL" => k = 6
<1>1. f \div Low \in Nat /\ f % Low \in Nat /\ TX_DESC * 16 \in Nat
  BY PciAssumption, SMT
<1>2. Len(TxWrites(f)) = 6
  BY SMT DEF TxWrites
<1>3. TxWrites(f) \in Seq(RegisterWrites)
  BY <1>1, SMT DEF TxWrites, RegisterWrites, Registers
<1>4. \A k \in 1..6 :
        /\ TxWrites(f)[k][1] \notin {"RXDESCLO", "RXDESCHI", "RXDESCLEN", "RXDESCHEAD",
                                    "RXDESCTAIL", "RCTRL"}
        /\ TxWrites(f)[k][1] = "TCTRL" => k = 6
  BY SMT DEF TxWrites
<1>5. \A i, j \in 1..6 : TxWrites(f)[i][1] = TxWrites(f)[j][1] => i = j
  BY SMT DEF TxWrites
<1> QED BY <1>2, <1>3, <1>4, <1>5, Zenon DEF Distinct

-----------------------------------------------------------------------------
\* What RingsReady asks of a card whose receiver, or transmitter, is on.
RxOk(r, rx) ==
  /\ rx < Low => r["RXDESCHI"] * Low + r["RXDESCLO"] = rx
  /\ r["RXDESCLEN"] = RX_DESC * 16
  /\ r["RXDESCHEAD"] = 0 /\ r["RXDESCTAIL"] = RX_DESC - 1
TxOk(r, tx) ==
  /\ r["TXDESCHI"] * Low + r["TXDESCLO"] = tx
  /\ r["TXDESCLEN"] = TX_DESC * 16
  /\ r["TXDESCHEAD"] = r["TXDESCTAIL"]
Ready(r, rg, w) ==
  /\ r["RCTRL"] = 1 => RxOk(r, rg.rx)
  /\ r["TCTRL"] = 1 => TxOk(r, rg.tx)
  /\ r["RCTRL"] = 1 \/ r["TCTRL"] = 1 => Master(w)
Off(r) == r["RCTRL"] = 0 /\ r["TCTRL"] = 0

\* A card that is off is ready.
LEMMA OffReady == ASSUME NEW r, NEW rg, NEW w, Off(r) PROVE Ready(r, rg, w)
  BY SMT DEF Off, Ready

\* The driver writes the receive ring's registers, then the transmit ring's,
\* then others.
Receiving(r, rg, ws) ==
  /\ r["TCTRL"] = 0
  /\ \E n : /\ Pending(RxWrites(rg.rx), n, ws) /\ Applied(RxWrites(rg.rx), n, r)
            /\ n # 8 => r["RCTRL"] = 0
Transmitting(r, rg, ws) ==
  /\ RxOk(r, rg.rx)
  /\ \E n : /\ Pending(TxWrites(rg.tx), n, ws) /\ Applied(TxWrites(rg.tx), n, r)
            /\ n # 6 => r["TCTRL"] = 0
Enabling(r, rg, ws) ==
  /\ RxOk(r, rg.rx) /\ TxOk(r, rg.tx)
  /\ \A i \in 1..Len(ws) : ws[i][1] \in {"TXDESCCTRL", "IMASK"}

\* The address of a ring, put together from its parts.
LEMMA RxAddress ==
  ASSUME NEW f \in Nat, NEW r, Applied(RxWrites(f), 8, r)
  PROVE  RxOk(r, f)
<1>1. /\ r["RXDESCLO"] = f % Low /\ r["RXDESCHI"] = 0 /\ r["RXDESCLEN"] = RX_DESC * 16
      /\ r["RXDESCHEAD"] = 0 /\ r["RXDESCTAIL"] = RX_DESC - 1
  <2>1. \A k \in {3, 4, 5, 6, 7} : r[RxWrites(f)[k][1]] = RxWrites(f)[k][2]
    BY SMT DEF Applied
  <2> QED BY <2>1, SMT DEF RxWrites
<1>2. Low \in Nat \ {0}
  BY PciAssumption, Zenon
<1>3. ASSUME f < Low PROVE 0 * Low + (f % Low) = f
  BY <1>2, <1>3, SMT
<1> QED BY <1>1, <1>3, SMT DEF RxOk

\* A transmit ring whose writes are made is where it was allocated.
LEMMA TxAddress ==
  ASSUME NEW f \in Nat, NEW r, Applied(TxWrites(f), 6, r)
  PROVE  TxOk(r, f)
<1>1. /\ r["TXDESCHI"] = f \div Low /\ r["TXDESCLO"] = f % Low /\ r["TXDESCLEN"] = TX_DESC * 16
      /\ r["TXDESCHEAD"] = 0 /\ r["TXDESCTAIL"] = 0
  <2>1. \A k \in {1, 2, 3, 4, 5} : r[TxWrites(f)[k][1]] = TxWrites(f)[k][2]
    BY SMT DEF Applied
  <2> QED BY <2>1, SMT DEF TxWrites
<1>2. Low \in Nat \ {0}
  BY PciAssumption, Zenon
<1>3. (f \div Low) * Low + (f % Low) = f
  BY <1>2, DivMod, Zenon
<1> QED BY <1>1, <1>3, Zenon DEF TxOk

RegisterFile == [Registers -> Nat]
RingFrames == [rx : Nat, tx : Nat]

\* The registers, written out.
LEMMA RegisterNames ==
  {"TXDESCLO", "TXDESCHI", "TXDESCLEN", "TXDESCHEAD", "TXDESCTAIL", "RXDESCLO", "RXDESCHI",
   "RXDESCLEN", "RXDESCHEAD", "RXDESCTAIL", "RCTRL", "TCTRL", "TXDESCCTRL", "IMASK"} = Registers
  BY Zenon DEF Registers

\* Coms::write_command, in each of the three phases.
LEMMA ReceivingWrites ==
  ASSUME NEW r \in RegisterFile, NEW rg \in RingFrames, NEW ws \in Seq(RegisterWrites),
         ws # <<>>, Receiving(r, rg, ws)
  PROVE  Receiving(Write(r, Head(ws)), rg, Tail(ws))
<1> DEFINE f == rg.rx
           W == RxWrites(f)
<1>0. f \in Nat
  BY SMT DEF RingFrames
<1> HIDE DEF f
<1>1. PICK n : Pending(W, n, ws) /\ Applied(W, n, r) /\ (n # 8 => r["RCTRL"] = 0)
  BY Zenon DEF Receiving, f
<1>2. /\ W \in Seq(RegisterWrites) /\ Len(W) = 8 /\ Distinct(W)
      /\ \A k \in 1..8 : W[k][1] # "TCTRL" /\ (W[k][1] = "RCTRL" => k = 8)
  BY <1>0, RxWritten, Zenon
<1> HIDE DEF W
<1>3. /\ Pending(W, n + 1, Tail(ws)) /\ Applied(W, n + 1, Write(r, Head(ws)))
      /\ n + 1 \in 1..8 /\ Head(ws) = W[n + 1]
  BY <1>1, <1>2, WriteNext, Zenon DEF RegisterFile
<1>4. PICK v \in RegisterWrites : v = Head(ws) /\ v = W[n + 1]
  BY <1>2, <1>3, Component, Zenon
<1>5. \A x \in Registers : x # v[1] => Write(r, v)[x] = r[x]
  BY WriteOne, Zenon DEF RegisterFile
<1>6. Write(r, v)["TCTRL"] = r["TCTRL"] /\ (n + 1 # 8 => Write(r, v)["RCTRL"] = r["RCTRL"])
  BY <1>2, <1>3, <1>4, <1>5, RegisterNames, Zenon
<1>7. n + 1 # 8 => n # 8
  <2>1. n \in Nat /\ n + 1 <= 8
    BY <1>2, <1>3, <1>1, SMT DEF Pending
  <2> QED BY <2>1
<1>8. r["TCTRL"] = 0
  BY Zenon DEF Receiving
<1> QED BY <1>1, <1>3, <1>4, <1>6, <1>7, <1>8, Zenon DEF Receiving, W, f

\* The next write of the transmit ring keeps the phase.
LEMMA TransmittingWrites ==
  ASSUME NEW r \in RegisterFile, NEW rg \in RingFrames, NEW ws \in Seq(RegisterWrites),
         ws # <<>>, Transmitting(r, rg, ws)
  PROVE  Transmitting(Write(r, Head(ws)), rg, Tail(ws))
<1> DEFINE f == rg.tx
           W == TxWrites(f)
           RX == {"RXDESCLO", "RXDESCHI", "RXDESCLEN", "RXDESCHEAD", "RXDESCTAIL", "RCTRL"}
<1>0. f \in Nat
  BY SMT DEF RingFrames
<1> HIDE DEF f
<1>1. PICK n : Pending(W, n, ws) /\ Applied(W, n, r) /\ (n # 6 => r["TCTRL"] = 0)
  BY Zenon DEF Transmitting, f
<1>2. /\ W \in Seq(RegisterWrites) /\ Len(W) = 6 /\ Distinct(W)
      /\ \A k \in 1..6 : W[k][1] \notin RX /\ (W[k][1] = "TCTRL" => k = 6)
  BY <1>0, TxWritten, Zenon
<1> HIDE DEF W
<1>3. /\ Pending(W, n + 1, Tail(ws)) /\ Applied(W, n + 1, Write(r, Head(ws)))
      /\ n + 1 \in 1..6 /\ Head(ws) = W[n + 1]
  BY <1>1, <1>2, WriteNext, Zenon DEF RegisterFile
<1>4. PICK v \in RegisterWrites : v = Head(ws) /\ v = W[n + 1]
  BY <1>2, <1>3, Component, Zenon
<1>5. \A x \in Registers : x # v[1] => Write(r, v)[x] = r[x]
  BY WriteOne, Zenon DEF RegisterFile
<1>6. /\ \A x \in RX : x \in Registers /\ x # v[1]
      /\ n + 1 # 6 => "TCTRL" # v[1]
  BY <1>2, <1>3, <1>4, RegisterNames, Zenon
<1>9. /\ \A x \in RX : Write(r, v)[x] = r[x]
      /\ n + 1 # 6 => Write(r, v)["TCTRL"] = r["TCTRL"]
  BY <1>5, <1>6, RegisterNames, Zenon
<1>10. RxOk(Write(r, v), rg.rx)
  BY <1>9, Zenon DEF Transmitting, RxOk
<1>7. n + 1 # 6 => n # 6
  <2>1. n \in Nat /\ n + 1 <= 6
    BY <1>2, <1>3, <1>1, SMT DEF Pending
  <2> QED BY <2>1
<1> QED BY <1>1, <1>3, <1>4, <1>7, <1>9, <1>10, Zenon DEF Transmitting, W, f

\* The next write that enables interrupts keeps the phase.
LEMMA EnablingWrites ==
  ASSUME NEW r \in RegisterFile, NEW rg \in RingFrames, NEW ws \in Seq(RegisterWrites),
         ws # <<>>, Enabling(r, rg, ws)
  PROVE  Enabling(Write(r, Head(ws)), rg, Tail(ws))
<1>1. /\ Len(ws) \in Nat /\ 1 \in 1..Len(ws) /\ Head(ws) = ws[1] /\ ws[1] \in RegisterWrites
      /\ \A i \in 1..Len(Tail(ws)) : i + 1 \in 1..Len(ws) /\ Tail(ws)[i] = ws[i + 1]
  BY SMT
<1>2. PICK v \in RegisterWrites : v = Head(ws) /\ v[1] \in {"TXDESCCTRL", "IMASK"}
  BY <1>1, Zenon DEF Enabling
<1>3. \A x \in Registers : x # v[1] => Write(r, v)[x] = r[x]
  BY WriteOne, Zenon DEF RegisterFile
<1>4. \A x \in Registers \ {"TXDESCCTRL", "IMASK"} : Write(r, v)[x] = r[x]
  BY <1>2, <1>3, Zenon
<1>5. {"TXDESCLO", "TXDESCHI", "TXDESCLEN", "TXDESCHEAD", "TXDESCTAIL", "RXDESCLO", "RXDESCHI",
       "RXDESCLEN", "RXDESCHEAD", "RXDESCTAIL"} \subseteq Registers \ {"TXDESCCTRL", "IMASK"}
  BY SMT DEF Registers
<1>6. RxOk(Write(r, v), rg.rx) /\ TxOk(Write(r, v), rg.tx)
  BY <1>4, <1>5, Zenon DEF Enabling, RxOk, TxOk
<1> QED BY <1>1, <1>2, <1>6, Zenon DEF Enabling

\* All writes of a phase are made.
LEMMA Written ==
  ASSUME NEW W \in Seq(RegisterWrites), NEW n, Pending(W, n, <<>>)
  PROVE  n = Len(W)
  BY SMT DEF Pending

\* After the writes of the receive ring it is set up.
LEMMA ReceivingDone ==
  ASSUME NEW r, NEW rg \in RingFrames, Receiving(r, rg, <<>>)
  PROVE  RxOk(r, rg.rx)
<1>0. rg.rx \in Nat
  BY SMT DEF RingFrames
<1>1. PICK n : Pending(RxWrites(rg.rx), n, <<>>) /\ Applied(RxWrites(rg.rx), n, r)
  BY Zenon DEF Receiving
<1>2. RxWrites(rg.rx) \in Seq(RegisterWrites) /\ Len(RxWrites(rg.rx)) = 8
  BY <1>0, RxWritten, Zenon
<1>3. n = 8
  BY <1>1, <1>2, Written, Zenon
<1> QED BY <1>0, <1>1, <1>3, RxAddress, Zenon

\* After the writes of the transmit ring both are set up.
LEMMA TransmittingDone ==
  ASSUME NEW r, NEW rg \in RingFrames, Transmitting(r, rg, <<>>)
  PROVE  RxOk(r, rg.rx) /\ TxOk(r, rg.tx)
<1>0. rg.tx \in Nat
  BY SMT DEF RingFrames
<1>1. PICK n : Pending(TxWrites(rg.tx), n, <<>>) /\ Applied(TxWrites(rg.tx), n, r)
  BY Zenon DEF Transmitting
<1>2. TxWrites(rg.tx) \in Seq(RegisterWrites) /\ Len(TxWrites(rg.tx)) = 6
  BY <1>0, TxWritten, Zenon
<1>3. n = 6
  BY <1>1, <1>2, Written, Zenon
<1> QED BY <1>0, <1>1, <1>3, TxAddress, Zenon DEF Transmitting

\* The rings are ready whenever the card may use them.
LEMMA ReceivingReady ==
  ASSUME NEW r, NEW rg \in RingFrames, NEW ws, NEW w, Receiving(r, rg, ws), Master(w)
  PROVE  Ready(r, rg, w)
<1>0. rg.rx \in Nat
  BY SMT DEF RingFrames
<1>1. PICK n : Applied(RxWrites(rg.rx), n, r) /\ (n # 8 => r["RCTRL"] = 0)
  BY Zenon DEF Receiving
<1>2. r["RCTRL"] = 1 => n = 8
  BY <1>1, SMT
<1>3. r["RCTRL"] = 1 => RxOk(r, rg.rx)
  BY <1>0, <1>1, <1>2, RxAddress, Zenon
<1>4. r["TCTRL"] # 1
  BY SMT DEF Receiving
<1> QED BY <1>3, <1>4, Zenon DEF Ready

\* While the transmit ring is written the card is ready.
LEMMA TransmittingReady ==
  ASSUME NEW r, NEW rg \in RingFrames, NEW ws, NEW w, Transmitting(r, rg, ws), Master(w)
  PROVE  Ready(r, rg, w)
<1>0. rg.tx \in Nat
  BY SMT DEF RingFrames
<1>1. PICK n : Applied(TxWrites(rg.tx), n, r) /\ (n # 6 => r["TCTRL"] = 0)
  BY Zenon DEF Transmitting
<1>2. r["TCTRL"] = 1 => n = 6
  BY <1>1, SMT
<1>3. r["TCTRL"] = 1 => TxOk(r, rg.tx)
  BY <1>0, <1>1, <1>2, TxAddress, Zenon
<1> QED BY <1>3, Zenon DEF Ready, Transmitting

\* The phases begin.
LEMMA ReceivingBegins ==
  ASSUME NEW r, Off(r), NEW rg \in RingFrames, NEW f \in Nat
  PROVE  /\ [rg EXCEPT !.rx = f] \in RingFrames /\ RxWrites(f) \in Seq(RegisterWrites)
         /\ Receiving(r, [rg EXCEPT !.rx = f], RxWrites(f))
<1> DEFINE g == [rg EXCEPT !.rx = f]
           W == RxWrites(f)
<1>1. g \in RingFrames /\ g.rx = f
  BY SMT DEF RingFrames
<1>2. W \in Seq(RegisterWrites) /\ Len(W) = 8
  BY RxWritten, Zenon
<1> HIDE DEF g, W
<1>3. Pending(W, 0, W)
  BY <1>2, SMT DEF Pending
<1>4. Applied(W, 0, r)
  BY SMT DEF Applied
<1>5. r["TCTRL"] = 0 /\ r["RCTRL"] = 0
  BY Zenon DEF Off
<1>6. Receiving(r, g, W)
  BY <1>1, <1>3, <1>4, <1>5, Zenon DEF Receiving, W
<1> QED BY <1>1, <1>2, <1>6, Zenon DEF g, W

\* The phase of the transmit ring begins when that of the receive ring ends.
LEMMA TransmittingBegins ==
  ASSUME NEW r, NEW rg \in RingFrames, Receiving(r, rg, <<>>), NEW f \in Nat
  PROVE  /\ [rg EXCEPT !.tx = f] \in RingFrames /\ TxWrites(f) \in Seq(RegisterWrites)
         /\ Transmitting(r, [rg EXCEPT !.tx = f], TxWrites(f))
<1> DEFINE g == [rg EXCEPT !.tx = f]
           W == TxWrites(f)
<1>1. g \in RingFrames /\ g.tx = f /\ g.rx = rg.rx
  BY SMT DEF RingFrames
<1>2. W \in Seq(RegisterWrites) /\ Len(W) = 6
  BY TxWritten, Zenon
<1> HIDE DEF g, W
<1>3. Pending(W, 0, W)
  BY <1>2, SMT DEF Pending
<1>4. Applied(W, 0, r)
  BY SMT DEF Applied
<1>5. r["TCTRL"] = 0
  BY Zenon DEF Receiving
<1>6. RxOk(r, g.rx)
  BY <1>1, ReceivingDone, Zenon
<1>7. Transmitting(r, g, W)
  BY <1>1, <1>3, <1>4, <1>5, <1>6, Zenon DEF Transmitting, W
<1> QED BY <1>1, <1>2, <1>7, Zenon DEF g, W

IrqWrites == << <<"TXDESCCTRL", 2^26>>, <<"IMASK", 1>> >>

\* Interrupts are enabled when both rings are set up.
LEMMA EnablingBegins ==
  ASSUME NEW r, NEW rg \in RingFrames, Transmitting(r, rg, <<>>)
  PROVE  IrqWrites \in Seq(RegisterWrites) /\ Enabling(r, rg, IrqWrites)
<1>1. IrqWrites \in Seq(RegisterWrites)
  BY SMT DEF IrqWrites, RegisterWrites, Registers
<1>2. \A i \in 1..Len(IrqWrites) : IrqWrites[i][1] \in {"TXDESCCTRL", "IMASK"}
  BY SMT DEF IrqWrites
<1> QED BY <1>1, <1>2, TransmittingDone, Zenon DEF Enabling

-----------------------------------------------------------------------------
\* The bytes of the EEPROM's words, in order.
LEMMA WordBytes ==
  ASSUME NEW a \in Bytes, NEW b \in Bytes
  PROVE  (a + 2^8 * b) % 2^8 = a /\ (a + 2^8 * b) \div 2^8 = b
<1>1. a \in Nat /\ b \in Nat /\ a <= 255
  BY SMT DEF Bytes
<1>2. (a + 256 * b) % 256 = a
  BY <1>1
<1>3. (a + 256 * b) \div 256 = b
  BY <1>1
<1> QED BY <1>2, <1>3, SMT

\* A MAC address is the tuple of its bytes.
LEMMA SixBytes ==
  ASSUME NEW m \in [1..6 -> Bytes]
  PROVE  <<m[1], m[2], m[3], m[4], m[5], m[6]>> = m
  OBVIOUS

\* read_mac puts the address of the EEPROM together from its three words.
LEMMA MacRead ==
  ASSUME device.location \in DOMAIN Eeprom
  PROVE  MacBytes(read_eeprom(0), read_eeprom(1), read_eeprom(2)) = Eeprom[device.location]
<1> DEFINE m == Eeprom[device.location]
<1>1. m \in [1..6 -> Bytes]
  BY PciAssumption, Zenon
<1> HIDE DEF m
<1>2. \A k \in 1..6 : m[k] \in Bytes
  BY <1>1
<1>3. /\ read_eeprom(0) = m[1] + 2^8 * m[2] /\ read_eeprom(1) = m[3] + 2^8 * m[4]
      /\ read_eeprom(2) = m[5] + 2^8 * m[6]
  BY SMT DEF read_eeprom, m
<1>4. \A a, b \in Bytes : (a + 2^8 * b) % 2^8 = a /\ (a + 2^8 * b) \div 2^8 = b
  BY WordBytes, Zenon
<1>5. m[1] \in Bytes /\ m[2] \in Bytes /\ m[3] \in Bytes /\ m[4] \in Bytes /\ m[5] \in Bytes /\ m[6] \in Bytes
  BY <1>2, SMT
<1>6. MacBytes(m[1] + 2^8 * m[2], m[3] + 2^8 * m[4], m[5] + 2^8 * m[6]) =
        <<m[1], m[2], m[3], m[4], m[5], m[6]>>
  BY <1>4, <1>5, Zenon DEF MacBytes
<1> QED BY <1>1, <1>3, <1>6, SixBytes, Zenon DEF m

-----------------------------------------------------------------------------
(* The inductive invariant.                                                *)

\* Where E1000Driver::new is with a card.
Phase(st, r, g, ws) ==
  /\ st = "rx" => Receiving(r, g, ws)
  /\ st = "tx" => Transmitting(r, g, ws)
  /\ st = "irq" => Enabling(r, g, ws)

\* The card at l has not been touched when the scan is at position bs.
Untouched(bs, st, l) ==
  ~(l[3] = 0 /\ Pos(l) < bs) /\ ~(l = Loc(bs) /\ st \notin {"scan", "header"})

CardInv(c, bs, st, ws, rs, rg) ==
  /\ ws \in Seq(RegisterWrites)
  /\ rs \in [DOMAIN c -> RegisterFile] /\ rg \in [DOMAIN c -> RingFrames]
  /\ st \in {"scan", "header", "panicked"} => ws = <<>>
  /\ \A l \in DOMAIN c : /\ Ready(rs[l], rg[l], c[l][4][1])
                         /\ Untouched(bs, st, l) => Off(rs[l])
  /\ st \in {"rx", "tx", "irq"} => Phase(st, rs[Loc(bs)], rg[Loc(bs)], ws)

\* In every phase the card is ready.
LEMMA PhaseReady ==
  ASSUME NEW r, NEW g \in RingFrames, NEW ws, NEW w, Master(w), NEW st \in {"rx", "tx", "irq"},
         Phase(st, r, g, ws)
  PROVE  Ready(r, g, w)
<1>1. CASE st = "rx"
  BY <1>1, ReceivingReady, Zenon DEF Phase
<1>2. CASE st = "tx"
  BY <1>2, TransmittingReady, Zenon DEF Phase
<1>3. CASE st = "irq"
  BY <1>3, Zenon DEF Phase, Enabling, Ready
<1> QED BY <1>1, <1>2, <1>3, Zenon

InPhase(st, r, g, ws) ==
  /\ r \in RegisterFile /\ g \in RingFrames /\ ws \in Seq(RegisterWrites)
  /\ st \in {"rx", "tx", "irq"} /\ Phase(st, r, g, ws)

\* A step of E1000Driver::new with the card at the scan's position.
LEMMA CardChanges ==
  ASSUME NEW c, NEW bs, NEW st, NEW ws, NEW rs, NEW rg, CardInv(c, bs, st, ws, rs, rg),
         Loc(bs) \in DOMAIN c, Master(c[Loc(bs)][4][1]),
         NEW st2, NEW ws2, NEW r, NEW g, InPhase(st2, r, g, ws2)
  PROVE  CardInv(c, bs, st2, ws2, [rs EXCEPT ![Loc(bs)] = r], [rg EXCEPT ![Loc(bs)] = g])
<1>0. /\ r \in RegisterFile /\ g \in RingFrames /\ ws2 \in Seq(RegisterWrites)
      /\ st2 \in {"rx", "tx", "irq"} /\ Phase(st2, r, g, ws2)
  BY Zenon DEF InPhase
<1> DEFINE l == Loc(bs)
           rs2 == [rs EXCEPT ![l] = r]
           rg2 == [rg EXCEPT ![l] = g]
<1>1. rs \in [DOMAIN c -> RegisterFile] /\ rg \in [DOMAIN c -> RingFrames]
  BY Zenon DEF CardInv
<1>2. /\ rs2 \in [DOMAIN c -> RegisterFile] /\ rg2 \in [DOMAIN c -> RingFrames]
      /\ rs2[l] = r /\ rg2[l] = g
      /\ \A k \in DOMAIN c : k # l => rs2[k] = rs[k] /\ rg2[k] = rg[k]
  BY <1>0, <1>1, Zenon
<1>3. Ready(r, g, c[l][4][1])
  BY <1>0, PhaseReady, Zenon
<1> HIDE DEF l, rs2, rg2
<1>4. \A k \in DOMAIN c : Ready(rs2[k], rg2[k], c[k][4][1])
  BY <1>2, <1>3, Zenon DEF CardInv
<1>5. ASSUME NEW k \in DOMAIN c, Untouched(bs, st2, k) PROVE Off(rs2[k])
  <2>1. k # l
    BY <1>0, <1>5, SMT DEF Untouched, l
  <2>2. Untouched(bs, st, k)
    BY <1>5, <2>1, Zenon DEF Untouched, l
  <2> QED BY <1>2, <2>1, <2>2, Zenon DEF CardInv
<1>6. st2 \notin {"scan", "header", "panicked"}
  BY <1>0, SMT
<1>7. CardInv(c, bs, st2, ws2, rs2, rg2)
  BY <1>0, <1>2, <1>4, <1>5, <1>6, ZenonT(30) DEF CardInv, l
<1> QED BY <1>7, Zenon DEF l, rs2, rg2

\* The scan moves on.
LEMMA CardMovesOn ==
  ASSUME NEW c, IsConfigSpace(c), NEW bs \in Nat, NEW st, NEW rs, NEW rg,
         CardInv(c, bs, st, <<>>, rs, rg)
  PROVE  CardInv(c, bs + 1, "scan", <<>>, rs, rg)
<1>1. ASSUME NEW l \in DOMAIN c, Untouched(bs + 1, "scan", l) PROVE Untouched(bs, st, l)
  <2>1. Pos(l) \in Nat
    BY PositionOfLoc, Zenon DEF IsConfigSpace
  <2>2. ~(l[3] = 0 /\ Pos(l) < bs + 1)
    BY <1>1, Zenon DEF Untouched
  <2>3. ~(l[3] = 0 /\ Pos(l) < bs)
    BY <2>1, <2>2
  <2>4. Loc(bs)[3] = 0 /\ Pos(Loc(bs)) = bs
    BY LocOfPosition, Zenon
  <2>5. bs < bs + 1
    OBVIOUS
  <2>6. l # Loc(bs)
    BY <2>2, <2>4, <2>5, Zenon
  <2> QED BY <2>3, <2>6, Zenon DEF Untouched
<1>2. "scan" \notin {"rx", "tx", "irq"}
  BY SMT
<1> QED BY <1>1, <1>2, Zenon DEF CardInv

\* The driver gives up on a card, which stops start-up.
LEMMA CardPanics ==
  ASSUME NEW c, NEW bs, NEW st, NEW rs, NEW rg, CardInv(c, bs, st, <<>>, rs, rg)
  PROVE  CardInv(c, bs, "panicked", <<>>, rs, rg)
<1>1. ASSUME NEW l \in DOMAIN c, Untouched(bs, "panicked", l) PROVE Untouched(bs, st, l)
  BY <1>1, SMT DEF Untouched
<1>2. "panicked" \notin {"rx", "tx", "irq"}
  BY SMT
<1> QED BY <1>1, <1>2, Zenon DEF CardInv

\* The device that E1000Driver::new was given is at the scan's position.
ScanInv(c, bs, st, dev, he) ==
  /\ IsConfigSpace(c) /\ bs \in Nat
  /\ st \in {"scan", "header", "rx", "tx", "irq", "panicked"}
  /\ st # "scan" =>
       /\ Loc(bs) \in DOMAIN c /\ c[Loc(bs)][0] = Ident /\ bs < Buses * Slots
       /\ Master(c[Loc(bs)][4][1])
       /\ dev.location = Loc(bs) /\ dev.header_type = Header(c[Loc(bs)][12])
  /\ st \in {"rx", "tx", "irq"} =>
       dev.header_type = "Generic" /\ (he => Loc(bs) \in DOMAIN Eeprom)

PciInv ==
  /\ ScanInv(config, bus_slot, step, device, has_eeprom)
  /\ Driven(network_devices, config, bus_slot, id)
  /\ CardInv(config, bus_slot, step, writes, registers, rings)

\* The scan finds no card at its position.
LEMMA ScanStep ==
  ASSUME PciInv, ScanNone \/ ScanOther
  PROVE  PciInv'
<1>1. /\ step = "scan" /\ ~IsE1000(Current) /\ bus_slot' = bus_slot + 1
      /\ UNCHANGED <<config, step, device, has_eeprom, writes, registers, rings, network_devices>>
      /\ id' = id \/ id' = id + 1
  BY SMT DEF ScanNone, ScanOther, Scanning, card, IsE1000
<1>2. IsConfigSpace(config) /\ bus_slot \in Nat /\ bus_slot + 1 \in Nat
  BY SMT DEF PciInv, ScanInv
<1>3. Loc(bus_slot) \notin CardsOf(config)
  BY <1>1, <1>2, CurrentDevice, Zenon DEF CardsOf
<1>4. PICK i \in {id, id + 1} : i = id'
  BY <1>1, Zenon
<1>5. Driven(network_devices, config, bus_slot + 1, i)
  BY <1>2, <1>3, PassBy, Zenon DEF PciInv
<1>6. writes = <<>> /\ CardInv(config, bus_slot, step, <<>>, registers, rings)
  BY <1>1, Zenon DEF PciInv, CardInv
<1>7. CardInv(config, bus_slot + 1, "scan", <<>>, registers, rings)
  BY <1>2, <1>6, CardMovesOn, Zenon
<1>8. ScanInv(config, bus_slot + 1, step, device, has_eeprom)
  BY <1>1, <1>2, SMT DEF ScanInv
<1> QED BY <1>1, <1>4, <1>5, <1>6, <1>7, <1>8, Zenon DEF PciInv

\* enable_bus_mastering.
LEMMA MasterStep ==
  ASSUME PciInv, enable_bus_mastering
  PROVE  PciInv'
<1> DEFINE l == Loc(bus_slot)
<1>1. /\ step = "scan" /\ step' = "header"
      /\ UNCHANGED <<bus_slot, id, has_eeprom, writes, registers, rings, network_devices>>
  BY Zenon DEF enable_bus_mastering, Scanning
<1>2. IsConfigSpace(config) /\ bus_slot \in Nat
  BY Zenon DEF PciInv, ScanInv
<1>3. /\ l \in DOMAIN config /\ config[l][0] = Ident /\ bus_slot < Buses * Slots
      /\ device'.location = l /\ device'.header_type = Header(config[l][12])
      /\ \E v \in Words \X Words : config' = [config EXCEPT ![l][4] = v] /\ Master(v[1])
  BY <1>2, MasterWritten, Zenon
<1>4. PICK v \in Words \X Words : config' = [config EXCEPT ![l][4] = v] /\ Master(v[1])
  BY <1>3, Zenon
<1>5. PICK c2 : c2 = config'
  OBVIOUS
<1>6. /\ IsConfigSpace(c2) /\ DOMAIN c2 = DOMAIN config /\ c2[l][4] = v
      /\ \A m \in DOMAIN config : /\ m # l => c2[m] = config[m]
                                 /\ c2[m][0] = config[m][0] /\ c2[m][12] = config[m][12]
      /\ CardsOf(c2) = CardsOf(config)
  <2>1. Commanded(config, c2, l, v)
    BY <1>2, <1>3, <1>4, <1>5, CommandWritten, ZenonT(30)
  <2> QED BY <2>1, Zenon DEF Commanded
<1> HIDE DEF l
<1>7. ScanInv(c2, bus_slot, "header", device', has_eeprom)
  <2>1. "header" \notin {"rx", "tx", "irq"}
    BY SMT
  <2> QED BY <1>2, <1>3, <1>4, <1>6, <2>1, Zenon DEF ScanInv, l
<1>8. Driven(network_devices, c2, bus_slot, id)
  <2>1. NetworkDevices(c2) = NetworkDevices(config)
    BY <1>6, Zenon DEF NetworkDevices
  <2> QED BY <1>6, <2>1, Zenon DEF PciInv, Driven
<1>9. CardInv(c2, bus_slot, "header", writes, registers, rings)
  <2>1. CardInv(config, bus_slot, "scan", writes, registers, rings)
    BY <1>1, Zenon DEF PciInv
  <2>2. writes = <<>>
    BY <2>1, Zenon DEF CardInv
  <2>3. ASSUME NEW k \in DOMAIN config, Untouched(bus_slot, "header", k) PROVE Off(registers[k])
    <3>1. Untouched(bus_slot, "scan", k)
      BY <2>3, Zenon DEF Untouched
    <3> QED BY <2>1, <3>1, Zenon DEF CardInv
  <2>4. Off(registers[l])
    <3>1. Pos(l) = bus_slot /\ ~(bus_slot < bus_slot)
      BY <1>2, LocOfPosition DEF l
    <3>2. Untouched(bus_slot, "scan", l)
      BY <3>1, Zenon DEF Untouched
    <3> QED BY <1>3, <2>1, <3>2, Zenon DEF CardInv
  <2>5. ASSUME NEW k \in DOMAIN config PROVE Ready(registers[k], rings[k], c2[k][4][1])
    <3>1. CASE k = l
      BY <2>4, <3>1, OffReady, Zenon
    <3>2. CASE k # l
      BY <1>6, <2>1, <3>2, Zenon DEF CardInv
    <3> QED BY <3>1, <3>2
  <2>6. "header" \notin {"rx", "tx", "irq"}
    BY SMT
  <2>7. /\ writes \in Seq(RegisterWrites)
        /\ registers \in [DOMAIN c2 -> RegisterFile] /\ rings \in [DOMAIN c2 -> RingFrames]
    BY <1>6, <2>1, Zenon DEF CardInv
  <2> QED BY <1>6, <2>2, <2>3, <2>5, <2>6, <2>7, Zenon DEF CardInv
<1> QED BY <1>1, <1>5, <1>7, <1>8, <1>9, Zenon DEF PciInv

\* A device whose header is not generic is left out.
LEMMA HeaderStep ==
  ASSUME PciInv, HeaderUnknown
  PROVE  PciInv'
<1>1. /\ step = "header" /\ device.header_type = "Unknown" /\ step' = "scan"
      /\ bus_slot' = bus_slot + 1 /\ id' = id + 1
      /\ UNCHANGED <<config, device, has_eeprom, writes, registers, rings, network_devices>>
  BY Zenon DEF HeaderUnknown, NextDevice, card
<1>2. IsConfigSpace(config) /\ bus_slot \in Nat /\ bus_slot + 1 \in Nat
  BY SMT DEF PciInv, ScanInv
<1>3. Loc(bus_slot) \notin CardsOf(config)
  <2>1. Header(config[Loc(bus_slot)][12]) = "Unknown"
    BY <1>1, Zenon DEF PciInv, ScanInv
  <2>2. "Unknown" # "Generic"
    BY SMT
  <2> QED BY <2>1, <2>2, Zenon DEF CardsOf
<1>5. Driven(network_devices, config, bus_slot + 1, id + 1)
  BY <1>2, <1>3, PassBy, Zenon DEF PciInv
<1>6. writes = <<>> /\ CardInv(config, bus_slot, step, <<>>, registers, rings)
  BY <1>1, Zenon DEF PciInv, CardInv
<1>7. CardInv(config, bus_slot + 1, "scan", <<>>, registers, rings)
  BY <1>2, <1>6, CardMovesOn, Zenon
<1>8. ScanInv(config, bus_slot + 1, "scan", device, has_eeprom)
  BY <1>2, SMT DEF ScanInv
<1> QED BY <1>1, <1>5, <1>6, <1>7, <1>8, Zenon DEF PciInv

\* A BAR in I/O space.
LEMMA IoStep ==
  ASSUME PciInv, IoSpace
  PROVE  PciInv'
<1>1. /\ step = "header" /\ step' = "panicked"
      /\ UNCHANGED <<config, bus_slot, id, device, has_eeprom, writes, registers, rings, network_devices>>
  BY Zenon DEF IoSpace, card
<1>2. writes = <<>> /\ CardInv(config, bus_slot, step, <<>>, registers, rings)
  BY <1>1, Zenon DEF PciInv, CardInv
<1>3. CardInv(config, bus_slot, "panicked", <<>>, registers, rings)
  BY <1>2, CardPanics, Zenon
<1>4. ScanInv(config, bus_slot, "panicked", device, has_eeprom)
  BY <1>1, SMT DEF PciInv, ScanInv
<1> QED BY <1>1, <1>2, <1>3, <1>4, Zenon DEF PciInv

\* What the driver knows while it sets up a card.
LEMMA Driving ==
  ASSUME PciInv, step \in {"header", "rx", "tx", "irq"}
  PROVE  /\ device.location = Loc(bus_slot) /\ Loc(bus_slot) \in DOMAIN config
         /\ Master(config[Loc(bus_slot)][4][1])
         /\ registers \in [DOMAIN config -> RegisterFile] /\ rings \in [DOMAIN config -> RingFrames]
         /\ registers[Loc(bus_slot)] \in RegisterFile /\ rings[Loc(bus_slot)] \in RingFrames
         /\ writes \in Seq(RegisterWrites)
         /\ step # "header" => Phase(step, registers[Loc(bus_slot)], rings[Loc(bus_slot)], writes)
<1>1. step # "scan"
  BY SMT
<1>2. /\ device.location = Loc(bus_slot) /\ Loc(bus_slot) \in DOMAIN config
      /\ Master(config[Loc(bus_slot)][4][1])
  BY <1>1, Zenon DEF PciInv, ScanInv
<1>3. /\ registers \in [DOMAIN config -> RegisterFile] /\ rings \in [DOMAIN config -> RingFrames]
      /\ writes \in Seq(RegisterWrites)
      /\ step # "header" => Phase(step, registers[Loc(bus_slot)], rings[Loc(bus_slot)], writes)
  BY Zenon DEF PciInv, CardInv
<1> QED BY <1>2, <1>3, Zenon

\* The next phase of a card, or another write in the same one.
LEMMA PhaseStep ==
  ASSUME PciInv, step \in {"header", "rx", "tx", "irq"},
         UNCHANGED <<config, bus_slot, id, device, network_devices>>,
         step' \in {"rx", "tx", "irq"}, device.header_type = "Generic",
         has_eeprom' => Loc(bus_slot) \in DOMAIN Eeprom,
         writes' \in Seq(RegisterWrites),
         NEW r \in RegisterFile, registers' = [registers EXCEPT ![Loc(bus_slot)] = r],
         NEW g \in RingFrames, rings' = [rings EXCEPT ![Loc(bus_slot)] = g],
         Phase(step', r, g, writes')
  PROVE  PciInv'
<1>1. PICK st \in {"rx", "tx", "irq"}, ws \in Seq(RegisterWrites) : st = step' /\ ws = writes'
  BY Zenon
<1>2. CardInv(config, bus_slot, step, writes, registers, rings)
  BY Zenon DEF PciInv
<1>3. Loc(bus_slot) \in DOMAIN config /\ Master(config[Loc(bus_slot)][4][1])
  BY Driving, Zenon
<1>4. InPhase(st, r, g, ws)
  BY <1>1, Zenon DEF InPhase
<1>5. CardInv(config, bus_slot, st, ws, [registers EXCEPT ![Loc(bus_slot)] = r],
              [rings EXCEPT ![Loc(bus_slot)] = g])
  BY <1>2, <1>3, <1>4, CardChanges, Zenon
<1>6. ScanInv(config, bus_slot, st, device, has_eeprom')
  BY <1>1, SMT DEF PciInv, ScanInv
<1> QED BY <1>1, <1>5, <1>6, Zenon DEF PciInv

\* E1000Card::init begins.
LEMMA RxStep ==
  ASSUME PciInv, NEW f \in Nat, InitRx(f)
  PROVE  PciInv'
<1> DEFINE l == Loc(bus_slot)
<1>1. /\ step = "header" /\ device.header_type = "Generic" /\ step' = "rx"
      /\ has_eeprom' => device.location \in DOMAIN Eeprom
      /\ rings' = [rings EXCEPT ![device.location].rx = f] /\ writes' = RxWrites(f)
      /\ UNCHANGED <<config, bus_slot, id, device, registers, network_devices>>
  BY Zenon DEF InitRx
<1>2. /\ device.location = l /\ l \in DOMAIN config
      /\ registers \in [DOMAIN config -> RegisterFile] /\ registers[l] \in RegisterFile
      /\ rings[l] \in RingFrames
  BY <1>1, Driving, Zenon
<1>3. Off(registers[l])
  <2>1. bus_slot \in Nat
    BY Zenon DEF PciInv, ScanInv
  <2>2. Pos(l) = bus_slot /\ ~(bus_slot < bus_slot)
    BY <2>1, LocOfPosition
  <2>3. Untouched(bus_slot, "header", l)
    BY <2>2, Zenon DEF Untouched
  <2> QED BY <1>1, <1>2, <2>3, Zenon DEF PciInv, CardInv
<1> HIDE DEF l
<1>4. PICK g \in RingFrames : g = [rings[l] EXCEPT !.rx = f] /\ Receiving(registers[l], g, RxWrites(f))
  BY <1>2, <1>3, ReceivingBegins, Zenon
<1>5. RxWrites(f) \in Seq(RegisterWrites)
  BY RxWritten, Zenon
<1>6. rings' = [rings EXCEPT ![l] = g]
  BY <1>1, <1>2, <1>4, Zenon
<1>7. registers' = [registers EXCEPT ![l] = registers[l]]
  BY <1>1, <1>2, Zenon
<1>8. Phase("rx", registers[l], g, RxWrites(f))
  BY <1>4, SMT DEF Phase
<1> QED BY <1>1, <1>2, <1>5, <1>6, <1>7, <1>8, PhaseStep, Zenon DEF l

\* Past the header, the card is one with a generic header.
LEMMA GenericHeader ==
  ASSUME PciInv, step \in {"rx", "tx", "irq"}
  PROVE  /\ step \in {"header", "rx", "tx", "irq"} /\ step # "header" /\ step # "scan"
         /\ device.header_type = "Generic" /\ (has_eeprom => Loc(bus_slot) \in DOMAIN Eeprom)
<1>1. device.header_type = "Generic" /\ (has_eeprom => Loc(bus_slot) \in DOMAIN Eeprom)
  BY Zenon DEF PciInv, ScanInv
<1> QED BY <1>1, SMT

\* Coms::write_command.
LEMMA WriteStep ==
  ASSUME PciInv, write_command
  PROVE  PciInv'
<1> DEFINE l == Loc(bus_slot)
<1>1. /\ writes # <<>> /\ writes' = Tail(writes)
      /\ registers' = [registers EXCEPT ![device.location][Head(writes)[1]] = Head(writes)[2]]
      /\ UNCHANGED <<config, bus_slot, id, step, device, has_eeprom, rings, network_devices>>
  BY Zenon DEF write_command
<1>2. step \in {"rx", "tx", "irq"}
  <2>1. step \in {"scan", "header", "rx", "tx", "irq", "panicked"}
    BY Zenon DEF PciInv, ScanInv
  <2>2. step \notin {"scan", "header", "panicked"}
    BY <1>1, Zenon DEF PciInv, CardInv
  <2> QED BY <2>1, <2>2, Zenon
<1>3. /\ step \in {"header", "rx", "tx", "irq"} /\ step # "header"
      /\ device.header_type = "Generic" /\ (has_eeprom => l \in DOMAIN Eeprom)
  BY <1>2, GenericHeader, Zenon
<1>4. /\ device.location = l /\ l \in DOMAIN config
      /\ registers \in [DOMAIN config -> RegisterFile] /\ registers[l] \in RegisterFile
      /\ rings \in [DOMAIN config -> RingFrames] /\ rings[l] \in RingFrames
      /\ writes \in Seq(RegisterWrites) /\ Phase(step, registers[l], rings[l], writes)
  BY <1>3, Driving, Zenon
<1> HIDE DEF l
<1>5. Tail(writes) \in Seq(RegisterWrites) /\ Head(writes) \in RegisterWrites
  BY <1>1, <1>4, SMT
<1> DEFINE r == Write(registers[l], Head(writes))
<1>6. r \in RegisterFile
  BY <1>4, <1>5, WriteOne, Zenon DEF RegisterFile
<1>7. registers' = [registers EXCEPT ![l] = r]
  BY <1>1, <1>4, Zenon DEF Write
<1>8. rings' = [rings EXCEPT ![l] = rings[l]]
  BY <1>1, <1>4, Zenon
<1>9. Phase(step, r, rings[l], Tail(writes))
  BY <1>1, <1>4, ReceivingWrites, TransmittingWrites, EnablingWrites, Zenon DEF Phase
<1> HIDE DEF r
<1> QED BY <1>1, <1>2, <1>3, <1>4, <1>5, <1>6, <1>7, <1>8, <1>9, PhaseStep, ZenonT(30) DEF l

\* The transmit ring is set up.
LEMMA TxStep ==
  ASSUME PciInv, NEW f \in Nat, InitTx(f)
  PROVE  PciInv'
<1> DEFINE l == Loc(bus_slot)
<1>1. /\ step = "rx" /\ writes = <<>> /\ step' = "tx"
      /\ rings' = [rings EXCEPT ![device.location].tx = f] /\ writes' = TxWrites(f)
      /\ UNCHANGED <<config, bus_slot, id, device, has_eeprom, registers, network_devices>>
  BY Zenon DEF InitTx
<1>2. /\ step \in {"header", "rx", "tx", "irq"} /\ step # "header"
      /\ device.header_type = "Generic" /\ (has_eeprom => l \in DOMAIN Eeprom)
  BY <1>1, GenericHeader, Zenon
<1>3. /\ device.location = l /\ l \in DOMAIN config
      /\ registers \in [DOMAIN config -> RegisterFile] /\ registers[l] \in RegisterFile
      /\ rings[l] \in RingFrames
      /\ Phase(step, registers[l], rings[l], writes)
  BY <1>2, Driving, Zenon
<1> HIDE DEF l
<1>4. PICK g \in RingFrames : g = [rings[l] EXCEPT !.tx = f] /\ Transmitting(registers[l], g, TxWrites(f))
  BY <1>1, <1>3, TransmittingBegins, Zenon DEF Phase
<1>5. TxWrites(f) \in Seq(RegisterWrites)
  BY TxWritten, Zenon
<1>6. rings' = [rings EXCEPT ![l] = g]
  BY <1>1, <1>3, <1>4, Zenon
<1>7. registers' = [registers EXCEPT ![l] = registers[l]]
  BY <1>1, <1>3, Zenon
<1>8. Phase("tx", registers[l], g, TxWrites(f))
  BY <1>4, SMT DEF Phase
<1> QED BY <1>1, <1>2, <1>3, <1>5, <1>6, <1>7, <1>8, PhaseStep, ZenonT(30) DEF l

\* Interrupts are enabled.
LEMMA IrqStep ==
  ASSUME PciInv, enable_interrupts
  PROVE  PciInv'
<1> DEFINE l == Loc(bus_slot)
<1>1. /\ step = "tx" /\ writes = <<>> /\ step' = "irq" /\ writes' = IrqWrites
      /\ UNCHANGED <<config, bus_slot, id, device, has_eeprom, registers, rings, network_devices>>
  BY Zenon DEF enable_interrupts, IrqWrites
<1>2. /\ step \in {"header", "rx", "tx", "irq"} /\ step # "header"
      /\ device.header_type = "Generic" /\ (has_eeprom => l \in DOMAIN Eeprom)
  BY <1>1, GenericHeader, Zenon
<1>3. /\ device.location = l /\ l \in DOMAIN config
      /\ registers \in [DOMAIN config -> RegisterFile] /\ registers[l] \in RegisterFile
      /\ rings \in [DOMAIN config -> RingFrames] /\ rings[l] \in RingFrames
      /\ Phase(step, registers[l], rings[l], writes)
  BY <1>2, Driving, Zenon
<1> HIDE DEF l
<1>4. IrqWrites \in Seq(RegisterWrites) /\ Enabling(registers[l], rings[l], IrqWrites)
  BY <1>1, <1>3, EnablingBegins, Zenon DEF Phase
<1>5. rings' = [rings EXCEPT ![l] = rings[l]] /\ registers' = [registers EXCEPT ![l] = registers[l]]
  BY <1>1, <1>3, Zenon
<1>6. Phase("irq", registers[l], rings[l], IrqWrites)
  BY <1>4, SMT DEF Phase
<1> QED BY <1>1, <1>2, <1>3, <1>4, <1>5, <1>6, PhaseStep, ZenonT(30) DEF l

\* The MAC address is read, and the card is set up.
LEMMA MacStep ==
  ASSUME PciInv, read_mac_address
  PROVE  PciInv'
<1> DEFINE l == Loc(bus_slot)
           d == [id |-> id, location |-> l, mac |-> Eeprom[l]]
<1>1. /\ step = "irq" /\ writes = <<>>
      /\ UNCHANGED <<config, device, has_eeprom, writes, registers, rings>>
  BY Zenon DEF read_mac_address, card
<1>2. /\ step # "scan" /\ device.header_type = "Generic" /\ (has_eeprom => l \in DOMAIN Eeprom)
  BY <1>1, GenericHeader, Zenon
<1>3. /\ IsConfigSpace(config) /\ bus_slot \in Nat /\ l \in DOMAIN config /\ config[l][0] = Ident
      /\ bus_slot < Buses * Slots /\ device.location = l /\ Header(config[l][12]) = "Generic"
  BY <1>2, Zenon DEF PciInv, ScanInv
<1>4. CardInv(config, bus_slot, step, <<>>, registers, rings)
  BY <1>1, Zenon DEF PciInv
<1>5. CASE has_eeprom
  <2>1. l \in DOMAIN Eeprom
    BY <1>2, <1>5, Zenon
  <2>2. MacBytes(read_eeprom(0), read_eeprom(1), read_eeprom(2)) = Eeprom[l]
    BY <1>3, <2>1, MacRead, Zenon
  <2>3. /\ network_devices' = Append(network_devices, d)
        /\ bus_slot' = bus_slot + 1 /\ id' = id + 1 /\ step' = "scan"
    BY <1>3, <1>5, <2>2, Zenon DEF read_mac_address, NextDevice
  <2>4. l \in CardsOf(config)
    <3>1. l \in Nat \X (0..Slots - 1) \X (0..7)
      BY <1>3, Zenon DEF IsConfigSpace
    <3>2. Pos(l) = bus_slot /\ l[3] = 0
      BY <1>3, LocOfPosition, Zenon
    <3>3. l[1] < Buses
      BY <1>3, <3>1, <3>2, PositionOfLoc, Zenon
    <3> QED BY <1>3, <3>2, <3>3, Zenon DEF CardsOf
  <2>5. Driven(Append(network_devices, d), config, bus_slot + 1, id + 1)
    BY <1>3, <2>1, <2>4, SetUp, Zenon DEF PciInv
  <2>6. CardInv(config, bus_slot + 1, "scan", <<>>, registers, rings)
    BY <1>3, <1>4, CardMovesOn, Zenon
  <2>7. ScanInv(config, bus_slot + 1, "scan", device, has_eeprom)
    BY <1>3, SMT DEF ScanInv
  <2> HIDE DEF d
  <2> QED BY <1>1, <2>3, <2>5, <2>6, <2>7, Zenon DEF PciInv
<1>6. CASE ~has_eeprom
  <2>1. step' = "panicked" /\ UNCHANGED <<bus_slot, id, network_devices>>
    BY <1>6, Zenon DEF read_mac_address
  <2>2. CardInv(config, bus_slot, "panicked", <<>>, registers, rings)
    BY <1>4, CardPanics, Zenon
  <2>3. ScanInv(config, bus_slot, "panicked", device, has_eeprom)
    BY <1>2, SMT DEF PciInv, ScanInv
  <2> QED BY <1>1, <2>1, <2>2, <2>3, Zenon DEF PciInv
<1> QED BY <1>5, <1>6

\* Every step of the scan and of the driver keeps the invariant.
LEMMA PciStep == PciInv /\ [Scan \/ \E f \in Nat : NewCard(f)]_pci_vars => PciInv'
<1> SUFFICES ASSUME PciInv, [Scan \/ \E f \in Nat : NewCard(f)]_pci_vars PROVE PciInv'
  OBVIOUS
<1>1. CASE Scan
  BY <1>1, ScanStep, MasterStep, HeaderStep, Zenon DEF Scan
<1>2. ASSUME NEW f \in Nat, NewCard(f) PROVE PciInv'
  BY <1>2, IoStep, RxStep, WriteStep, TxStep, IrqStep, MacStep, Zenon DEF NewCard
<1>3. CASE UNCHANGED pci_vars
  <2>1. UNCHANGED <<config, bus_slot, id, step, device, has_eeprom, writes, registers, rings,
                    network_devices>>
    BY <1>3, Zenon DEF pci_vars
  <2> QED BY <2>1, Zenon DEF PciInv
<1> QED BY <1>1, <1>2, <1>3, Zenon

\* The invariant holds before the scan.
LEMMA PciStart ==
  ASSUME NEW configs, \A c \in configs : IsConfigSpace(c), PciInit(configs)
  PROVE  PciInv
<1>1. IsConfigSpace(config)
  BY Zenon DEF PciInit
<1>2. /\ bus_slot = 0 /\ id = 0 /\ step = "scan" /\ writes = <<>> /\ network_devices = <<>>
      /\ registers = [l \in DOMAIN config |-> [r \in Registers |-> 0]]
      /\ rings = [l \in DOMAIN config |-> [rx |-> 0, tx |-> 0]]
  BY Zenon DEF PciInit, Locations
<1>3. 0 \in Nat /\ [rx |-> 0, tx |-> 0] \in RingFrames
  BY SMT DEF RingFrames
<1>4. registers \in [DOMAIN config -> RegisterFile] /\ rings \in [DOMAIN config -> RingFrames]
  BY <1>2, <1>3, Zenon DEF RegisterFile
<1>5. ASSUME NEW l \in DOMAIN config PROVE Off(registers[l])
  BY <1>2, RegisterNames, Zenon DEF Off
<1>6. <<>> \in Seq(RegisterWrites)
  OBVIOUS
<1>7. CardInv(config, bus_slot, step, writes, registers, rings)
  <2>1. step \notin {"rx", "tx", "irq"}
    BY <1>2, SMT
  <2> QED BY <1>2, <1>4, <1>5, <1>6, <2>1, OffReady, Zenon DEF CardInv
<1>8. ScanInv(config, bus_slot, step, device, has_eeprom)
  BY <1>1, <1>2, SMT DEF ScanInv
<1>9. Driven(network_devices, config, bus_slot, id)
  <2>1. ASSUME NEW l \in CardsOf(config) PROVE ~(Pos(l) < 0)
    <3>1. Pos(l) \in Nat
      BY <1>1, CardPosition, Zenon
    <3> QED BY <3>1
  <2>2. <<>> \in Seq(NetworkDevices(config)) /\ 1..Len(<<>>) = {}
    OBVIOUS
  <2> QED BY <1>2, <1>3, <2>1, <2>2, Zenon DEF Driven
<1> QED BY <1>7, <1>8, <1>9, Zenon DEF PciInv

\* The invariant says that the rings are ready.
LEMMA PciInvReady == PciInv => RingsReady
<1> SUFFICES ASSUME PciInv PROVE RingsReady
  OBVIOUS
<1>1. \A l \in DOMAIN config : Ready(registers[l], rings[l], config[l][4][1])
  BY Zenon DEF PciInv, CardInv
<1> QED BY <1>1, Zenon DEF RingsReady, Ready, RxOk, TxOk, Master, Locations

\* It says which cards are driven.
LEMMA PciInvDriven == PciInv => CardsDriven
  BY DrivenCards, Zenon DEF PciInv, ScanInv
=============================================================================
