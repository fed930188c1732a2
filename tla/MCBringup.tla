----------------------------- MODULE MCBringup -----------------------------
(* Instances of Bringup for TLC. *)
EXTENDS Bringup, TLC

\* Up to three regions on six frames of two bytes, in all arrangements.
Bounds == {0, 2, 4, 6, 8, 12}
Region == {r \in [kind : {"Usable", "Bootloader"}, start : Bounds, end : Bounds] :
             r.start < r.end}
MCMemoryMaps ==
  {m \in UNION {[1..k -> Region] : k \in 1..3} :
     \A i \in 1..Len(m) - 1 : m[i].end <= m[i + 1].start}

\* The registers of a device: identification, command and status, class,
\* header type and the first base address; the other registers are zero.
Device(ident, command, header, bar) ==
  [r \in {4 * i : i \in 0..15} |->
     CASE r = 0 -> ident [] r = 4 -> command [] r = 8 -> <<0, 512>>
       [] r = 12 -> <<0, header>> [] r = 16 -> bar [] OTHER -> <<0, 0>>]

E1000Ident == <<32902, 4110>>
Card == Device(E1000Ident, <<3, 2 * 2^11 + 16>>, 0, <<0, 65216>>)
MasterCard == Device(E1000Ident, <<7, 16>>, 0, <<8, 65216>>)
MultiFunctionCard == Device(E1000Ident, <<3, 16>>, 128, <<0, 65216>>)
IoCard == Device(E1000Ident, <<3, 16>>, 0, <<49153, 0>>)
Display == Device(<<4660, 4369>>, <<3, 0>>, 0, <<8, 64768>>)

\* Two buses of two slots are scanned; the card on the last bus is not found,
\* nor is one that is not function 0.
MCEeprom == (<<0, 1, 0>> :> <<82, 84, 0, 18, 52, 86>>
             @@ <<1, 0, 0>> :> <<82, 84, 0, 18, 52, 87>>
             @@ <<2, 0, 0>> :> <<82, 84, 0, 18, 52, 88>>)
TwoCards == <<0, 0, 0>> :> Display @@ <<0, 1, 0>> :> Card
              @@ <<1, 0, 0>> :> MasterCard @@ <<2, 0, 0>> :> Card
NoCard == <<0, 1, 0>> :> Display
MCConfigSpaces ==
  {TwoCards, NoCard,
   <<0, 0, 0>> :> MultiFunctionCard @@ <<0, 0, 1>> :> Card
     @@ <<1, 0, 0>> :> Card @@ <<1, 1, 0>> :> Display,
   <<0, 1, 0>> :> Card @@ <<1, 1, 0>> :> IoCard,
   <<1, 1, 0>> :> Card}

\* Interrupt controller tables of up to two entries, some longer than their
\* type needs, and root tables of both kinds with up to three tables.
Entry(at, type, more) == [at |-> at, type |-> type, length |-> EntryReads(type) + more]
Types == {0, 1, 2, 4, 9}
EntryLists ==
  {<<>>} \cup {<<Entry(44, t, m)>> : t \in Types, m \in {0, 4}}
    \cup {<<Entry(44, t, m), Entry(44 + EntryReads(t) + m, u, 0)>> :
            t, u \in Types, m \in {0, 4}}
Table(sig, entries) ==
  [signature |-> sig, entries |-> entries,
   length |-> IF entries = <<>> THEN 44
              ELSE entries[Len(entries)].at + entries[Len(entries)].length]
Root(sig, rest, tabs) ==
  [signature |-> sig, tables |-> tabs,
   length |-> 36 + (IF sig = "XSDT" THEN 8 ELSE 4) * Len(tabs) + rest]
Empty == Root("RSDT", 0, <<>>)
MCFirmwares ==
  {Empty}
    \cup {Root(sig, rest, <<Table("FACP", <<>>), Table("APIC", e), Table(last, <<>>)>>) :
            sig \in {"RSDT", "XSDT"}, rest \in {0, 3}, e \in EntryLists,
            last \in {"HPET"}}
    \cup {Root(sig, 0, <<Table("APIC", e), Table("WAET", <<>>), Table("APIC", <<>>),
                          Table("SSDT", <<>>)>>) :
            sig \in {"RSDT", "XSDT"}, e \in EntryLists}

\* Each part of the machine in all its forms, beside a fixed choice of the rest.
ThreeFrames == <<[kind |-> "Usable", start |-> 0, end |-> 6]>>
TwoRegions == <<[kind |-> "Usable", start |-> 0, end |-> 4],
                [kind |-> "Bootloader", start |-> 4, end |-> 6],
                [kind |-> "Usable", start |-> 6, end |-> 12]>>
MCMachines ==
  (MCMemoryMaps \X {NoCard} \X {Empty})
    \cup ({TwoRegions} \X MCConfigSpaces \X {Empty})
    \cup ({ThreeFrames} \X {NoCard} \X MCFirmwares)
=============================================================================
