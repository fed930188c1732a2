------------------------------- MODULE Packets -------------------------------
(***************************************************************************)
(* How packets are built and taken apart (src/extensions/networking/       *)
(* protocols): the nested builders write one buffer from the outside in,   *)
(* and the parsers read the buffer the receiver is given.                  *)
(*                                                                         *)
(* A byte of the buffer is modelled by where it comes from: the field and  *)
(* the position in the field, <<field, k>>, or Zero.  The bytes that select*)
(* a protocol are kept as numbers beside it, in val.                       *)
(***************************************************************************)
EXTENDS Integers, Sequences

CONSTANTS Kinds,      \* the packets that are built
          Sizes,      \* the sizes of the payload
          BufferSize, \* bound: the size of the array the builders write
          Answers     \* the options of the answers of DHCP servers: sequences of
                      \* options, see IsAnswer

AllKinds == {"arp_request", "arp_response", "echo_request", "echo_reply",
             "udp", "discover", "request", "answer"}
\* The options of a server's answer.  Pads and the end have no length.
Byte == 0..255
Pad == 0
MessageType == 53
EndOption == 255
Option == [code : Byte, value : Seq(Byte)]
IsAnswer(a) ==
  /\ a \in Seq(Option)
  /\ \A i \in DOMAIN a : /\ Len(a[i].value) \in Byte
                         /\ a[i].code \in {Pad, EndOption} => a[i].value = <<>>
  /\ a # <<>> /\ a[Len(a)].code = EndOption

ASSUME PacketAssumption ==
  /\ \A a \in Answers : IsAnswer(a)
  /\ Kinds \subseteq AllKinds /\ Sizes \subseteq Nat /\ BufferSize \in Nat
  /\ \A s \in Sizes \cup {257} : 14 + 20 + 8 + s < BufferSize

VARIABLES
  kind, n,      \* the packet and the size of its payload
  pc,           \* the builder that writes next
  content,      \* the buffer
  written,      \* the offsets that have been written
  val,          \* the values of the fields that select a protocol, and the
                \* lengths in the IPv4 and the UDP header
  len,          \* the length of the finished frame, 0 before
  answer,       \* the options of the answer that is parsed
  iter, raw_op  \* the bytes of them to come, and the operation that was found

vars == <<kind, n, pc, content, written, val, len, answer, iter, raw_op>>
parser == <<answer, iter, raw_op>>

Zero == <<"zero", 0>>

\* A field is <<name, offset, length>>, a layout a set of them.
EthFields == {<<"eth.dst", 0, 6>>, <<"eth.src", 6, 6>>, <<"eth.type", 12, 2>>}
ArpFields ==
  {<<"arp.hardware", 0, 2>>, <<"arp.protocol", 2, 2>>, <<"arp.sizes", 4, 2>>,
   <<"arp.operation", 6, 2>>, <<"arp.src_mac", 8, 6>>, <<"arp.src_ip", 14, 4>>,
   <<"arp.dest_mac", 18, 6>>, <<"arp.dest_ip", 24, 4>>}
IpFields ==
  {<<"ip.version_ihl", 0, 1>>, <<"ip.dscp_ecn", 1, 1>>,
   <<"ip.total_length", 2, 2>>, <<"ip.identification", 4, 2>>,
   <<"ip.flags_fragment", 6, 2>>, <<"ip.ttl", 8, 1>>, <<"ip.protocol", 9, 1>>,
   <<"ip.checksum", 10, 2>>, <<"ip.source", 12, 4>>, <<"ip.destination", 16, 4>>}
\* Mutant: the length is written one byte early.
UdpFields_Short ==
  {<<"udp.source_port", 0, 2>>, <<"udp.destination_port", 2, 2>>,
   <<"udp.length", 3, 2>>, <<"udp.checksum", 5, 2>>}
UdpFields == {<<"udp.source_port", 0, 2>>, <<"udp.destination_port", 2, 2>>,
              <<"udp.length", 4, 2>>, <<"udp.checksum", 6, 2>>}
IcmpFields == {<<"icmp.type", 0, 2>>, <<"icmp.checksum", 2, 2>>,
               <<"icmp.identifier", 4, 2>>, <<"icmp.sequence", 6, 2>>}

\* What the two DHCP messages write; the options start at 240.
BootpFields ==
  {<<"dhcp.op", 0, 4>>, <<"dhcp.xid", 4, 4>>, <<"dhcp.secs", 8, 2>>,
   <<"dhcp.flags", 10, 2>>, <<"dhcp.ciaddr", 12, 4>>, <<"dhcp.yiaddr", 16, 4>>,
   <<"dhcp.siaddr", 20, 4>>, <<"dhcp.giaddr", 24, 4>>, <<"dhcp.chaddr", 28, 6>>,
   <<"dhcp.cookie", 236, 4>>, <<"dhcp.type", 240, 3>>}
DiscoverFields == BootpFields \cup {<<"dhcp.end", 243, 1>>}
RequestFields ==
  BootpFields \cup {<<"dhcp.server", 243, 6>>, <<"dhcp.requested", 250, 6>>,
                    <<"dhcp.end", 257, 1>>}

PayloadFields ==
  CASE kind = "discover" -> DiscoverFields
    [] kind = "request"  -> RequestFields
    [] OTHER             -> {<<"payload", 0, n>>}

\* The size that the caller of the builder says its payload has.
payload_size ==
  CASE kind = "discover" -> 244
    [] kind = "request"  -> 257
    [] OTHER             -> n

Span(base, f) == base + f[2] .. base + f[2] + f[3] - 1

\* Writes the fields of a layer that starts at base.
Put(base, fields) ==
  /\ content' = [i \in DOMAIN content |->
       IF \E f \in fields : i \in Span(base, f)
       THEN LET f == CHOOSE g \in fields : i \in Span(base, g)
            IN  <<f[1], i - base - f[2]>>
       ELSE content[i]]
  /\ written' = written \cup UNION {Span(base, f) : f \in fields}

-----------------------------------------------------------------------------
(* Building.                                                               *)

IsArp == kind \in {"arp_request", "arp_response"}
IsIcmp == kind \in {"echo_request", "echo_reply"}

EthType_into(ty) == CASE ty = "Ipv4" -> <<8, 0>> [] ty = "Arp" -> <<8, 6>>
Protocol_into(p) == CASE p = "Icmp" -> 1 [] p = "Udp" -> 17
Operation_into(k) == CASE k = "arp_request" -> 1 [] k = "arp_response" -> 2
Type_into(k) ==
  CASE k = "echo_reply" -> <<0, 0>> [] k = "echo_request" -> <<8, 0>>

\* The bytes of an option, as a server writes them.
OptionBytes(o) == IF o.code \in {Pad, EndOption} THEN <<o.code>>
                  ELSE <<o.code, Len(o.value)>> \o o.value

\* The bytes of the last options of an answer, for each number of them.
BytesOfLast(a) ==
  LET bytes[k \in 0..Len(a)] ==
        IF k = 0 THEN <<>> ELSE OptionBytes(a[Len(a) - k + 1]) \o bytes[k - 1]
  IN  bytes

Init ==
  /\ kind \in Kinds
  /\ n \in IF kind = "udp" \/ IsIcmp THEN Sizes ELSE {0}
  /\ pc = IF kind = "answer" THEN "data" ELSE "ethernet"
  /\ content = [i \in 0..BufferSize-1 |-> Zero]
  /\ written = {}
  /\ val = [eth |-> <<0, 0>>, protocol |-> 0, operation |-> 0,
            type |-> <<0, 0>>, ports |-> <<0, 0>>, total |-> 0, udp |-> 0]
  /\ len = 0
  /\ answer \in IF kind = "answer" THEN Answers ELSE {<<>>}
  /\ iter = BytesOfLast(answer)[Len(answer)]
  /\ raw_op = -1

\* ethernet finish, up to the call of the closure for its payload.
BuildEthernet ==
  /\ pc = "ethernet"
  /\ Put(0, EthFields)
  /\ val' = [val EXCEPT !.eth = EthType_into(IF IsArp THEN "Arp" ELSE "Ipv4")]
  /\ pc' = IF IsArp THEN "arp" ELSE "ipv4"
  /\ UNCHANGED <<kind, n, len, parser>>

BuildArp ==
  /\ pc = "arp"
  /\ Put(14, ArpFields)
  /\ val' = [val EXCEPT !.operation = Operation_into(kind)]
  /\ pc' = "finish"
  /\ UNCHANGED <<kind, n, len, parser>>

\* Mutant: the header of the inner layer is not counted.
ip_payload_size_NoHeader == payload_size

\* The size the layer inside the IPv4 packet says it has.
ip_payload_size == 8 + payload_size

BuildIpv4 ==
  /\ pc = "ipv4"
  /\ Put(14, IpFields)
  /\ val' = [val EXCEPT !.protocol = Protocol_into(IF IsIcmp THEN "Icmp" ELSE "Udp"),
                        !.total = 20 + ip_payload_size]
  /\ pc' = IF IsIcmp THEN "icmp" ELSE "udp"
  /\ UNCHANGED <<kind, n, len, parser>>

BuildIcmp ==
  /\ pc = "icmp"
  /\ Put(34, IcmpFields)
  /\ val' = [val EXCEPT !.type = Type_into(kind)]
  /\ pc' = "payload"
  /\ UNCHANGED <<kind, n, len, parser>>

\* The source and the destination port that the callers of the builder give: those
\* of the DHCP messages, and two that are not a DHCP server's.
Ports == IF kind = "udp" THEN <<9000, 8080>> ELSE <<68, 67>>

BuildUdp ==
  /\ pc = "udp"
  /\ Put(34, UdpFields)
  /\ val' = [val EXCEPT !.udp = 8 + payload_size, !.ports = Ports]
  /\ pc' = "payload"
  /\ UNCHANGED <<kind, n, len, parser>>

BuildPayload ==
  /\ pc = "payload"
  /\ Put(42, PayloadFields)
  /\ pc' = "finish"
  /\ UNCHANGED <<kind, n, val, len, parser>>

\* The length of the frame around so many written bytes.
FrameLength(written_len) == (IF written_len > 46 THEN written_len ELSE 46) + 14

\* The closures have returned: the frame is copied to a buffer of its own.
Finish ==
  /\ pc = "finish"
  /\ len' = FrameLength(IF IsArp THEN 28 ELSE 20 + ip_payload_size)
  /\ content' = [i \in DOMAIN content |-> IF i < len' THEN content[i] ELSE Zero]
  /\ pc' = "done"
  /\ UNCHANGED <<kind, n, written, val, parser>>

-----------------------------------------------------------------------------
(* The operation of a DHCP message: Data::try_from looks for option 53.    *)

builder == <<kind, n, content, written, val, len, answer>>
Panics == pc' = "panicked" /\ UNCHANGED <<iter, raw_op>>

\* Less than 244 bytes, with less than four bytes of options, give Err, which
\* get() unwraps.
try_from ==
  /\ pc = "data"
  /\ IF Len(iter) < 4 THEN Panics ELSE pc' = "options" /\ UNCHANGED <<iter, raw_op>>
  /\ UNCHANGED builder

\* Reads the operation; an iterator that has ended is unwrapped.
TakeOperation ==
  /\ pc = "options" /\ iter # <<>> /\ iter[1] = MessageType
  /\ IF Len(iter) < 3 THEN Panics
     ELSE /\ raw_op' = iter[3]
          /\ iter' = SubSeq(iter, 4, Len(iter))
          /\ pc' = "parsed"
  /\ UNCHANGED builder

\* Mutant: skip() alone takes one byte less than skip().next().
SkipOption_Short ==
  /\ pc = "options" /\ iter # <<>> /\ iter[1] # MessageType
  /\ IF Len(iter) < 2 THEN Panics
     ELSE /\ iter' = SubSeq(iter, 3 + iter[2] - 1, Len(iter))
          /\ UNCHANGED <<pc, raw_op>>
  /\ UNCHANGED builder

\* Any other option is skipped, by its length.  Of a length of zero one is
\* subtracted: it panics with overflow checks, and else gives 255.
SkipOption ==
  /\ pc = "options" /\ iter # <<>> /\ iter[1] # MessageType
  /\ IF Len(iter) < 2 THEN Panics
     ELSE \/ /\ LET skip == (iter[2] + 255) % 256
                IN  iter' = SubSeq(iter, 3 + skip + 1, Len(iter))
             /\ UNCHANGED <<pc, raw_op>>
          \/ iter[2] = 0 /\ Panics
  /\ UNCHANGED builder

EndOfOptions == pc = "options" /\ iter = <<>> /\ Panics /\ UNCHANGED builder

\* Operation::from.
Operation(raw) ==
  CASE raw = 1 -> "Discover" [] raw = 2 -> "Offer" [] raw = 3 -> "Request"
    [] raw = 5 -> "Ack" [] OTHER -> "Unknown"

Next == BuildEthernet \/ BuildArp \/ BuildIpv4 \/ BuildIcmp \/ BuildUdp
        \/ BuildPayload \/ Finish
        \/ try_from \/ TakeOperation \/ SkipOption \/ EndOfOptions

Spec == Init /\ [][Next]_vars

-----------------------------------------------------------------------------
(* Taking apart.                                                           *)

\* The bytes that the parsers take for each field.
EthReads == {<<"eth.dst", 0, 6>>, <<"eth.src", 6, 6>>, <<"eth.type", 12, 2>>}
ArpReads ==
  {<<"arp.hardware", 0, 2>>, <<"arp.protocol", 2, 2>>, <<"arp.sizes", 4, 2>>,
   <<"arp.operation", 6, 2>>, <<"arp.src_mac", 8, 6>>, <<"arp.src_ip", 14, 4>>,
   <<"arp.dest_mac", 18, 6>>, <<"arp.dest_ip", 24, 4>>}
IpReads ==
  {<<"ip.version_ihl", 0, 1>>, <<"ip.dscp_ecn", 1, 1>>,
   <<"ip.total_length", 2, 2>>, <<"ip.identification", 4, 2>>,
   <<"ip.ttl", 8, 1>>, <<"ip.protocol", 9, 1>>, <<"ip.checksum", 10, 2>>,
   <<"ip.source", 12, 4>>, <<"ip.destination", 16, 4>>}
UdpReads == {<<"udp.source_port", 0, 2>>, <<"udp.destination_port", 2, 2>>,
             <<"udp.length", 4, 2>>, <<"udp.checksum", 6, 2>>}
IcmpReads == {<<"icmp.type", 0, 2>>, <<"icmp.identifier", 4, 2>>,
              <<"icmp.sequence", 6, 2>>}
DhcpReads ==
  {<<"dhcp.op", 0, 4>>, <<"dhcp.xid", 4, 4>>, <<"dhcp.secs", 8, 2>>,
   <<"dhcp.flags", 10, 2>>, <<"dhcp.ciaddr", 12, 4>>, <<"dhcp.yiaddr", 16, 4>>,
   <<"dhcp.siaddr", 20, 4>>, <<"dhcp.giaddr", 24, 4>>, <<"dhcp.chaddr", 28, 16>>}

\* How the fields of the frame are matched, outside in.
EthType_from(b) ==
  CASE b = <<8, 0>> -> "Ipv4" [] b = <<8, 6>> -> "Arp"
    [] b = <<8, 66>> -> "WakeOnLan" [] b = <<134, 221>> -> "Ipv6"
    [] OTHER -> "Unknown"
Protocol_from(b) ==
  CASE b = 1 -> "Icmp" [] b = 6 -> "Tcp" [] b = 17 -> "Udp" [] OTHER -> "Unknown"
Operation_from(b) ==
  CASE b = 1 -> "arp_request" [] b = 2 -> "arp_response" [] OTHER -> "Unknown"
Type_from(b) ==
  CASE b = <<0, 0>> -> "echo_reply" [] b = <<8, 0>> -> "echo_request"
    [] OTHER -> "Unknown"

\* The packet that the frame is taken for, and the fields read from it, each
\* with the offset of its layer.
Parsed ==
  LET ip(base, name, reads) ==
        [name |-> name, reads |-> ({14} \X IpReads) \cup ({base} \X reads)]
      inner ==
        CASE EthType_from(val.eth) = "Arp" ->
               [name |-> Operation_from(val.operation), reads |-> {14} \X ArpReads]
          [] EthType_from(val.eth) = "Ipv4" /\ Protocol_from(val.protocol) = "Icmp" ->
               ip(34, Type_from(val.type), IcmpReads)
          [] EthType_from(val.eth) = "Ipv4" /\ Protocol_from(val.protocol) = "Udp" ->
               ip(34, IF val.ports = <<67, 68>> THEN "dhcp" ELSE "udp", UdpReads)
          [] OTHER -> [name |-> "Unknown", reads |-> {}]
  IN  [inner EXCEPT !.reads =
         @ \cup ({0} \X EthReads)
           \cup (IF inner.name = "dhcp" THEN {42} \X DhcpReads ELSE {})]

\* Byte k of a field as it was put in.  A MAC address has six bytes and chaddr
\* has room for 16: zeros fill it up.
Hlen == 6
ByteOf(f, k) == IF f[1] = "dhcp.chaddr" /\ k >= Hlen THEN Zero ELSE <<f[1], k>>

\* The bytes read for field f of a layer at base are the bytes of that field.
ReadsAs(base, f) ==
  \A k \in 0..f[3]-1 : /\ base + f[2] + k < len
                       /\ content[base + f[2] + k] = ByteOf(f, k)

-----------------------------------------------------------------------------
(* Properties.                                                             *)

\* A frame made by the nested builders is taken apart into what was put in:
\* the dispatch of handle_packet sees the kind of packet that was built, each
\* parser reads each of its fields from the bytes the builder wrote for it,
\* and no layer has written over another.  The flags and the fragment offset are
\* not among the fields: header() reads them at 7, to_bytes writes them at 6, and
\* nothing uses them (ipv4.rs:154).  Fields are compared as bytes, not as bits:
\* dscp and ecn are read from their byte with other shifts than it is made with
\* (ipv4.rs:118, 150), which does not show for the zeros that the kernel sends.
\* The kernel's own DHCP messages go from port 68 to port 67, so the dispatch
\* never takes one for a server's answer; Data::try_from still finds each field
\* of its fixed part where the message builder put it, chaddr with the zeros that
\* fill it up, which is the layout that a server copies into its answer.
RoundTrip ==
  pc = "done" =>
    /\ Parsed.name = IF kind \in {"discover", "request"} THEN "udp" ELSE kind
    /\ \A r \in Parsed.reads : ReadsAs(r[1], r[2])
    /\ kind \in {"discover", "request"} => \A f \in DhcpReads : ReadsAs(42, f)

\* The lengths of the layers agree (each is computed by a call of its own of
\* the payload_size closure): IPv4 counts its header and the UDP length, both
\* lengths lie in the frame, what the receiver takes for the payload starts
\* with the payload, and only padding follows; a frame has the least length of
\* an Ethernet frame, and holds all that was written for it, but for the end
\* option of the DHCP request, which lies one byte past the size given
\* (dhcp.rs:192).
LengthsAgree ==
  /\ pc = "done" => len >= 60 /\ (kind # "request" => \A i \in written : i < len)
  /\ pc = "done" /\ ~IsArp =>
       /\ ~IsIcmp => val.total = 20 + val.udp
       /\ 14 + val.total <= len
       /\ \A i \in 42..14 + val.total - 1 :
            kind = "udp" \/ IsIcmp => content[i] = <<"payload", i - 42>>
       /\ \A i \in 14 + val.total..len - 1 : content[i] = Zero

\* The operation that Data::try_from finds in a server's answer is the one that
\* the server wrote, whatever options come before it and whatever bytes are in
\* their values.  Options of length zero and pads before it are excepted: the
\* walk has no case for either.
OperationFound ==
  \A t \in DOMAIN answer :
    (/\ answer[t].code = MessageType /\ Len(answer[t].value) = 1
     /\ \A i \in 1..t-1 : answer[i].code \notin {Pad, MessageType} /\ answer[i].value # <<>>)
      => /\ pc # "panicked"
         /\ pc = "parsed" => Operation(raw_op) = Operation(answer[t].value[1])
=============================================================================
