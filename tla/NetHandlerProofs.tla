-------------------------- MODULE NetHandlerProofs --------------------------
(***************************************************************************)
(* Proofs about NetHandler, for every set of devices, hosts, servers and   *)
(* callers, and for a network that delays, loses, reorders and duplicates: *)
(* the types and the facts about its queue and its network that all the    *)
(* proofs rest on, the DHCP exchange, the hardware addresses that get_mac  *)
(* returns, the leases, and that every call of get_mac and every ping is in*)
(* exactly one place.                                                      *)
(***************************************************************************)
EXTENDS NetHandler, TLAPS

-----------------------------------------------------------------------------
(* Queues, by the messages that are in them.                               *)

\* The first message of a queue that is not empty.
LEMMA FirstInQueue ==
  ASSUME NEW S, NEW s \in Seq(S), s # <<>>
  PROVE  Len(s) \in Nat \ {0} /\ s[1] = Head(s)
  OBVIOUS

\* What taking from a queue and appending to it do to its messages.
LEMMA QueueFacts ==
  ASSUME NEW S, NEW s \in Seq(S)
  PROVE  /\ s # <<>> => /\ Head(s) \in S /\ Head(s) \in Range(s)
                        /\ Tail(s) \in Seq(S) /\ Range(Tail(s)) \subseteq Range(s)
         /\ \A e \in S : /\ Append(s, e) \in Seq(S)
                         /\ Range(Append(s, e)) \subseteq Range(s) \cup {e}
<1>1. s # <<>> => /\ Head(s) \in S /\ Head(s) \in Range(s)
                  /\ Tail(s) \in Seq(S) /\ Range(Tail(s)) \subseteq Range(s)
  <2> SUFFICES ASSUME s # <<>>
               PROVE  /\ Head(s) \in S /\ Head(s) \in Range(s)
                      /\ Tail(s) \in Seq(S) /\ Range(Tail(s)) \subseteq Range(s)
    OBVIOUS
  <2>1. /\ Head(s) \in S /\ Head(s) = s[1] /\ Tail(s) \in Seq(S)
        /\ Len(Tail(s)) = Len(s) - 1
        /\ \A i \in 1..Len(Tail(s)) : Tail(s)[i] = s[i + 1]
    OBVIOUS
  <2>2. DOMAIN s = 1..Len(s) /\ DOMAIN Tail(s) = 1..Len(s) - 1 /\ Len(s) \in Nat \ {0}
    BY <2>1
  <2> QED BY <2>1, <2>2 DEF Range
<1>2. ASSUME NEW e \in S
      PROVE  /\ Append(s, e) \in Seq(S)
             /\ Range(Append(s, e)) \subseteq Range(s) \cup {e}
  <2>1. /\ Append(s, e) \in Seq(S) /\ Len(Append(s, e)) = Len(s) + 1
        /\ \A i \in 1..Len(s) : Append(s, e)[i] = s[i]
        /\ Append(s, e)[Len(s) + 1] = e
    OBVIOUS
  <2>2. DOMAIN s = 1..Len(s) /\ DOMAIN Append(s, e) = 1..Len(s) + 1 /\ Len(s) \in Nat
    BY <2>1
  <2> QED BY <2>1, <2>2 DEF Range
<1> QED BY <1>1, <1>2

\* The range of a sequence.
LEMMA RangeOfSeq ==
  ASSUME NEW S, NEW seq \in Seq(S)
  PROVE  Range(seq) \in SUBSET S
  BY DEF Range

\* What putting one queue behind another does to its messages.
LEMMA ConcatFacts ==
  ASSUME NEW S, NEW s \in Seq(S), NEW t \in Seq(S)
  PROVE  s \o t \in Seq(S) /\ Range(s \o t) \subseteq Range(s) \cup Range(t)
<1>1. /\ s \o t \in Seq(S) /\ Len(s \o t) = Len(s) + Len(t)
      /\ Len(s) \in Nat /\ Len(t) \in Nat
  OBVIOUS
<1>2. ASSUME NEW i \in 1..Len(s) + Len(t)
      PROVE (s \o t)[i] = IF i <= Len(s) THEN s[i] ELSE t[i - Len(s)]
  OBVIOUS
<1>3. DOMAIN (s \o t) = 1..Len(s) + Len(t) /\ DOMAIN s = 1..Len(s) /\ DOMAIN t = 1..Len(t)
  BY <1>1
<1>4. ASSUME NEW i \in 1..Len(s) + Len(t)
      PROVE (s \o t)[i] \in Range(s) \cup Range(t)
  <2>1. CASE i <= Len(s)
    BY <1>1, <1>2, <1>3, <2>1 DEF Range
  <2>2. CASE i > Len(s)
    <3>1. i - Len(s) \in 1..Len(t)
      BY <1>1, <2>2
    <3> QED BY <1>1, <1>2, <1>3, <2>2, <3>1, SMTT(30) DEF Range
  <2> QED BY <1>1, <2>1, <2>2
<1> QED BY <1>1, <1>3, <1>4 DEF Range

\* What the network delivers goes to the device it is for, or to all of one
\* network, behind what is queued.
LEMMA Delivered ==
  ASSUME NEW S, queue \in Seq(S), NEW d \in Devices, NEW dst, NEW p,
         \A e \in Devices : PacketTo(e, dst, p) \in S,
         Deliver(d, dst, p)
  PROVE  /\ queue' \in Seq(S)
         /\ \A m \in Range(queue') :
              \/ m \in Range(queue)
              \/ \E e \in Devices : m = PacketTo(e, dst, p) /\ (e = d \/ SharedLan)
<1> DEFINE reached == {e \in Devices : e = d \/ (SharedLan /\ dst = Broadcast)}
           n == Cardinality(reached)
<1>1. n \in Nat
  BY NetAssumption
<1>2. PICK order \in Injection(1..n, reached) :
        queue' = queue \o [i \in 1..n |-> PacketTo(order[i], dst, p)]
  BY ZenonT(30) DEF Deliver
<1> DEFINE more == [i \in 1..n |-> PacketTo(order[i], dst, p)]
<1>3. \A i \in 1..n : order[i] \in Devices /\ (order[i] = d \/ SharedLan)
  BY <1>2 DEF Injection
<1>4. more \in Seq(S)
  <2>1. more \in [1..n -> S]
    BY <1>3
  <2> HIDE DEF more, n
  <2> QED BY <2>1, <1>1
<1>5. \A m \in Range(more) : \E e \in Devices :
        m = PacketTo(e, dst, p) /\ (e = d \/ SharedLan)
  BY <1>3 DEF Range
<1>6. queue' \in Seq(S) /\ Range(queue') \subseteq Range(queue) \cup Range(more)
  <2>1. queue' = queue \o more
    BY <1>2
  <2> HIDE DEF more
  <2> QED BY <2>1, <1>4, ConcatFacts
<1> QED BY <1>5, <1>6, ZenonT(30)

-----------------------------------------------------------------------------
(* Types.                                                                  *)

\* The packets that the network answers with, and the messages of the handler.
Replies == [type : DhcpTypes, xid : {Xid}, ip : Addrs, server : Servers]
           \cup [type : {"arp_response"}, ip : Hosts, mac : Macs]
           \cup [type : {"echo_reply"}, ip : Hosts]
Messages ==
  [kind : {"Packet"}, id : Devices, dst : Devices \cup {Broadcast, "other"},
   packet : Replies \cup Unsolicited]
    \cup [kind : {"SendArpRequest"}, ip : Hosts, from : Clients]
    \cup [kind : {"PingRequest"}, ip : Hosts, mac : Macs, from : Clients]

\* A caller that pings has a MAC address for it.
Typed ==
  /\ TypeOK
  /\ queue \in Seq(Messages)
  /\ \A c \in Clients : call[c] = "ping" => mac[c] # None

\* What the handler reads from a message of each kind.
LEMMA MessageFacts ==
  ASSUME NEW m \in Messages
  PROVE  /\ m.kind \in {"Packet", "SendArpRequest", "PingRequest"}
         /\ m.kind = "SendArpRequest" => m.ip \in Hosts /\ m.from \in Clients
         /\ m.kind = "PingRequest" => /\ m.ip \in Hosts /\ m.from \in Clients
                                      /\ m.mac \in Macs
         /\ m.kind = "Packet" => m.id \in Devices /\ m.packet \in Replies \cup Unsolicited
  BY DEF Messages

\* The fields of the packets that the handler acts on.
LEMMA PacketFacts ==
  ASSUME NEW p \in Replies \cup Unsolicited
  PROVE  /\ p.type \in {"offer", "ack"} /\ p.xid = Xid =>
              p.ip \in Addrs /\ p.server \in Servers /\ p \in Replies
         /\ p.type = "arp_response" =>
              /\ p.ip \in Hosts /\ p.mac \in Macs
              /\ p \in Replies \/ p.mac = HostMac[p.ip]
         /\ p.type = "echo_reply" => p.ip \in Hosts
<1>1. CASE p \in Replies
  BY <1>1 DEF Replies, DhcpTypes
<1>2. CASE p \in Unsolicited
  BY <1>2, UnsolicitedAssumption, NetAssumption
<1> QED BY <1>1, <1>2

\* A turn of the loop takes a well-formed message.
LEMMA TakeFacts ==
  ASSUME Typed, NEW kind, Take(kind)
  PROVE  /\ Head(queue) \in Messages /\ Head(queue) \in Range(queue)
         /\ Head(queue).kind = kind
         /\ queue' \in Seq(Messages) /\ Range(queue') \subseteq Range(queue)
         /\ started /\ ~panicked /\ UNCHANGED <<started, leases>>
  BY QueueFacts DEF Typed, Take

\* The types hold at the beginning.
LEMMA InitTyped == Init => Typed
<1> SUFFICES ASSUME Init PROVE Typed
  OBVIOUS
<1>1. dhcp \in [Devices -> Exchange]
  BY DEF Init, Exchange
<1>2. queue \in Seq(Messages)
  BY DEF Init
<1>3. TypeOK
  BY <1>1, ZenonT(30) DEF Init, TypeOK
<1> QED BY <1>2, <1>3 DEF Init, Typed

\* The start of the handler and a request of a caller keep the types.
LEMMA RequestTyped ==
  ASSUME Typed, Start \/ SendArpRequest \/ PingRequest PROVE Typed'
<1>1. CASE Start
  <2>1. wire' \subseteq Frames
    BY <1>1 DEF Typed, TypeOK, Start, Frames
  <2>2. dhcp' \in [Devices -> Exchange]
    BY <1>1 DEF Start, Exchange
  <2> QED BY <1>1, <2>1, <2>2 DEF Typed, TypeOK, Start, bindings, client
<1>2. CASE SendArpRequest
  <2> DEFINE m == Head(queue)
  <2>1. /\ m.ip \in Hosts /\ m.from \in Clients
        /\ queue' \in Seq(Messages) /\ UNCHANGED <<started, leases>>
    BY <1>2, TakeFacts, MessageFacts DEF SendArpRequest
  <2> HIDE DEF m
  <2>2. wire' \subseteq Frames
    BY <1>2, <2>1 DEF Typed, TypeOK, SendArpRequest, Frames, m
  <2>3. arp_bindings' \in [Hosts -> Clients \cup {None}]
    BY <1>2, <2>1, ZenonT(30) DEF Typed, TypeOK, SendArpRequest, m
  <2>4. run_queue' \subseteq Clients
    BY <1>2, <2>1, SMTT(30) DEF Typed, TypeOK, SendArpRequest, m
  <2> QED BY <1>2, <2>1, <2>2, <2>3, <2>4, ZenonT(30)
          DEF Typed, TypeOK, SendArpRequest, device
<1>3. CASE PingRequest
  <2> DEFINE m == Head(queue)
  <2>1. /\ m.ip \in Hosts /\ m.from \in Clients /\ m.mac \in Macs
        /\ queue' \in Seq(Messages) /\ UNCHANGED <<started, leases>>
    BY <1>3, TakeFacts, MessageFacts, SMTT(30) DEF PingRequest
  <2> HIDE DEF m
  <2>2. wire' \subseteq Frames
    BY <1>3, <2>1 DEF Typed, TypeOK, PingRequest, Frames, m
  <2>3. ping_bindings' \in [Hosts -> Clients \cup {None}]
    BY <1>3, <2>1 DEF Typed, TypeOK, PingRequest, m
  <2> QED BY <1>3, <2>1, <2>2, <2>3 DEF Typed, TypeOK, PingRequest, device, client
<1> QED BY <1>1, <1>2, <1>3

\* A received packet keeps the types.
LEMMA PacketTyped == ASSUME Typed, handle_packet_ PROVE Typed'
<1> DEFINE m == Head(queue)
           p == m.packet
<1>1. /\ m.id \in Devices /\ p \in Replies \cup Unsolicited
      /\ queue' \in Seq(Messages) /\ UNCHANGED <<started, leases>>
  BY TakeFacts, MessageFacts, ZenonT(30)
  DEF handle_packet_, Receive, Filtered, Ignored, ArpRequest, ArpResponse,
      EchoRequest, EchoReply, Dhcp, DhcpOffer, DhcpAck, DhcpUnexpected
<1>2. /\ p.type \in {"offer", "ack"} /\ p.xid = Xid =>
           p.ip \in Addrs /\ p.server \in Servers
      /\ p.type = "arp_response" => p.ip \in Hosts /\ p.mac \in Macs
      /\ p.type = "echo_reply" => p.ip \in Hosts
  BY <1>1, PacketFacts, SMTT(30)
<1> HIDE DEF m, p
<1>3. CASE Filtered \/ Ignored \/ EchoRequest \/ DhcpUnexpected
  BY <1>1, <1>3, ZenonT(30)
  DEF Typed, TypeOK, Filtered, Ignored, EchoRequest, DhcpUnexpected, device,
      bindings, client
<1>4. CASE ArpRequest
  <2>1. wire' \subseteq Frames
    BY <1>1, <1>4, SMTT(30) DEF Typed, TypeOK, ArpRequest, Frames, m
  <2> QED BY <1>1, <1>4, <2>1, ZenonT(30) DEF Typed, TypeOK, ArpRequest, device, bindings, client
<1>5. CASE ArpResponse
  <2>1. p.ip \in Hosts /\ p.mac \in Macs
    BY <1>2, <1>5, ZenonT(30) DEF ArpResponse, Receive, m, p
  <2>2. /\ ips' \in [Hosts -> Macs \cup {None}]
        /\ arp_bindings' \in [Hosts -> Clients \cup {None}]
    BY <2>1, <1>5 DEF Typed, TypeOK, ArpResponse, Unbind, m, p
  <2>3. /\ ret_queue' \in [Clients -> Macs \cup {None}]
        /\ run_queue' \subseteq Clients /\ panicked' \in BOOLEAN
    <3>1. CASE arp_bindings[p.ip] = None
      BY <3>1, <1>5 DEF Typed, TypeOK, ArpResponse, m, p
    <3>2. CASE arp_bindings[p.ip] # None
      <4>1. arp_bindings[p.ip] \in Clients /\ Reply(arp_bindings[p.ip], p.mac)
        BY <3>2, <2>1, <1>5, ZenonT(30) DEF Typed, TypeOK, ArpResponse, m, p
      <4>2. panicked' \in BOOLEAN
        BY <4>1, ZenonT(30) DEF Typed, TypeOK, Reply
      <4>3. ret_queue' \in [Clients -> Macs \cup {None}] /\ run_queue' \subseteq Clients
        BY <4>1, <2>1, SMTT(30) DEF Typed, TypeOK, Reply
      <4> QED BY <4>2, <4>3, ZenonT(30)
    <3> QED BY <3>1, <3>2, ZenonT(30)
  <2> QED BY <1>1, <1>5, <2>2, <2>3, ZenonT(30) DEF Typed, TypeOK, ArpResponse, device
<1>6. CASE EchoReply
  <2>1. p.ip \in Hosts
    BY <1>2, <1>6, ZenonT(30) DEF EchoReply, Receive, m, p
  <2>2. ping_bindings' \in [Hosts -> Clients \cup {None}]
    BY <2>1, <1>6 DEF Typed, TypeOK, EchoReply, Unbind, m, p
  <2>3. returned' \in [Clients -> BOOLEAN] /\ run_queue' \subseteq Clients
    <3>1. \/ UNCHANGED <<returned, run_queue>>
          \/ \E c \in Clients : /\ returned' = [returned EXCEPT ![c] = TRUE]
                                 /\ run_queue' = run_queue \cup {c}
      BY <2>1, <1>6, ZenonT(30) DEF Typed, TypeOK, EchoReply, m, p
    <3> QED BY <3>1, ZenonT(30) DEF Typed, TypeOK
  <2> QED BY <1>1, <1>6, <2>2, <2>3, ZenonT(30) DEF Typed, TypeOK, EchoReply, device
<1>7. CASE DhcpOffer
  <2>1. p.ip \in Addrs /\ p.server \in Servers
    BY <1>2, <1>7, ZenonT(30) DEF DhcpOffer, OfferExpected, m, p
  <2>2. wire' \subseteq Frames
    BY <1>1, <2>1, <1>7, SMTT(30) DEF Typed, TypeOK, DhcpOffer, Frames, m, p
  <2>3. dhcp' \in [Devices -> Exchange]
    BY <1>1, <2>1, <1>7, ZenonT(30) DEF Typed, TypeOK, DhcpOffer, Exchange, m, p
  <2> QED BY <1>1, <1>7, <2>2, <2>3, ZenonT(30) DEF Typed, TypeOK, DhcpOffer, bindings, client
<1>8. CASE DhcpAck
  <2>1. dhcp[m.id] \in Exchange /\ dhcp[m.id].state = "Requested"
    BY <1>1, <1>8, ZenonT(30) DEF Typed, TypeOK, DhcpAck, AckExpected, m
  <2>2. dhcp[m.id].own_ip \in Addrs
    BY <2>1 DEF Exchange
  <2>3. dhcp' \in [Devices -> Exchange]
    BY <1>1, <1>8, ZenonT(30) DEF Typed, TypeOK, DhcpAck, Exchange, m
  <2>4. /\ ip' \in [Devices -> Addrs \cup {None}]
        /\ indicator' \in [Devices -> BOOLEAN]
    BY <1>1, <2>2, <1>8 DEF Typed, TypeOK, DhcpAck, m
  <2> QED BY <1>1, <1>8, <2>3, <2>4, ZenonT(30) DEF Typed, TypeOK, DhcpAck, bindings, client
<1> QED BY <1>3, <1>4, <1>5, <1>6, <1>7, <1>8, SMTT(30) DEF handle_packet_, Dhcp

\* A poll of a caller keeps the types.
LEMMA ApiTyped == ASSUME Typed, NEW c \in Clients, Api(c) PROVE Typed'
<1>1. CASE GetMac(c)
  <2>1. queue' \in Seq(Messages)
    <3>1. [kind |-> "SendArpRequest", ip |-> Target[c], from |-> c] \in Messages
      BY NetAssumption DEF Messages
    <3> QED BY <1>1, <3>1, QueueFacts, SMTT(30) DEF Typed, GetMac
  <2>2. /\ call' \in [Clients -> {"start", "get_mac", "ping"}]
        /\ \A b \in Clients : call'[b] = "ping" => call[b] = "ping"
    BY <1>1 DEF Typed, TypeOK, GetMac
  <2> QED BY <1>1, <2>1, <2>2, ZenonT(30) DEF Typed, TypeOK, GetMac, device, bindings
<1>2. CASE GetMacReturn(c)
  <2>1. CASE ret_queue[c] # None
    <3>1. mac' = [mac EXCEPT ![c] = ret_queue[c]] /\ call' = [call EXCEPT ![c] = "ping"]
      BY <1>2, <2>1 DEF GetMacReturn
    <3>2. mac' \in [Clients -> Macs \cup {None}]
      BY <3>1 DEF Typed, TypeOK
    <3>3. \A b \in Clients : call'[b] = "ping" => mac'[b] # None
      BY <3>1, <2>1 DEF Typed, TypeOK
    <3>4. call' \in [Clients -> {"start", "get_mac", "ping"}]
      BY <3>1 DEF Typed, TypeOK
    <3> QED BY <1>2, <2>1, <3>2, <3>3, <3>4
            DEF Typed, TypeOK, GetMacReturn, device, bindings
  <2>2. CASE ret_queue[c] = None
    BY <1>2, <2>2, SMTT(30) DEF Typed, TypeOK, GetMacReturn, device, bindings
  <2> QED BY <2>1, <2>2
<1>3. CASE PingPending(c)
  <2>1. queue' \in Seq(Messages)
    <3>1. [kind |-> "PingRequest", ip |-> Target[c], mac |-> mac[c], from |-> c]
            \in Messages
      BY <1>3, NetAssumption, ZenonT(30) DEF Typed, TypeOK, PingPending, Messages
    <3>2. queue \in Seq(Messages) /\ Append(queue, [kind |-> "PingRequest",
            ip |-> Target[c], mac |-> mac[c], from |-> c]) \in Seq(Messages)
      BY <3>1, QueueFacts DEF Typed
    <3> QED BY <1>3, <3>2, ZenonT(30) DEF PingPending
  <2>2. send' \in [Clients -> BOOLEAN]
    BY <1>3 DEF Typed, TypeOK, PingPending
  <2> QED BY <1>3, <2>1, <2>2, ZenonT(30) DEF Typed, TypeOK, PingPending, device, bindings
<1>4. CASE PingReady(c)
  <2>1. send' \in [Clients -> BOOLEAN] /\ returned' \in [Clients -> BOOLEAN]
    BY <1>4 DEF Typed, TypeOK, PingReady
  <2> QED BY <1>4, <2>1 DEF Typed, TypeOK, PingReady, device, bindings
<1> QED BY <1>1, <1>2, <1>3, <1>4, SMTT(30) DEF Api

\* What a step of the network delivers, if anything.
Sent(d, dst, p) ==
  /\ Deliver(d, dst, p)
  /\ dst \in Devices \cup {Broadcast, "other"}
  /\ p \in Replies \cup Unsolicited

\* The fields of a frame on the network.
LEMMA FrameFacts ==
  ASSUME NEW f \in Frames
  PROVE  /\ f.dev \in Devices
         /\ f.type = "request" => f.ip \in Addrs /\ f.server \in Servers
         /\ f.type = "arp_request" => f.ip \in Hosts
         /\ f.type = "arp_response" => f.ip \in Addrs
         /\ f.type = "echo_request" => f.ip \in Hosts
  BY DEF Frames

\* What the reply p to frame f says, and what it does to the leases.
ReplyTo(f, p) ==
  \/ p.type \in {"offer", "nak", "echo_reply"} /\ UNCHANGED leases
  \/ /\ p.type = "ack" /\ f.type = "request" /\ p.ip = f.ip
     /\ leases[f.ip] \in {None, f.dev}
     /\ leases' = [leases EXCEPT ![f.ip] = f.dev]
  \/ p.type = "arp_response" /\ p.mac = HostMac[p.ip] /\ UNCHANGED leases

\* The network answers a frame with one packet for the device that sent it.
LEMMA AnswerFacts ==
  ASSUME Typed, NEW f \in wire, Answer(f)
  PROVE  /\ f \in Frames /\ wire' \subseteq wire
         /\ \E dst, p : Sent(f.dev, dst, p) /\ ReplyTo(f, p)
<1>1. f \in Frames
  BY DEF Typed, TypeOK
<1>2. wire' \subseteq wire
  BY DEF Answer, Taken
<1>3. CASE Offer(f)
  <2>1. PICK s \in Servers, a \in Addrs :
          Deliver(f.dev, Broadcast, [type |-> "offer", xid |-> Xid, ip |-> a, server |-> s])
    BY <1>3, ZenonT(30) DEF Offer
  <2> DEFINE p == [type |-> "offer", xid |-> Xid, ip |-> a, server |-> s]
  <2>2. Sent(f.dev, Broadcast, p) /\ ReplyTo(f, p)
    BY <1>3, <2>1, ZenonT(30) DEF Offer, Sent, ReplyTo, Replies, DhcpTypes
  <2> QED BY <1>1, <1>2, <2>2, ZenonT(30)
<1>4. CASE Grant(f)
  <2> DEFINE p(t) == [type |-> t, xid |-> Xid, ip |-> f.ip, server |-> f.server]
  <2>1. /\ p("ack") \in Replies /\ p("nak") \in Replies
        /\ p("ack").type = "ack" /\ p("nak").type = "nak" /\ p("ack").ip = f.ip
    BY <1>1, <1>4, FrameFacts, ZenonT(30) DEF Grant, Replies, DhcpTypes
  <2>2. \/ Sent(f.dev, Broadcast, p("ack")) /\ ReplyTo(f, p("ack"))
        \/ Sent(f.dev, Broadcast, p("nak")) /\ ReplyTo(f, p("nak"))
    BY <1>4, <2>1, ZenonT(30) DEF Grant, Sent, ReplyTo
  <2> QED BY <1>1, <1>2, <2>2, ZenonT(30)
<1>5. CASE ResolveArp(f)
  <2> DEFINE p == [type |-> "arp_response", ip |-> f.ip, mac |-> HostMac[f.ip]]
  <2>1. Sent(f.dev, f.dev, p) /\ ReplyTo(f, p)
    BY <1>1, <1>5, FrameFacts, NetAssumption, ZenonT(30) DEF ResolveArp, Sent, ReplyTo, Replies
  <2> QED BY <1>1, <1>2, <2>1, ZenonT(30)
<1>6. CASE EchoBack(f)
  <2> DEFINE p == [type |-> "echo_reply", ip |-> f.ip]
  <2>1. Sent(f.dev, f.dev, p) /\ ReplyTo(f, p)
    BY <1>1, <1>6, FrameFacts, ZenonT(30) DEF EchoBack, Sent, ReplyTo, Replies
  <2> QED BY <1>1, <1>2, <2>1, ZenonT(30)
<1> QED BY <1>3, <1>4, <1>5, <1>6 DEF Answer

\* What is delivered is queued behind what was there.
LEMMA SentFacts ==
  ASSUME Typed, NEW d \in Devices, NEW dst, NEW p, Sent(d, dst, p)
  PROVE  /\ queue' \in Seq(Messages)
         /\ \A m \in Range(queue') :
              \/ m \in Range(queue)
              \/ \E e \in Devices : m = PacketTo(e, dst, p) /\ (e = d \/ SharedLan)
<1>1. \A e \in Devices : PacketTo(e, dst, p) \in Messages
  BY DEF Sent, PacketTo, Messages
<1> QED BY <1>1, Delivered DEF Typed, Sent

\* The network keeps the types.
LEMMA NetworkTyped == ASSUME Typed, Network PROVE Typed'
<1>1. CASE Arrive
  <2>1. PICK d \in Devices, dst \in {Broadcast, "other"}, p \in Unsolicited :
          Sent(d, dst, p)
    BY <1>1 DEF Arrive, Sent
  <2>2. queue' \in Seq(Messages)
    BY <2>1, SentFacts, ZenonT(30)
  <2> QED BY <1>1, <2>2 DEF Typed, TypeOK, Arrive, device, bindings, client
<1>2. ASSUME NEW f \in wire, Answer(f) PROVE Typed'
  <2>1. PICK dst, p : Sent(f.dev, dst, p) /\ ReplyTo(f, p)
    BY <1>2, AnswerFacts, ZenonT(30)
  <2>2. /\ f.dev \in Devices /\ (f.type = "request" => f.ip \in Addrs)
        /\ wire' \subseteq Frames
    BY <1>2, AnswerFacts, FrameFacts, ZenonT(30) DEF Typed, TypeOK
  <2>3. queue' \in Seq(Messages)
    BY <2>1, <2>2, SentFacts, ZenonT(30)
  <2>4. leases' \in [Addrs -> Devices \cup {None}]
    BY <2>1, <2>2, ZenonT(30) DEF ReplyTo, Typed, TypeOK
  <2> QED BY <1>2, <2>2, <2>3, <2>4, ZenonT(30)
          DEF Typed, TypeOK, Answer, device, bindings, client
<1>3. ASSUME NEW f \in wire, Lose(f) PROVE Typed'
  BY <1>3 DEF Typed, TypeOK, Lose, device, bindings, client
<1> QED BY <1>1, <1>2, <1>3, ZenonT(30) DEF Network

\* Every variable keeps the type the code declares, and only well-formed frames
\* and messages are on the network and in the queue.
THEOREM TypeCorrect == Spec => []Typed
<1>1. Typed /\ [Next]_vars => Typed'
  <2> SUFFICES ASSUME Typed, [Next]_vars PROVE Typed'
    OBVIOUS
  <2>1. CASE Next
    BY <2>1, RequestTyped, PacketTyped, ApiTyped, NetworkTyped, ZenonT(30)
    DEF Next, network_handler
  <2>2. CASE UNCHANGED vars
    BY <2>2, ZenonT(30) DEF vars, device, bindings, client, Typed, TypeOK
  <2> QED BY <2>1, <2>2
<1> QED BY <1>1, InitTyped, PTL DEF Spec

-----------------------------------------------------------------------------
(* The DHCP exchange.                                                      *)

\* DhcpConsistent is inductive with this: nothing happens before the start.
DhcpInv ==
  /\ DhcpConsistent
  /\ ~started => \A d \in Devices : dhcp[d].state = "Initial"

\* Whatever step is taken, the exchange of a device stays as it is, starts, or
\* takes one of the two arms of the match.
LEMMA ExchangeSteps ==
  ASSUME Typed, Next
  PROVE  \/ UNCHANGED <<started, dhcp, ip, indicator>>
         \/ Start
         \/ \E d \in Devices, a \in Addrs, s \in Servers :
              /\ dhcp[d].state = "Discover"
              /\ dhcp' = [dhcp EXCEPT ![d] = [state |-> "Requested", own_ip |-> a,
                                              server_ip |-> s]]
              /\ wire' = wire \cup {[type |-> "request", dev |-> d, ip |-> a,
                                     server |-> s]}
              /\ UNCHANGED <<started, ip, indicator, leases>>
              /\ started /\ Range(queue') \subseteq Range(queue)
         \/ \E d \in Devices :
              /\ dhcp[d].state = "Requested" /\ dhcp[d].own_ip \in Addrs
              /\ \E m \in Range(queue) :
                   /\ m \in Messages /\ m.kind = "Packet" /\ m.id = d
                   /\ m.packet.type = "ack" /\ m.packet.xid = Xid
              /\ dhcp' = [dhcp EXCEPT ![d] = [state |-> "Done"]]
              /\ ip' = [ip EXCEPT ![d] = dhcp[d].own_ip]
              /\ indicator' = [indicator EXCEPT ![d] = TRUE]
              /\ UNCHANGED <<started, wire, leases>>
              /\ started /\ Range(queue') \subseteq Range(queue)
<1> DEFINE m == Head(queue)
<1>1. CASE DhcpOffer
  <2>1. /\ m \in Messages /\ m.kind = "Packet" /\ m.id \in Devices
        /\ m.packet \in Replies \cup Unsolicited /\ started
        /\ Range(queue') \subseteq Range(queue) /\ UNCHANGED <<started, leases>>
    BY <1>1, TakeFacts, MessageFacts, ZenonT(30) DEF DhcpOffer, Receive
  <2>2. m.packet.ip \in Addrs /\ m.packet.server \in Servers
    BY <1>1, <2>1, PacketFacts, ZenonT(30) DEF DhcpOffer, OfferExpected
  <2> QED BY <1>1, <2>1, <2>2, ZenonT(30) DEF DhcpOffer, OfferExpected
<1>2. CASE DhcpAck
  <2>1. /\ m \in Messages /\ m.kind = "Packet" /\ m.id \in Devices
        /\ m \in Range(queue) /\ started
        /\ Range(queue') \subseteq Range(queue) /\ UNCHANGED <<started, leases>>
    BY <1>2, TakeFacts, MessageFacts, ZenonT(30) DEF DhcpAck, Receive
  <2>2. dhcp[m.id].state = "Requested" /\ dhcp[m.id].own_ip \in Addrs
    BY <1>2, <2>1, ZenonT(30) DEF DhcpAck, AckExpected, Typed, TypeOK, Exchange
  <2> QED BY <1>2, <2>1, <2>2, ZenonT(30) DEF DhcpAck, AckExpected
<1>3. CASE Filtered \/ Ignored \/ EchoRequest \/ DhcpUnexpected \/ ArpRequest
           \/ ArpResponse \/ EchoReply \/ SendArpRequest \/ PingRequest
  BY <1>3, ZenonT(30)
  DEF Filtered, Ignored, EchoRequest, DhcpUnexpected, ArpRequest, ArpResponse,
      EchoReply, SendArpRequest, PingRequest, Receive, Take, device
<1>4. ASSUME NEW c \in Clients, Api(c) PROVE UNCHANGED <<started, dhcp, ip, indicator>>
  BY <1>4, ZenonT(30) DEF Api, GetMac, GetMacReturn, PingPending, PingReady, device
<1>5. CASE Network
  BY <1>5, ZenonT(30) DEF Network, Arrive, Answer, Lose, device
<1> QED BY <1>1, <1>2, <1>3, <1>4, <1>5, ZenonT(30) DEF Next, network_handler, handle_packet_, Dhcp

\* A step keeps DhcpInv and takes the exchange forward.
LEMMA DhcpStep ==
  ASSUME Typed, DhcpInv, Next PROVE DhcpInv' /\ OnwardStep
<1>1. CASE UNCHANGED <<started, dhcp, ip, indicator>>
  BY <1>1, ZenonT(30) DEF DhcpInv, DhcpConsistent, OnwardStep
<1>2. CASE Start
  BY <1>2, ZenonT(30) DEF DhcpInv, DhcpConsistent, Start, OnwardStep
<1>3. ASSUME NEW d \in Devices, NEW a \in Addrs, NEW s \in Servers,
             dhcp[d].state = "Discover", started,
             dhcp' = [dhcp EXCEPT ![d] = [state |-> "Requested", own_ip |-> a,
                                          server_ip |-> s]],
             UNCHANGED <<started, ip, indicator>>
      PROVE  DhcpInv' /\ OnwardStep
  BY <1>3, ZenonT(30) DEF Typed, TypeOK, DhcpInv, DhcpConsistent, OnwardStep
<1>4. ASSUME NEW d \in Devices, dhcp[d].state = "Requested", dhcp[d].own_ip \in Addrs,
             dhcp' = [dhcp EXCEPT ![d] = [state |-> "Done"]],
             ip' = [ip EXCEPT ![d] = dhcp[d].own_ip],
             indicator' = [indicator EXCEPT ![d] = TRUE],
             started, UNCHANGED started
      PROVE  DhcpInv' /\ OnwardStep
  BY <1>4, NetAssumption, ZenonT(30) DEF Typed, TypeOK, DhcpInv, DhcpConsistent, OnwardStep
<1> QED BY <1>1, <1>2, <1>3, <1>4, ExchangeSteps, ZenonT(30)

\* DhcpInv is an invariant.
LEMMA DhcpInvariant == Spec => []DhcpInv
<1>1. Init => DhcpInv
  BY DEF Init, DhcpInv, DhcpConsistent
<1>2. Typed /\ DhcpInv /\ [Next]_vars => DhcpInv'
  <2>1. Typed /\ DhcpInv /\ Next => DhcpInv'
    BY DhcpStep
  <2>2. DhcpInv /\ UNCHANGED vars => DhcpInv'
    BY DEF vars, device, DhcpInv, DhcpConsistent
  <2> QED BY <2>1, <2>2
<1> QED BY <1>1, <1>2, TypeCorrect, PTL DEF Spec

\* A device has an address exactly when its exchange is done and its indicator
\* set, for any packets in any order.
THEOREM DhcpAlwaysConsistent == Spec => []DhcpConsistent
<1>1. DhcpInv => DhcpConsistent
  BY ZenonT(30) DEF DhcpInv
<1> QED BY <1>1, DhcpInvariant, PTL

\* The exchange of a device never goes back, and its address never changes.
THEOREM DhcpNeverBack == Spec => DhcpOnward
<1>1. Typed /\ DhcpInv /\ [Next]_vars => [OnwardStep]_vars
  BY DhcpStep
<1> QED BY <1>1, TypeCorrect, DhcpInvariant, PTL DEF Spec, DhcpOnward

-----------------------------------------------------------------------------
(* The answers to get_mac.                                                 *)

\* What a message says about MAC addresses is right.
MessageTrue(m) ==
  /\ m.kind = "SendArpRequest" => m.ip = Target[m.from]
  /\ m.kind = "Packet" /\ m.packet.type = "arp_response" =>
       m.packet.mac = HostMac[m.packet.ip]

\* MacTruthful is inductive with this: whoever is bound to a host asked for it.
MacInv ==
  /\ MacTruthful
  /\ \A h \in Hosts : arp_bindings[h] # None => Target[arp_bindings[h]] = h
  /\ \A m \in Range(queue) : MessageTrue(m)

\* A step of the handler keeps MacInv.
LEMMA MacHandlerStep == ASSUME Typed, MacInv, network_handler PROVE MacInv'
<1> DEFINE m == Head(queue)
           p == m.packet
<1>1. CASE Start
  BY <1>1, ZenonT(30) DEF MacInv, MacTruthful, Start, bindings, client
<1>2. CASE SendArpRequest
  <2>1. /\ m.ip \in Hosts /\ m.from \in Clients /\ m.ip = Target[m.from]
        /\ \A x \in Range(queue') : MessageTrue(x)
    BY <1>2, TakeFacts, MessageFacts, ZenonT(30) DEF SendArpRequest, MacInv, MessageTrue
  <2>2. arp_bindings' = [arp_bindings EXCEPT ![m.ip] = m.from]
    BY <1>2, ZenonT(30) DEF SendArpRequest
  <2> QED BY <1>2, <2>1, <2>2, ZenonT(30)
          DEF Typed, TypeOK, MacInv, MacTruthful, SendArpRequest
<1>3. CASE ArpResponse
  <2>1. /\ p.ip \in Hosts /\ p.mac = HostMac[p.ip]
        /\ \A x \in Range(queue') : MessageTrue(x)
    BY <1>3, TakeFacts, MessageFacts, PacketFacts, ZenonT(30)
    DEF ArpResponse, Receive, MacInv, MessageTrue
  <2>2. /\ ips' = [ips EXCEPT ![p.ip] = p.mac] /\ UNCHANGED mac
        /\ arp_bindings' = [arp_bindings EXCEPT ![p.ip] = None]
    BY <1>3, ZenonT(30) DEF ArpResponse, Unbind
  <2>3. \A c \in Clients : ret_queue'[c] \in {None, HostMac[Target[c]]}
    <3>1. CASE arp_bindings[p.ip] = None
      BY <3>1, <1>3, ZenonT(30) DEF ArpResponse, MacInv, MacTruthful
    <3>2. CASE arp_bindings[p.ip] # None
      <4>1. /\ arp_bindings[p.ip] \in Clients /\ Target[arp_bindings[p.ip]] = p.ip
            /\ Reply(arp_bindings[p.ip], p.mac)
        <5>1. arp_bindings[p.ip] \in Clients
          BY <3>2, <2>1, ZenonT(30) DEF Typed, TypeOK
        <5>2. Target[arp_bindings[p.ip]] = p.ip
          BY <3>2, <2>1, ZenonT(30) DEF MacInv
        <5>3. Reply(arp_bindings[p.ip], p.mac)
          BY <3>2, <1>3, ZenonT(30) DEF ArpResponse
        <5> QED BY <5>1, <5>2, <5>3
      <4> QED BY <4>1, <2>1, ZenonT(30) DEF Typed, TypeOK, MacInv, MacTruthful, Reply
    <3> QED BY <3>1, <3>2, ZenonT(30)
  <2> QED BY <2>1, <2>2, <2>3, ZenonT(30) DEF Typed, TypeOK, MacInv, MacTruthful
<1>4. CASE PingRequest \/ Filtered \/ Ignored \/ ArpRequest \/ EchoRequest
           \/ EchoReply \/ Dhcp
  <2>1. \E kind : Take(kind)
    BY <1>4, ZenonT(30)
    DEF PingRequest, Filtered, Ignored, ArpRequest, EchoRequest, EchoReply, Dhcp,
        DhcpOffer, DhcpAck, DhcpUnexpected, Receive
  <2>2. \A x \in Range(queue') : MessageTrue(x)
    BY <2>1, TakeFacts, SMTT(30) DEF MacInv
  <2>3. UNCHANGED <<arp_bindings, ips, ret_queue, mac>>
    BY <1>4, ZenonT(30)
    DEF PingRequest, Filtered, Ignored, ArpRequest, EchoRequest, EchoReply, Dhcp,
        DhcpOffer, DhcpAck, DhcpUnexpected, bindings, client
  <2> QED BY <2>2, <2>3, SMTT(30) DEF MacInv, MacTruthful
<1> QED BY <1>1, <1>2, <1>3, <1>4, ZenonT(30) DEF network_handler, handle_packet_

\* A poll of a caller keeps MacInv.
LEMMA MacApiStep == ASSUME Typed, MacInv, NEW c \in Clients, Api(c) PROVE MacInv'
<1>1. CASE GetMac(c)
  <2> DEFINE m == [kind |-> "SendArpRequest", ip |-> Target[c], from |-> c]
  <2>1. m \in Messages /\ MessageTrue(m)
    BY NetAssumption DEF Messages, MessageTrue
  <2>2. queue' = Append(queue, m) /\ UNCHANGED <<arp_bindings, ips, ret_queue, mac>>
    BY <1>1 DEF GetMac, bindings
  <2> HIDE DEF m
  <2>3. Range(queue') \subseteq Range(queue) \cup {m}
    BY <2>1, <2>2, QueueFacts, SMTT(30) DEF Typed
  <2> QED BY <2>1, <2>2, <2>3, ZenonT(30) DEF MacInv, MacTruthful
<1>2. CASE GetMacReturn(c)
  BY <1>2, ZenonT(30) DEF Typed, TypeOK, MacInv, MacTruthful, GetMacReturn, bindings
<1>3. CASE PingPending(c)
  <2> DEFINE m == [kind |-> "PingRequest", ip |-> Target[c], mac |-> mac[c],
                   from |-> c]
  <2>1. m \in Messages /\ MessageTrue(m)
    BY <1>3, NetAssumption, ZenonT(30) DEF Typed, TypeOK, PingPending, Messages, MessageTrue
  <2>2. /\ queue' = queue \/ queue' = Append(queue, m)
        /\ UNCHANGED <<arp_bindings, ips, ret_queue, mac>>
    BY <1>3, ZenonT(30) DEF PingPending, bindings
  <2> HIDE DEF m
  <2>3. Range(queue') \subseteq Range(queue) \cup {m}
    BY <2>1, <2>2, QueueFacts, ZenonT(30) DEF Typed
  <2> QED BY <2>1, <2>2, <2>3, ZenonT(30) DEF MacInv, MacTruthful
<1>4. CASE PingReady(c)
  BY <1>4 DEF MacInv, MacTruthful, PingReady, bindings
<1> QED BY <1>1, <1>2, <1>3, <1>4, ZenonT(30) DEF Api

\* The network keeps MacInv: hosts answer with their own address.
LEMMA MacNetworkStep == ASSUME Typed, MacInv, Network PROVE MacInv'
<1>1. UNCHANGED <<arp_bindings, ips, ret_queue, mac>>
  BY ZenonT(30) DEF Network, Arrive, Answer, Lose, bindings, client
<1>2. ASSUME NEW d \in Devices, NEW dst, NEW p, Sent(d, dst, p),
             p.type = "arp_response" => p.mac = HostMac[p.ip]
      PROVE  \A x \in Range(queue') : MessageTrue(x)
  <2>1. \A e \in Devices : MessageTrue(PacketTo(e, dst, p))
    BY <1>2, ZenonT(30) DEF MessageTrue, PacketTo
  <2> QED BY <1>2, <2>1, SentFacts DEF MacInv
<1>3. CASE Arrive
  <2>1. PICK d \in Devices, dst \in {Broadcast, "other"}, p \in Unsolicited :
          Sent(d, dst, p)
    BY <1>3 DEF Arrive, Sent
  <2>2. p.type = "arp_response" => p.mac = HostMac[p.ip]
    BY UnsolicitedAssumption, ZenonT(30)
  <2> QED BY <1>1, <1>2, <2>1, <2>2 DEF MacInv, MacTruthful
<1>4. ASSUME NEW f \in wire, Answer(f) PROVE MacInv'
  <2>1. PICK dst, p : Sent(f.dev, dst, p) /\ ReplyTo(f, p)
    BY <1>4, AnswerFacts, ZenonT(30)
  <2>2. f.dev \in Devices /\ (p.type = "arp_response" => p.mac = HostMac[p.ip])
    BY <2>1, FrameFacts, ZenonT(30) DEF ReplyTo, Typed, TypeOK
  <2> QED BY <1>1, <1>2, <2>1, <2>2, ZenonT(30) DEF MacInv, MacTruthful
<1>5. ASSUME NEW f \in wire, Lose(f) PROVE MacInv'
  BY <1>1, <1>5, ZenonT(30) DEF MacInv, MacTruthful, Lose
<1> QED BY <1>3, <1>4, <1>5 DEF Network

\* Every caller of get_mac is answered with the address of the host it asked
\* for, for any number of callers and however the answers are mixed.
THEOREM MacAlwaysTruthful == Spec => []MacTruthful
<1>1. Init => MacInv
  BY DEF Init, MacInv, MacTruthful, Range
<1>2. Typed /\ MacInv /\ [Next]_vars => MacInv'
  <2>1. Typed /\ MacInv /\ Next => MacInv'
    BY MacHandlerStep, MacApiStep, MacNetworkStep, ZenonT(30) DEF Next
  <2>2. MacInv /\ UNCHANGED vars => MacInv'
    BY DEF vars, bindings, client, MacInv, MacTruthful
  <2> QED BY <2>1, <2>2
<1>3. MacInv => MacTruthful
  BY DEF MacInv
<1> QED BY <1>1, <1>2, <1>3, TypeCorrect, PTL DEF Spec

-----------------------------------------------------------------------------
(* The leases, when each device is on a network of its own.                *)

\* The address that device d has asked a server for, or has got.
Claimed(d, a) ==
  \/ dhcp[d].state = "Requested" /\ dhcp[d].own_ip = a
  \/ dhcp[d].state = "Done" /\ ip[d] = a

\* An acknowledgement is for the device that it was granted to.
AckTrue(m) ==
  m.kind = "Packet" /\ m.packet.type = "ack" /\ m.packet.xid = Xid =>
    leases[m.packet.ip] = m.id /\ Claimed(m.id, m.packet.ip)

\* LeaseHeld is inductive with this: a device asks for one address only, so an
\* acknowledgement is always for the address that the device asked for.
LeaseInv ==
  /\ LeaseHeld
  /\ \A f \in wire : f.type = "request" => Claimed(f.dev, f.ip)
  /\ \A m \in Range(queue) : AckTrue(m)

\* A step of the exchange of a device keeps LeaseInv.
LEMMA LeaseExchangeStep ==
  ASSUME Typed, DhcpInv, LeaseInv, Next, ~UNCHANGED <<started, dhcp, ip, indicator>>
  PROVE  LeaseInv'
<1>1. CASE Start
  <2>1. \A d \in Devices : \A a : ~Claimed(d, a)
    BY <1>1 DEF Start, DhcpInv, Claimed
  <2>2. \A f \in wire : f.type # "request"
    BY <2>1, FrameFacts, ZenonT(30) DEF LeaseInv, Typed, TypeOK
  <2>3. \A m \in Range(queue) : AckTrue(m)'
    <3> SUFFICES ASSUME NEW m \in Range(queue), m.kind = "Packet",
                        m.packet.type = "ack", m.packet.xid = Xid
                 PROVE  FALSE
      BY DEF AckTrue
    <3>1. m.id \in Devices
      BY MessageFacts, RangeOfSeq DEF Typed
    <3> QED BY <3>1, <2>1, ZenonT(30) DEF LeaseInv, AckTrue
  <2>4. \A f \in wire' : f \in wire \/ f.type = "discover"
    BY <1>1 DEF Start
  <2>5. LeaseHeld'
    BY <1>1, <2>4 DEF Start, LeaseInv, LeaseHeld
  <2> QED BY <1>1, <2>2, <2>3, <2>4, <2>5, ZenonT(30) DEF Start, LeaseInv
<1>2. ASSUME NEW d \in Devices, NEW a \in Addrs, NEW s \in Servers,
             dhcp[d].state = "Discover",
             dhcp' = [dhcp EXCEPT ![d] = [state |-> "Requested", own_ip |-> a,
                                          server_ip |-> s]],
             wire' = wire \cup {[type |-> "request", dev |-> d, ip |-> a,
                                 server |-> s]},
             UNCHANGED <<started, ip, indicator, leases>>,
             Range(queue') \subseteq Range(queue)
      PROVE  LeaseInv'
  <2>1. /\ dhcp'[d].state = "Requested" /\ dhcp'[d].own_ip = a
        /\ \A e \in Devices : e # d => dhcp'[e] = dhcp[e]
    BY <1>2 DEF Typed, TypeOK
  <2>2. \A e \in Devices, b \in Addrs : Claimed(e, b) => Claimed(e, b)'
    BY <1>2, <2>1, ZenonT(30) DEF Claimed
  <2>3. LeaseHeld'
    BY <1>2, SMTT(30) DEF LeaseInv, LeaseHeld
  <2>4. \A f \in wire' : f.type = "request" => Claimed(f.dev, f.ip)'
    BY <1>2, <2>1, <2>2, FrameFacts DEF LeaseInv, Claimed, Typed, TypeOK
  <2>5. \A m \in Range(queue') : AckTrue(m)'
    <3> SUFFICES ASSUME NEW m \in Range(queue), m.kind = "Packet",
                        m.packet.type = "ack", m.packet.xid = Xid
                 PROVE  leases[m.packet.ip] = m.id /\ Claimed(m.id, m.packet.ip)'
      BY <1>2, ZenonT(30) DEF AckTrue
    <3>1. m.id \in Devices /\ m.packet.ip \in Addrs
      BY MessageFacts, PacketFacts, RangeOfSeq DEF Typed
    <3> QED BY <3>1, <2>2, ZenonT(30) DEF LeaseInv, AckTrue
  <2> QED BY <2>3, <2>4, <2>5 DEF LeaseInv
<1>3. ASSUME NEW d \in Devices, dhcp[d].state = "Requested", dhcp[d].own_ip \in Addrs,
             NEW n \in Range(queue), n \in Messages, n.kind = "Packet", n.id = d,
             n.packet.type = "ack", n.packet.xid = Xid,
             dhcp' = [dhcp EXCEPT ![d] = [state |-> "Done"]],
             ip' = [ip EXCEPT ![d] = dhcp[d].own_ip],
             UNCHANGED <<wire, leases>>,
             Range(queue') \subseteq Range(queue)
      PROVE  LeaseInv'
  <2>1. leases[dhcp[d].own_ip] = d
    BY <1>3, ZenonT(30) DEF LeaseInv, AckTrue, Claimed
  <2>2. /\ dhcp'[d].state = "Done" /\ ip'[d] = dhcp[d].own_ip
        /\ \A e \in Devices : e # d => dhcp'[e] = dhcp[e] /\ ip'[e] = ip[e]
    BY <1>3, ZenonT(30) DEF Typed, TypeOK
  <2>3. \A e \in Devices, b \in Addrs : Claimed(e, b) => Claimed(e, b)'
    BY <1>3, <2>2, ZenonT(30) DEF Claimed
  <2>4. LeaseHeld'
    BY <1>3, <2>1, <2>2, ZenonT(30) DEF LeaseInv, LeaseHeld
  <2>5. \A f \in wire' : f.type = "request" => Claimed(f.dev, f.ip)'
    BY <1>3, <2>3, FrameFacts, ZenonT(30) DEF LeaseInv, Typed, TypeOK
  <2>6. \A m \in Range(queue') : AckTrue(m)'
    <3> SUFFICES ASSUME NEW m \in Range(queue), m.kind = "Packet",
                        m.packet.type = "ack", m.packet.xid = Xid
                 PROVE  leases[m.packet.ip] = m.id /\ Claimed(m.id, m.packet.ip)'
      BY <1>3, ZenonT(30) DEF AckTrue
    <3>1. m.id \in Devices /\ m.packet.ip \in Addrs
      BY MessageFacts, PacketFacts, RangeOfSeq, ZenonT(30) DEF Typed
    <3> QED BY <3>1, <2>3, ZenonT(30) DEF LeaseInv, AckTrue
  <2> QED BY <2>4, <2>5, <2>6 DEF LeaseInv
<1> QED BY <1>1, <1>2, <1>3, ExchangeSteps, ZenonT(30)

\* What keeps LeaseInv when the exchanges stand still: an address once leased
\* stays with its device, and new frames and messages are sound.
LEMMA LeaseKept ==
  ASSUME Typed, LeaseInv, UNCHANGED <<dhcp, ip>>,
         \A a \in Addrs : leases[a] # None => leases'[a] = leases[a],
         \A f \in wire' : \/ f \in wire
                          \/ f.type \notin {"request", "arp_response"}
                          \/ f.type = "arp_response" /\ leases'[f.ip] = f.dev,
         \A m \in Range(queue') : m \in Range(queue) \/ AckTrue(m)'
  PROVE  LeaseInv'
<1>1. \A d, a : Claimed(d, a)' <=> Claimed(d, a)
  BY ZenonT(30) DEF Claimed
<1>2. LeaseHeld'
  <2>1. \A d \in Devices : ip[d] # None => leases'[ip[d]] = d
    BY NetAssumption DEF Typed, TypeOK, LeaseInv, LeaseHeld
  <2>2. ASSUME NEW f \in wire, f.type = "arp_response" PROVE leases'[f.ip] = f.dev
    <3>1. f \in Frames
      BY Zenon DEF Typed, TypeOK
    <3>2. f.ip \in Addrs /\ f.dev \in Devices /\ leases[f.ip] = f.dev
      BY <2>2, <3>1, FrameFacts, Zenon DEF LeaseInv, LeaseHeld
    <3>3. f.dev # None
      BY <3>2, NetAssumption, Zenon
    <3> QED BY <3>2, <3>3, Zenon
  <2> QED BY <2>1, <2>2 DEF LeaseHeld
<1>3. \A f \in wire' : f.type = "request" => Claimed(f.dev, f.ip)'
  BY <1>1, ZenonT(30) DEF LeaseInv
<1>4. \A m \in Range(queue') : AckTrue(m)'
  <2>1. ASSUME NEW m \in Range(queue), m.kind = "Packet",
               m.packet.type = "ack", m.packet.xid = Xid
        PROVE  leases'[m.packet.ip] = m.id /\ Claimed(m.id, m.packet.ip)'
    <3>1. m.id \in Devices /\ m.packet.ip \in Addrs
      BY <2>1, MessageFacts, PacketFacts, RangeOfSeq DEF Typed
    <3> QED BY <2>1, <3>1, <1>1, NetAssumption DEF LeaseInv, AckTrue
  <2> QED BY <2>1, ZenonT(30) DEF AckTrue
<1> QED BY <1>2, <1>3, <1>4, ZenonT(30) DEF LeaseInv

\* A step that leaves the exchanges alone keeps LeaseInv.
LEMMA LeaseOtherStep ==
  ASSUME ~SharedLan, Typed, LeaseInv, Next, UNCHANGED <<started, dhcp, ip, indicator>>
  PROVE  LeaseInv'
<1>1. CASE network_handler
  <2>1. CASE ~Start
    <3>1. PICK kind : Take(kind)
      BY <1>1, <2>1, ZenonT(30)
      DEF network_handler, handle_packet_, Dhcp, SendArpRequest, PingRequest,
          Filtered, Ignored, ArpRequest, ArpResponse, EchoRequest, EchoReply,
          DhcpOffer, DhcpAck, DhcpUnexpected, Receive
    <3>2. Range(queue') \subseteq Range(queue) /\ UNCHANGED leases
      BY <3>1, TakeFacts
    <3>3. CASE ArpRequest
      <4>1. Head(queue).id \in Devices
        BY <3>3, TakeFacts, MessageFacts, ZenonT(30) DEF ArpRequest, Receive
      <4>2. \A f \in wire' : \/ f \in wire
                             \/ f.type = "arp_response" /\ leases[f.ip] = f.dev
        <5> DEFINE d == Head(queue).id
        <5>1. \/ wire' = wire
              \/ /\ ip[d] # None
                 /\ wire' = wire \cup {[type |-> "arp_response", dev |-> d, ip |-> ip[d]]}
          BY <3>3, ZenonT(30) DEF ArpRequest
        <5>2. ip[d] # None => leases[ip[d]] = d
          BY <4>1, ZenonT(30) DEF LeaseInv, LeaseHeld
        <5>3. ASSUME NEW f \in wire', f \notin wire
              PROVE  f.type = "arp_response" /\ leases[f.ip] = f.dev
          <6>1. ip[d] # None /\ f = [type |-> "arp_response", dev |-> d, ip |-> ip[d]]
            BY <5>1, <5>3, ZenonT(30)
          <6>2. f.type = "arp_response" /\ f.ip = ip[d] /\ f.dev = d
            BY <6>1, ZenonT(30)
          <6> QED BY <6>1, <6>2, <5>2, ZenonT(30)
        <5> QED BY <5>3
      <4> QED BY <3>2, <4>2, LeaseKept
    <3>4. CASE ~ArpRequest
      <4>1. CASE DhcpOffer
        <5>1. Head(queue).id \in Devices
          BY <4>1, TakeFacts, MessageFacts, ZenonT(30) DEF DhcpOffer, Receive
        <5>2. dhcp[Head(queue).id].state = "Discover"
          BY <4>1, ZenonT(30) DEF DhcpOffer, OfferExpected
        <5>3. dhcp'[Head(queue).id].state = "Requested"
          <6>1. \E a, b : dhcp' = [dhcp EXCEPT ![Head(queue).id] =
                                     [state |-> "Requested", own_ip |-> a, server_ip |-> b]]
            BY <4>1, ZenonT(30) DEF DhcpOffer
          <6>2. DOMAIN dhcp = Devices
            BY ZenonT(30) DEF Typed, TypeOK
          <6> QED BY <5>1, <6>1, <6>2
        <5> QED BY <5>2, <5>3, ZenonT(30)
      <4>2. CASE ~DhcpOffer
        <5>1. \A f \in wire' : f \in wire \/ f.type \notin {"request", "arp_response"}
          <6>1. CASE SendArpRequest
            BY <6>1 DEF SendArpRequest
          <6>2. CASE PingRequest
            BY <6>2, SMTT(30) DEF PingRequest
          <6>3. CASE handle_packet_
            BY <6>3, <3>4, <4>2, ZenonT(30)
            DEF handle_packet_, Dhcp, Filtered, Ignored, ArpResponse, EchoRequest,
                EchoReply, DhcpAck, DhcpUnexpected
          <6> QED BY <1>1, <2>1, <6>1, <6>2, <6>3, ZenonT(30) DEF network_handler
        <5> QED BY <3>2, <5>1, LeaseKept, ZenonT(30)
      <4> QED BY <4>1, <4>2
    <3> QED BY <3>3, <3>4, SMTT(30)
  <2>2. CASE Start
    <3>1. \A f \in wire' : f \in wire \/ f.type = "discover"
      BY <2>2 DEF Start
    <3> QED BY <2>2, <3>1, LeaseKept, ZenonT(30) DEF Start
  <2> QED BY <2>1, <2>2
<1>2. ASSUME NEW c \in Clients, Api(c) PROVE LeaseInv'
  <2>1. UNCHANGED <<wire, leases>>
    BY <1>2, ZenonT(30) DEF Api, GetMac, GetMacReturn, PingPending, PingReady
  <2>2. \/ queue' = queue
        \/ \E m \in Messages : m.kind # "Packet" /\ queue' = Append(queue, m)
    <3>1. CASE GetMac(c)
      <4> DEFINE m == [kind |-> "SendArpRequest", ip |-> Target[c], from |-> c]
      <4>1. m \in Messages /\ m.kind # "Packet"
        BY NetAssumption, ZenonT(30) DEF Messages
      <4>2. queue' = Append(queue, m)
        BY <3>1 DEF GetMac
      <4> QED BY <4>1, <4>2
    <3>2. CASE PingPending(c)
      <4> DEFINE m == [kind |-> "PingRequest", ip |-> Target[c], mac |-> mac[c],
                       from |-> c]
      <4>1. m \in Messages /\ m.kind # "Packet"
        BY <3>2, NetAssumption, ZenonT(30) DEF Typed, TypeOK, PingPending, Messages
      <4>2. queue' = queue \/ queue' = Append(queue, m)
        BY <3>2, ZenonT(30) DEF PingPending
      <4> QED BY <4>1, <4>2, ZenonT(30)
    <3>3. CASE GetMacReturn(c) \/ PingReady(c)
      BY <3>3, ZenonT(30) DEF GetMacReturn, PingReady
    <3> QED BY <1>2, <3>1, <3>2, <3>3 DEF Api
  <2>3. ASSUME NEW m \in Messages, m.kind # "Packet", queue' = Append(queue, m)
        PROVE  LeaseInv'
    <3>1. Range(queue') \subseteq Range(queue) \cup {m}
      BY <2>3, QueueFacts, ZenonT(30) DEF Typed
    <3>2. AckTrue(m)'
      BY <2>3, ZenonT(30) DEF AckTrue
    <3> QED BY <2>1, <3>1, <3>2, LeaseKept, ZenonT(30)
  <2>4. CASE queue' = queue
    BY <2>1, <2>4, LeaseKept
  <2> QED BY <2>2, <2>3, <2>4, ZenonT(30)
<1>3. CASE Arrive
  <2>1. PICK d \in Devices, dst \in {Broadcast, "other"}, p \in Unsolicited :
          Sent(d, dst, p)
    BY <1>3, ZenonT(30) DEF Arrive, Sent
  <2>2. \A e \in Devices : AckTrue(PacketTo(e, dst, p))'
    BY UnsolicitedAssumption, ZenonT(30) DEF AckTrue, PacketTo
  <2>3. \A m \in Range(queue') : m \in Range(queue) \/ AckTrue(m)'
    BY <2>1, <2>2, SentFacts
  <2> QED BY <1>3, <2>3, LeaseKept DEF Arrive
<1>4. ASSUME NEW f \in wire, Answer(f) PROVE LeaseInv'
  <2>1. PICK dst, p : Sent(f.dev, dst, p) /\ ReplyTo(f, p)
    BY <1>4, AnswerFacts
  <2>2. /\ f.dev \in Devices /\ wire' \subseteq wire
        /\ f.type = "request" => f.ip \in Addrs /\ Claimed(f.dev, f.ip)
    BY <1>4, AnswerFacts, FrameFacts, ZenonT(30) DEF LeaseInv
  <2>3. \A a \in Addrs : leases[a] # None => leases'[a] = leases[a]
    BY <2>1, <2>2, ZenonT(30) DEF ReplyTo, Typed, TypeOK
  <2>4. AckTrue(PacketTo(f.dev, dst, p))'
    <3>1. p.type = "ack" => /\ p.ip = f.ip /\ f.type = "request"
                            /\ leases'[f.ip] = f.dev
      BY <2>1, <2>2, ZenonT(30) DEF ReplyTo, Typed, TypeOK
    <3>2. Claimed(f.dev, f.ip) => Claimed(f.dev, f.ip)'
      BY DEF Claimed
    <3> QED BY <3>1, <3>2, <2>2, ZenonT(30) DEF AckTrue, PacketTo
  <2>5. \A m \in Range(queue') : m \in Range(queue) \/ AckTrue(m)'
    BY <2>1, <2>2, <2>4, SentFacts, ZenonT(60)
  <2> QED BY <2>2, <2>3, <2>5, LeaseKept
<1>5. ASSUME NEW f \in wire, Lose(f) PROVE LeaseInv'
  BY <1>5, LeaseKept, ZenonT(30) DEF Lose
<1> QED BY <1>1, <1>2, <1>3, <1>4, <1>5 DEF Next, Network

\* When each device is on a network of its own, the address that a device uses
\* or claims was leased to it, for any number of devices, servers and
\* addresses, with messages lost, duplicated and reordered.
THEOREM LeaseAlwaysHeld == ASSUME ~SharedLan PROVE Spec => []LeaseHeld
<1>1. Init => LeaseInv
  BY DEF Init, LeaseInv, LeaseHeld, Range
<1>2. Typed /\ DhcpInv /\ LeaseInv /\ [Next]_vars => LeaseInv'
  <2>1. Typed /\ DhcpInv /\ LeaseInv /\ Next => LeaseInv'
    BY LeaseExchangeStep, LeaseOtherStep, ZenonT(30)
  <2>2. LeaseInv /\ UNCHANGED vars => LeaseInv'
    BY ZenonT(30) DEF vars, device, LeaseInv, LeaseHeld, AckTrue, Claimed
  <2> QED BY <2>1, <2>2
<1>3. LeaseInv => LeaseHeld
  BY DEF LeaseInv
<1> QED BY <1>1, <1>2, <1>3, TypeCorrect, DhcpInvariant, PTL DEF Spec

-----------------------------------------------------------------------------
(* Where the calls are, when each caller has a host of its own.            *)

\* The requests of one kind that caller c has in a queue.
QueuedIn(q, kind, c) ==
  {i \in 1..Len(q) : q[i].kind = kind /\ q[i].from = c}

AtMostOne(S) == \A i, j \in S : i = j

\* A call is in at most one of three places: its request is queued, its listener
\* is bound, or its answer is there.
InOnePlace(queued, bound, answered) ==
  /\ AtMostOne(queued)
  /\ ~(queued # {} /\ bound) /\ ~(queued # {} /\ answered) /\ ~(bound /\ answered)

\* PingTracked needs this in addition: a ping is bound to the target it was
\* meant for, as MacInv says of the listeners of get_mac.
PingInv ==
  /\ \A h \in Hosts : ping_bindings[h] # None => Target[ping_bindings[h]] = h
  /\ \A m \in Range(queue) : m.kind = "PingRequest" => m.ip = Target[m.from]

\* Where the call of get_mac of caller c is: nowhere before the call, and with
\* its answer once the caller has gone on.
MacPlaced(c) ==
  LET queued == QueuedIn(queue, "SendArpRequest", c)
      bound == arp_bindings[Target[c]] = c
      answered == ret_queue[c] # None
  IN  /\ InOnePlace(queued, bound, answered)
      /\ call[c] = "start" <=> queued = {} /\ ~bound /\ ~answered
      /\ call[c] = "ping" => answered

\* Where the ping of caller c is, once it was asked for.
PingPlaced(c) ==
  LET queued == QueuedIn(queue, "PingRequest", c)
      bound == ping_bindings[Target[c]] = c
  IN  /\ InOnePlace(queued, bound, returned[c])
      /\ send[c] <=> queued # {} \/ bound \/ returned[c]

\* The requests of one kind that are queued, when a message is put behind them.
LEMMA AppendQueued ==
  ASSUME Typed, NEW m \in Messages, queue' = Append(queue, m), NEW k, NEW c
  PROVE  QueuedIn(queue', k, c) = IF m.kind = k /\ m.from = c
                             THEN QueuedIn(queue, k, c) \cup {Len(queue) + 1}
                             ELSE QueuedIn(queue, k, c)
<1>1. /\ Len(queue) \in Nat /\ Len(queue') = Len(queue) + 1
      /\ \A i \in 1..Len(queue) : queue'[i] = queue[i]
      /\ queue'[Len(queue) + 1] = m
  BY DEF Typed
<1> QED BY <1>1 DEF QueuedIn

\* What remains of them when the handler takes the oldest message.
LEMMA TakeQueued ==
  ASSUME Typed, NEW kind, Take(kind), NEW k, NEW c, AtMostOne(QueuedIn(queue, k, c))
  PROVE  /\ AtMostOne(QueuedIn(queue', k, c))
         /\ QueuedIn(queue', k, c) = {} <=>
              \/ QueuedIn(queue, k, c) = {}
              \/ kind = k /\ Head(queue).from = c
<1>1. /\ Len(queue) \in Nat \ {0} /\ Head(queue) = queue[1]
      /\ Len(queue') = Len(queue) - 1 /\ queue[1].kind = kind
      /\ \A i \in 1..Len(queue) - 1 : queue'[i] = queue[i + 1]
  BY DEF Typed, Take
<1>2. \A i \in Nat : i \in QueuedIn(queue', k, c) <=> i >= 1 /\ i + 1 \in QueuedIn(queue, k, c)
  BY <1>1 DEF QueuedIn
<1>3. 1 \in QueuedIn(queue, k, c) <=> kind = k /\ Head(queue).from = c
  BY <1>1 DEF QueuedIn
<1>4. /\ \A i \in QueuedIn(queue, k, c) : i \in Nat /\ i >= 1
      /\ \A i \in QueuedIn(queue', k, c) : i \in Nat /\ i >= 1
  BY <1>1 DEF QueuedIn
<1>5. AtMostOne(QueuedIn(queue', k, c))
  <2> SUFFICES ASSUME NEW i \in QueuedIn(queue', k, c), NEW j \in QueuedIn(queue', k, c) PROVE i = j
    BY DEF AtMostOne
  <2>1. i \in Nat /\ j \in Nat
    BY <1>4
  <2>2. i + 1 = j + 1
    BY <1>2, <2>1 DEF AtMostOne
  <2> QED BY <2>1, <2>2
<1>6. ASSUME QueuedIn(queue', k, c) = {}, NEW i \in QueuedIn(queue, k, c) PROVE i = 1
  <2>1. i \in Nat /\ i >= 1
    BY <1>4
  <2>2. CASE i # 1
    <3>1. i - 1 \in Nat /\ i - 1 >= 1 /\ (i - 1) + 1 = i
      BY <2>1, <2>2
    <3> QED BY <1>2, <1>6, <3>1
  <2> QED BY <2>2
<1>7. ASSUME 1 \in QueuedIn(queue, k, c), NEW i \in QueuedIn(queue', k, c) PROVE FALSE
  <2>1. i \in Nat /\ i >= 1 /\ i + 1 \in QueuedIn(queue, k, c)
    BY <1>2, <1>4
  <2>2. i + 1 = 1
    BY <2>1, <1>7 DEF AtMostOne
  <2> QED BY <2>1, <2>2
<1>8. ASSUME NEW i \in QueuedIn(queue', k, c) PROVE QueuedIn(queue, k, c) # {}
  BY <1>2, <1>4
<1> QED BY <1>3, <1>5, <1>6, <1>7, <1>8, Zenon

\* The positions of one queue put behind another.
LEMMA ConcatIndex ==
  ASSUME NEW S, NEW s \in Seq(S), NEW t \in Seq(S)
  PROVE  /\ Len(s) \in Nat /\ Len(t) \in Nat /\ Len(s \o t) = Len(s) + Len(t)
         /\ \A i \in 1..Len(s) : (s \o t)[i] = s[i]
         /\ \A i \in Len(s) + 1..Len(s) + Len(t) :
              i - Len(s) \in 1..Len(t) /\ (s \o t)[i] = t[i - Len(s)]
  OBVIOUS

\* The network queues packets only.
LEMMA SentQueued ==
  ASSUME Typed, NEW d \in Devices, NEW dst, NEW p, Sent(d, dst, p), NEW k, NEW c,
         k # "Packet"
  PROVE  QueuedIn(queue', k, c) = QueuedIn(queue, k, c)
<1> DEFINE reached == {e \in Devices : e = d \/ (SharedLan /\ dst = Broadcast)}
           n == Cardinality(reached)
<1>1. n \in Nat
  BY NetAssumption
<1>2. PICK order \in Injection(1..n, reached) :
        queue' = queue \o [i \in 1..n |-> PacketTo(order[i], dst, p)]
  BY ZenonT(30) DEF Sent, Deliver
<1> DEFINE more == [i \in 1..n |-> PacketTo(order[i], dst, p)]
<1>3. \A i \in 1..n : more[i].kind = "Packet"
  BY DEF PacketTo
<1>4. more \in Seq(Messages) /\ Len(more) = n
  <2>1. \A i \in 1..n : more[i] \in Messages
    BY <1>2, ZenonT(30) DEF Sent, PacketTo, Messages, Injection
  <2>2. more \in [1..n -> Messages]
    BY <2>1
  <2> HIDE DEF more, n
  <2> QED BY <2>2, <1>1
<1>5. queue' = queue \o more
  BY <1>2
<1> HIDE DEF more, n
<1>6. /\ Len(queue) \in Nat /\ Len(queue') = Len(queue) + n
      /\ \A i \in 1..Len(queue) : queue'[i] = queue[i]
  <2>1. queue \in Seq(Messages)
    BY ZenonT(30) DEF Typed
  <2> QED BY <1>1, <1>4, <1>5, <2>1, ConcatIndex, ZenonT(30)
<1>7. ASSUME NEW i \in 1..Len(queue) + n, i > Len(queue)
      PROVE  queue'[i].kind = "Packet"
  <2>1. i - Len(queue) \in 1..n /\ queue'[i] = more[i - Len(queue)]
    <3>1. queue \in Seq(Messages)
      BY ZenonT(30) DEF Typed
    <3>2. Len(more) = n /\ i \in Len(queue) + 1..Len(queue) + n
      BY <1>1, <1>4, <1>6, <1>7
    <3> QED BY <1>4, <1>5, <3>1, <3>2, ConcatIndex, ZenonT(30)
  <2> QED BY <1>3, <2>1, ZenonT(30)
<1> QED BY <1>1, <1>6, <1>7 DEF QueuedIn

-----------------------------------------------------------------------------
(* A ping is bound to the host that it was meant for.                      *)

\* A step of the handler keeps PingInv.
LEMMA PingHandlerStep == ASSUME Typed, PingInv, network_handler PROVE PingInv'
<1> DEFINE m == Head(queue)
<1>1. CASE Start
  BY <1>1, ZenonT(30) DEF PingInv, Start, bindings
<1>2. CASE PingRequest
  <2>1. /\ m.ip \in Hosts /\ m.from \in Clients /\ m.ip = Target[m.from]
        /\ Range(queue') \subseteq Range(queue)
    BY <1>2, TakeFacts, MessageFacts, ZenonT(30) DEF PingRequest, PingInv
  <2>2. ping_bindings' = [ping_bindings EXCEPT ![m.ip] = m.from]
    BY <1>2, ZenonT(30) DEF PingRequest
  <2> QED BY <2>1, <2>2, ZenonT(30) DEF Typed, TypeOK, PingInv
<1>3. CASE EchoReply
  <2>1. m.packet.ip \in Hosts /\ Range(queue') \subseteq Range(queue)
    BY <1>3, TakeFacts, MessageFacts, PacketFacts, ZenonT(30) DEF EchoReply, Receive
  <2>2. ping_bindings' = [ping_bindings EXCEPT ![m.packet.ip] = None]
    BY <1>3, ZenonT(30) DEF EchoReply, Unbind
  <2> QED BY <2>1, <2>2, ZenonT(30) DEF Typed, TypeOK, PingInv
<1>4. CASE SendArpRequest \/ Filtered \/ Ignored \/ ArpRequest \/ ArpResponse
           \/ EchoRequest \/ Dhcp
  <2>1. \E kind : Take(kind)
    BY <1>4, ZenonT(30)
    DEF SendArpRequest, Filtered, Ignored, ArpRequest, ArpResponse, EchoRequest,
        Dhcp, DhcpOffer, DhcpAck, DhcpUnexpected, Receive
  <2>2. Range(queue') \subseteq Range(queue)
    BY <2>1, TakeFacts
  <2>3. UNCHANGED ping_bindings
    BY <1>4, ZenonT(30)
    DEF SendArpRequest, Filtered, Ignored, ArpRequest, ArpResponse, EchoRequest,
        Dhcp, DhcpOffer, DhcpAck, DhcpUnexpected, bindings
  <2> QED BY <2>2, <2>3 DEF PingInv
<1> QED BY <1>1, <1>2, <1>3, <1>4, ZenonT(30) DEF network_handler, handle_packet_

\* What a poll of a caller puts in the queue.
LEMMA ApiQueue ==
  ASSUME Typed, NEW c \in Clients, Api(c)
  PROVE  \/ queue' = queue
         \/ \E m \in Messages : /\ m.kind \in {"SendArpRequest", "PingRequest"}
                                /\ m.from = c /\ m.ip = Target[c]
                                /\ queue' = Append(queue, m)
                                /\ m.kind = "SendArpRequest" <=> GetMac(c)
<1>1. CASE GetMac(c)
  <2> DEFINE m == [kind |-> "SendArpRequest", ip |-> Target[c], from |-> c]
  <2>1. m \in Messages /\ m.kind = "SendArpRequest" /\ m.from = c /\ m.ip = Target[c]
    BY NetAssumption, ZenonT(30) DEF Messages
  <2>2. queue' = Append(queue, m)
    BY <1>1, ZenonT(30) DEF GetMac
  <2> QED BY <1>1, <2>1, <2>2, ZenonT(30)
<1>2. CASE PingPending(c)
  <2> DEFINE m == [kind |-> "PingRequest", ip |-> Target[c], mac |-> mac[c],
                   from |-> c]
  <2>1. m \in Messages /\ m.kind = "PingRequest" /\ m.from = c /\ m.ip = Target[c]
    BY <1>2, NetAssumption, ZenonT(30) DEF Typed, TypeOK, PingPending, Messages
  <2>2. (queue' = queue \/ queue' = Append(queue, m)) /\ call[c] # "start"
    BY <1>2, ZenonT(30) DEF PingPending
  <2>3. ~GetMac(c)
    BY <2>2, ZenonT(30) DEF GetMac
  <2> QED BY <2>1, <2>2, <2>3, ZenonT(30)
<1>3. CASE GetMacReturn(c) \/ PingReady(c)
  BY <1>3, ZenonT(30) DEF GetMacReturn, PingReady
<1> QED BY <1>1, <1>2, <1>3, ZenonT(30) DEF Api

\* Every step keeps PingInv.
LEMMA PingInvStep == ASSUME Typed, PingInv, Next PROVE PingInv'
<1>1. ASSUME NEW c \in Clients, Api(c) PROVE PingInv'
  <2>1. UNCHANGED ping_bindings
    BY <1>1, ZenonT(30) DEF Api, GetMac, GetMacReturn, PingPending, PingReady, bindings
  <2>2. ASSUME NEW m \in Messages, m.from = c, m.ip = Target[c], queue' = Append(queue, m)
        PROVE  PingInv'
    <3>1. Range(queue') \subseteq Range(queue) \cup {m}
      BY <2>2, QueueFacts DEF Typed
    <3> QED BY <2>1, <2>2, <3>1, ZenonT(30) DEF PingInv
  <2>3. CASE queue' = queue
    BY <2>1, <2>3, ZenonT(30) DEF PingInv
  <2>4. \/ queue' = queue
        \/ \E m \in Messages : m.from = c /\ m.ip = Target[c] /\ queue' = Append(queue, m)
    BY <1>1, ApiQueue, ZenonT(30)
  <2> QED BY <2>2, <2>3, <2>4, ZenonT(30)
<1>2. ASSUME NEW d \in Devices, NEW dst, NEW p, Sent(d, dst, p), UNCHANGED ping_bindings
      PROVE  PingInv'
  <2>1. \A e \in Devices : PacketTo(e, dst, p).kind = "Packet"
    BY DEF PacketTo
  <2> QED BY <1>2, <2>1, SentFacts DEF PingInv
<1>3. CASE Arrive
  BY <1>2, <1>3, ZenonT(30) DEF Arrive, Sent, bindings
<1>4. ASSUME NEW f \in wire, Answer(f) PROVE PingInv'
  BY <1>2, <1>4, AnswerFacts, FrameFacts, ZenonT(30) DEF Answer, bindings
<1>5. ASSUME NEW f \in wire, Lose(f) PROVE PingInv'
  BY <1>5, ZenonT(30) DEF PingInv, Lose, bindings
<1> QED BY <1>1, <1>3, <1>4, <1>5, PingHandlerStep, ZenonT(30) DEF Next, Network

-----------------------------------------------------------------------------
(* The three places.                                                       *)

\* Requests of kind k are queued for whom they were queued before.
SameQueued(k) ==
  \A c \in Clients : /\ AtMostOne(QueuedIn(queue', k, c))
                     /\ QueuedIn(queue', k, c) = {} <=> QueuedIn(queue, k, c) = {}

AllPlaced == \A c \in Clients : MacPlaced(c) /\ PingPlaced(c)

\* Requests of both kinds are queued at most once per caller.
LEMMA PlacedOnce ==
  ASSUME AllPlaced, NEW c \in Clients
  PROVE  /\ AtMostOne(QueuedIn(queue, "SendArpRequest", c))
         /\ AtMostOne(QueuedIn(queue, "PingRequest", c))
  BY ZenonT(30) DEF AllPlaced, MacPlaced, PingPlaced, InOnePlace

\* What leaves a call of get_mac where it is.
LEMMA MacKept ==
  ASSUME NEW c \in Clients, MacPlaced(c), SameQueued("SendArpRequest"),
         UNCHANGED call, ret_queue'[c] = ret_queue[c],
         arp_bindings'[Target[c]] = c <=> arp_bindings[Target[c]] = c
  PROVE  MacPlaced(c)'
  BY ZenonT(30) DEF MacPlaced, InOnePlace, SameQueued

\* What leaves a ping where it is.
LEMMA PingKept ==
  ASSUME NEW c \in Clients, PingPlaced(c), SameQueued("PingRequest"),
         send'[c] = send[c], returned'[c] = returned[c],
         ping_bindings'[Target[c]] = c <=> ping_bindings[Target[c]] = c
  PROVE  PingPlaced(c)'
  BY ZenonT(30) DEF PingPlaced, InOnePlace, SameQueued

\* The handler takes a message of another kind.
LEMMA TakeOther ==
  ASSUME Typed, AllPlaced, NEW kind, Take(kind)
  PROVE  /\ kind # "SendArpRequest" => SameQueued("SendArpRequest")
         /\ kind # "PingRequest" => SameQueued("PingRequest")
  BY PlacedOnce, TakeQueued DEF SameQueued

\* The request of a caller becomes its listener, which was not bound before and
\* replaces nobody's: no other caller asks for the same host.
LEMMA SendArpPlaced ==
  ASSUME \A b, c \in Clients : Target[b] = Target[c] => b = c,
         Typed, MacInv, AllPlaced, SendArpRequest
  PROVE  AllPlaced'
<1>1. PICK b \in Clients : b = Head(queue).from
  BY TakeFacts, MessageFacts, ZenonT(30) DEF SendArpRequest
<1>2. /\ Head(queue).ip = Target[b] /\ Target[b] \in Hosts
      /\ Take("SendArpRequest") /\ Head(queue).kind = "SendArpRequest"
  BY <1>1, TakeFacts, NetAssumption, ZenonT(30) DEF SendArpRequest, MacInv, MessageTrue
<1>3. /\ arp_bindings' = [arp_bindings EXCEPT ![Target[b]] = b]
      /\ UNCHANGED <<call, ret_queue, send, returned, ping_bindings>>
  BY <1>1, <1>2, ZenonT(30) DEF SendArpRequest
<1>4. \A c \in Clients :
        /\ AtMostOne(QueuedIn(queue', "SendArpRequest", c))
        /\ QueuedIn(queue', "SendArpRequest", c) = {} <=>
             QueuedIn(queue, "SendArpRequest", c) = {} \/ b = c
  BY <1>1, <1>2, PlacedOnce, TakeQueued, ZenonT(30)
<1>5. QueuedIn(queue, "SendArpRequest", b) # {}
  <2>0. queue \in Seq(Messages) /\ queue # <<>>
    BY <1>2, Zenon DEF Take, Typed
  <2>1. Len(queue) \in Nat \ {0} /\ queue[1] = Head(queue)
    BY <2>0, FirstInQueue, Zenon
  <2> QED BY <1>1, <1>2, <2>1 DEF QueuedIn
<1>6. ASSUME NEW c \in Clients PROVE PingPlaced(c)'
  BY <1>2, <1>3, TakeOther, PingKept, ZenonT(30) DEF AllPlaced
<1>7. ASSUME NEW c \in Clients PROVE MacPlaced(c)'
  <2>0. MacPlaced(c)
    BY DEF AllPlaced
  <2>1. CASE c = b
    <3>1. arp_bindings'[Target[c]] = c
      BY <1>2, <1>3, <2>1, ZenonT(30) DEF Typed, TypeOK
    <3>2. ret_queue[c] = None /\ call[c] \notin {"start", "ping"}
      BY <1>5, <2>0, <2>1, ZenonT(30) DEF MacPlaced, InOnePlace
    <3> QED BY <1>3, <1>4, <2>1, <3>1, <3>2, ZenonT(30) DEF MacPlaced, InOnePlace
  <2>2. CASE c # b
    <3>1. arp_bindings'[Target[c]] = c <=> arp_bindings[Target[c]] = c
      BY <1>2, <1>3, <2>2, NetAssumption, ZenonT(30) DEF Typed, TypeOK
    <3> QED BY <1>3, <1>4, <2>0, <2>2, <3>1, ZenonT(30) DEF MacPlaced, InOnePlace
  <2> QED BY <2>1, <2>2
<1> QED BY <1>6, <1>7, ZenonT(30) DEF AllPlaced

\* The same for a ping.
LEMMA PingRequestPlaced ==
  ASSUME \A b, c \in Clients : Target[b] = Target[c] => b = c,
         Typed, PingInv, AllPlaced, PingRequest
  PROVE  AllPlaced'
<1>1. PICK b \in Clients : b = Head(queue).from
  BY TakeFacts, MessageFacts, ZenonT(30) DEF PingRequest
<1>2. /\ Head(queue).ip = Target[b] /\ Target[b] \in Hosts
      /\ Take("PingRequest") /\ Head(queue).kind = "PingRequest"
  BY <1>1, TakeFacts, NetAssumption, ZenonT(30) DEF PingRequest, PingInv
<1>3. /\ ping_bindings' = [ping_bindings EXCEPT ![Target[b]] = b]
      /\ UNCHANGED <<call, ret_queue, send, returned, arp_bindings>>
  BY <1>1, <1>2, ZenonT(30) DEF PingRequest, client
<1>4. \A c \in Clients :
        /\ AtMostOne(QueuedIn(queue', "PingRequest", c))
        /\ QueuedIn(queue', "PingRequest", c) = {} <=>
             QueuedIn(queue, "PingRequest", c) = {} \/ b = c
  BY <1>1, <1>2, PlacedOnce, TakeQueued, ZenonT(30)
<1>5. QueuedIn(queue, "PingRequest", b) # {}
  <2>0. queue \in Seq(Messages) /\ queue # <<>>
    BY <1>2, Zenon DEF Take, Typed
  <2>1. Len(queue) \in Nat \ {0} /\ queue[1] = Head(queue)
    BY <2>0, FirstInQueue, Zenon
  <2> QED BY <1>1, <1>2, <2>1 DEF QueuedIn
<1>6. ASSUME NEW c \in Clients PROVE MacPlaced(c)'
  BY <1>2, <1>3, TakeOther, MacKept, ZenonT(30) DEF AllPlaced
<1>7. ASSUME NEW c \in Clients PROVE PingPlaced(c)'
  <2>0. PingPlaced(c)
    BY DEF AllPlaced
  <2>1. CASE c = b
    <3>1. ping_bindings'[Target[c]] = c
      BY <1>2, <1>3, <2>1, ZenonT(30) DEF Typed, TypeOK
    <3>2. ~returned[c] /\ send[c]
      BY <1>5, <2>0, <2>1, ZenonT(30) DEF PingPlaced, InOnePlace
    <3> QED BY <1>3, <1>4, <2>1, <3>1, <3>2, ZenonT(30) DEF PingPlaced, InOnePlace
  <2>2. CASE c # b
    <3>1. ping_bindings'[Target[c]] = c <=> ping_bindings[Target[c]] = c
      BY <1>2, <1>3, <2>2, NetAssumption, ZenonT(30) DEF Typed, TypeOK
    <3> QED BY <1>3, <1>4, <2>0, <2>2, <3>1, ZenonT(30) DEF PingPlaced, InOnePlace
  <2> QED BY <2>1, <2>2
<1> QED BY <1>6, <1>7, ZenonT(30) DEF AllPlaced

\* A response reaches the one listener that waits for it, and is its answer.
LEMMA ArpResponsePlaced ==
  ASSUME Typed, MacInv, AllPlaced, ArpResponse
  PROVE  AllPlaced'
<1>1. PICK h \in Hosts, e \in Macs : h = Head(queue).packet.ip /\ e = Head(queue).packet.mac
  BY TakeFacts, MessageFacts, PacketFacts, ZenonT(30) DEF ArpResponse, Receive
<1>2. /\ Take("Packet") /\ arp_bindings' = [arp_bindings EXCEPT ![h] = None]
      /\ UNCHANGED <<call, send, returned, ping_bindings>>
      /\ IF arp_bindings[h] # None THEN Reply(arp_bindings[h], e) ELSE UNCHANGED ret_queue
  BY <1>1, ZenonT(30) DEF ArpResponse, Receive, Unbind
<1>3. SameQueued("SendArpRequest") /\ SameQueued("PingRequest")
  <2>1. "Packet" # "SendArpRequest" /\ "Packet" # "PingRequest"
    OBVIOUS
  <2> QED BY <1>2, <2>1, TakeOther, Zenon
<1>4. ASSUME NEW c \in Clients PROVE PingPlaced(c)'
  BY <1>2, <1>3, PingKept, ZenonT(30) DEF AllPlaced
<1>5. ASSUME NEW c \in Clients PROVE MacPlaced(c)'
  <2>0. MacPlaced(c) /\ c # None
    BY NetAssumption DEF AllPlaced
  <2>1. CASE arp_bindings[h] = c
    <3>1. Target[c] = h
      BY <2>0, <2>1, ZenonT(30) DEF MacInv
    <3>2. ret_queue[c] = None /\ call[c] = "get_mac" /\ QueuedIn(queue, "SendArpRequest", c) = {}
      BY <2>0, <2>1, <3>1, ZenonT(30) DEF MacPlaced, InOnePlace, Typed, TypeOK
    <3>3. ret_queue'[c] # None
      BY <1>2, <2>0, <2>1, <3>2, NetAssumption, ZenonT(30) DEF Reply, Typed, TypeOK
    <3>4. arp_bindings'[Target[c]] # c
      BY <1>2, <2>0, <3>1, ZenonT(30) DEF Typed, TypeOK
    <3> QED BY <1>2, <1>3, <3>2, <3>3, <3>4, ZenonT(30) DEF MacPlaced, InOnePlace, SameQueued
  <2>2. CASE arp_bindings[h] # c
    <3>1. arp_bindings'[Target[c]] = c <=> arp_bindings[Target[c]] = c
      BY <1>2, <2>0, <2>2, NetAssumption, ZenonT(30) DEF Typed, TypeOK
    <3>2. ret_queue'[c] = ret_queue[c]
      BY <1>2, <2>2, ZenonT(30) DEF Reply, Typed, TypeOK
    <3> QED BY <1>2, <1>3, <2>0, <3>1, <3>2, MacKept, ZenonT(30)
  <2> QED BY <2>1, <2>2
<1> QED BY <1>4, <1>5, ZenonT(30) DEF AllPlaced

\* The same for the reply to a ping.
LEMMA EchoReplyPlaced ==
  ASSUME Typed, PingInv, AllPlaced, EchoReply
  PROVE  AllPlaced'
<1>1. PICK h \in Hosts : h = Head(queue).packet.ip
  BY TakeFacts, MessageFacts, PacketFacts, ZenonT(30) DEF EchoReply, Receive
<1>2. /\ Take("Packet") /\ ping_bindings' = [ping_bindings EXCEPT ![h] = None]
      /\ UNCHANGED <<call, send, ret_queue, arp_bindings>>
      /\ IF ping_bindings[h] # None THEN returned' = [returned EXCEPT ![ping_bindings[h]] = TRUE]
                                    ELSE UNCHANGED returned
  BY <1>1, ZenonT(30) DEF EchoReply, Receive, Unbind
<1>3. SameQueued("SendArpRequest") /\ SameQueued("PingRequest")
  <2>1. "Packet" # "SendArpRequest" /\ "Packet" # "PingRequest"
    OBVIOUS
  <2> QED BY <1>2, <2>1, TakeOther, Zenon
<1>4. ASSUME NEW c \in Clients PROVE MacPlaced(c)'
  BY <1>2, <1>3, MacKept, ZenonT(30) DEF AllPlaced
<1>5. ASSUME NEW c \in Clients PROVE PingPlaced(c)'
  <2>0. PingPlaced(c) /\ c # None
    BY NetAssumption DEF AllPlaced
  <2>1. CASE ping_bindings[h] = c
    <3>1. Target[c] = h
      BY <2>0, <2>1 DEF PingInv
    <3>2. send[c] /\ QueuedIn(queue, "PingRequest", c) = {}
      BY <2>0, <2>1, <3>1, ZenonT(30) DEF PingPlaced, InOnePlace
    <3>3. returned'[c] = TRUE
      BY <1>2, <2>0, <2>1, ZenonT(30) DEF Typed, TypeOK
    <3>4. ping_bindings'[Target[c]] # c
      BY <1>2, <2>0, <3>1, ZenonT(30) DEF Typed, TypeOK
    <3> QED BY <1>2, <1>3, <3>2, <3>3, <3>4, ZenonT(30) DEF PingPlaced, InOnePlace, SameQueued
  <2>2. CASE ping_bindings[h] # c
    <3>1. ping_bindings'[Target[c]] = c <=> ping_bindings[Target[c]] = c
      BY <1>2, <2>0, <2>2, NetAssumption, ZenonT(30) DEF Typed, TypeOK
    <3>2. returned'[c] = returned[c]
      BY <1>2, <2>2, ZenonT(30) DEF Typed, TypeOK
    <3> QED BY <1>2, <1>3, <2>0, <3>1, <3>2, PingKept, ZenonT(30)
  <2> QED BY <2>1, <2>2
<1> QED BY <1>4, <1>5, ZenonT(30) DEF AllPlaced

\* Every other message leaves the calls where they are.
LEMMA OtherPlaced ==
  ASSUME Typed, AllPlaced,
         Filtered \/ Ignored \/ ArpRequest \/ EchoRequest \/ Dhcp
  PROVE  AllPlaced'
<1>1. Take("Packet")
  BY ZenonT(30)
  DEF Filtered, Ignored, ArpRequest, EchoRequest, Dhcp, DhcpOffer, DhcpAck,
      DhcpUnexpected, Receive
<1>2. UNCHANGED <<call, ret_queue, send, returned, arp_bindings, ping_bindings>>
  BY ZenonT(30)
  DEF Filtered, Ignored, ArpRequest, EchoRequest, Dhcp, DhcpOffer, DhcpAck,
      DhcpUnexpected, bindings, client
<1>3. SameQueued("SendArpRequest") /\ SameQueued("PingRequest")
  BY <1>1, TakeOther
<1> QED BY <1>2, <1>3, MacKept, PingKept, ZenonT(30) DEF AllPlaced

\* What is delivered leaves the calls where they are.
LEMMA NetworkPlaced == ASSUME Typed, AllPlaced, Network PROVE AllPlaced'
<1>1. UNCHANGED <<call, ret_queue, send, returned, arp_bindings, ping_bindings>>
  BY ZenonT(30) DEF Network, Arrive, Answer, Lose, bindings, client
<1>2. SameQueued("SendArpRequest") /\ SameQueued("PingRequest")
  <2>1. ASSUME NEW d \in Devices, NEW dst, NEW p, Sent(d, dst, p)
        PROVE  SameQueued("SendArpRequest") /\ SameQueued("PingRequest")
    BY <2>1, SentQueued, PlacedOnce, ZenonT(30) DEF SameQueued
  <2>2. CASE Arrive
    BY <2>1, <2>2, ZenonT(30) DEF Arrive, Sent
  <2>3. ASSUME NEW f \in wire, Answer(f)
        PROVE  SameQueued("SendArpRequest") /\ SameQueued("PingRequest")
    BY <2>1, <2>3, AnswerFacts, FrameFacts, ZenonT(30)
  <2>4. ASSUME NEW f \in wire, Lose(f)
        PROVE  SameQueued("SendArpRequest") /\ SameQueued("PingRequest")
    BY <2>4, PlacedOnce DEF Lose, SameQueued
  <2> QED BY <2>2, <2>3, <2>4, ZenonT(30) DEF Network
<1> QED BY <1>1, <1>2, MacKept, PingKept, ZenonT(30) DEF AllPlaced

\* A poll of a caller begins its call once and ends it when it was answered.
LEMMA ApiPlaced ==
  ASSUME Typed, AllPlaced, NEW b \in Clients, Api(b) PROVE AllPlaced'
<1> USE PlacedOnce
<1>1. CASE GetMac(b)
  <2> DEFINE m == [kind |-> "SendArpRequest", ip |-> Target[b], from |-> b]
  <2>1. m \in Messages /\ m.kind = "SendArpRequest" /\ m.from = b
    BY NetAssumption, ZenonT(30) DEF Messages
  <2>2. /\ queue' = Append(queue, m) /\ call[b] = "start"
        /\ call' = [call EXCEPT ![b] = "get_mac"]
        /\ UNCHANGED <<ret_queue, send, returned, arp_bindings, ping_bindings>>
    BY <1>1, ZenonT(30) DEF GetMac, bindings
  <2> HIDE DEF m
  <2>3. ASSUME NEW c \in Clients PROVE PingPlaced(c)'
    <3>1. SameQueued("PingRequest")
      BY <2>1, <2>2, AppendQueued DEF SameQueued
    <3> QED BY <2>2, <3>1, PingKept, ZenonT(30) DEF AllPlaced
  <2>4. ASSUME NEW c \in Clients PROVE MacPlaced(c)'
    <3>0. MacPlaced(c)
      BY DEF AllPlaced
    <3>1. CASE c = b
      <4>1. /\ QueuedIn(queue, "SendArpRequest", c) = {}
            /\ arp_bindings[Target[c]] # c /\ ret_queue[c] = None
        BY <2>2, <3>0, <3>1, ZenonT(30) DEF MacPlaced, InOnePlace
      <4>2. QueuedIn(queue', "SendArpRequest", c) = {Len(queue) + 1}
        BY <2>1, <2>2, <3>1, <4>1, AppendQueued, ZenonT(30)
      <4>3. call'[c] = "get_mac"
        BY <2>2, <3>1, ZenonT(30) DEF Typed, TypeOK
      <4>4. AtMostOne(QueuedIn(queue', "SendArpRequest", c))
        BY <4>2, ZenonT(30) DEF AtMostOne
      <4> QED BY <2>2, <4>1, <4>2, <4>3, <4>4, ZenonT(30) DEF MacPlaced, InOnePlace
    <3>2. CASE c # b
      <4>1. QueuedIn(queue', "SendArpRequest", c) = QueuedIn(queue, "SendArpRequest", c)
        BY <2>1, <2>2, <3>2, AppendQueued
      <4>2. call'[c] = call[c]
        BY <2>2, <3>2, ZenonT(30) DEF Typed, TypeOK
      <4> QED BY <2>2, <3>0, <4>1, <4>2, ZenonT(30) DEF MacPlaced, InOnePlace
    <3> QED BY <3>1, <3>2
  <2> QED BY <2>3, <2>4, ZenonT(30) DEF AllPlaced
<1>2. CASE GetMacReturn(b)
  <2>1. UNCHANGED <<queue, ret_queue, send, returned, arp_bindings, ping_bindings>>
    BY <1>2, ZenonT(30) DEF GetMacReturn, bindings
  <2>2. SameQueued("PingRequest") /\ SameQueued("SendArpRequest")
    BY <2>1, ZenonT(30) DEF SameQueued
  <2>3. ASSUME NEW c \in Clients PROVE PingPlaced(c)'
    BY <2>1, <2>2, PingKept, ZenonT(30) DEF AllPlaced
  <2>4. ASSUME NEW c \in Clients PROVE MacPlaced(c)'
    <3>0. MacPlaced(c)
      BY DEF AllPlaced
    <3>1. CASE call' = call
      BY <2>1, <2>2, <3>0, <3>1, MacKept, ZenonT(30)
    <3>2. CASE call' # call
      <4>1. ret_queue[b] # None /\ call' = [call EXCEPT ![b] = "ping"]
        BY <1>2, <3>2, ZenonT(30) DEF GetMacReturn
      <4>2. call'[c] = IF c = b THEN "ping" ELSE call[c]
        BY <4>1, ZenonT(30) DEF Typed, TypeOK
      <4>3. CASE c = b
        <5>1. call'[c] = "ping" /\ ret_queue[c] # None
          BY <4>1, <4>2, <4>3
        <5> QED BY <2>1, <3>0, <5>1, ZenonT(30) DEF MacPlaced, InOnePlace
      <4>4. CASE c # b
        <5>1. call'[c] = call[c]
          BY <4>2, <4>4
        <5> QED BY <2>1, <3>0, <5>1, ZenonT(30) DEF MacPlaced, InOnePlace
      <4> QED BY <4>3, <4>4
    <3> QED BY <3>1, <3>2, ZenonT(30)
  <2> QED BY <2>3, <2>4, ZenonT(30) DEF AllPlaced
<1>3. CASE PingPending(b)
  <2> DEFINE m == [kind |-> "PingRequest", ip |-> Target[b], mac |-> mac[b],
                   from |-> b]
  <2>1. m \in Messages /\ m.kind = "PingRequest" /\ m.from = b
    BY <1>3, NetAssumption, ZenonT(30) DEF Typed, TypeOK, PingPending, Messages
  <2>2. /\ queue' = IF send[b] THEN queue ELSE Append(queue, m)
        /\ send' = [send EXCEPT ![b] = TRUE]
        /\ UNCHANGED <<call, ret_queue, returned, arp_bindings, ping_bindings>>
    BY <1>3, ZenonT(30) DEF PingPending, bindings
  <2> HIDE DEF m
  <2>3. ASSUME NEW c \in Clients PROVE MacPlaced(c)'
    <3>1. SameQueued("SendArpRequest")
      <4>1. CASE send[b]
        BY <2>2, <4>1, ZenonT(30) DEF SameQueued
      <4>2. CASE ~send[b]
        BY <2>1, <2>2, <4>2, AppendQueued DEF SameQueued
      <4> QED BY <4>1, <4>2
    <3> QED BY <2>2, <3>1, MacKept, ZenonT(30) DEF AllPlaced
  <2>4. ASSUME NEW c \in Clients PROVE PingPlaced(c)'
    <3>0. PingPlaced(c)
      BY DEF AllPlaced
    <3>1. CASE c = b /\ ~send[b]
      <4>1. /\ QueuedIn(queue, "PingRequest", c) = {}
            /\ ping_bindings[Target[c]] # c /\ ~returned[c]
        BY <3>0, <3>1, ZenonT(30) DEF PingPlaced, InOnePlace
      <4>2. QueuedIn(queue', "PingRequest", c) = {Len(queue) + 1}
        BY <2>1, <2>2, <3>1, <4>1, AppendQueued, ZenonT(30)
      <4>3. send'[c] = TRUE
        BY <2>2, <3>1, ZenonT(30) DEF Typed, TypeOK
      <4>4. AtMostOne(QueuedIn(queue', "PingRequest", c))
        BY <4>2, ZenonT(30) DEF AtMostOne
      <4> QED BY <2>2, <4>1, <4>2, <4>3, <4>4, ZenonT(30) DEF PingPlaced, InOnePlace
    <3>2. CASE ~(c = b /\ ~send[b])
      <4>1. QueuedIn(queue', "PingRequest", c) = QueuedIn(queue, "PingRequest", c)
        <5>1. CASE send[b]
          BY <2>2, <5>1
        <5>2. CASE ~send[b]
          BY <2>1, <2>2, <3>2, <5>2, AppendQueued
        <5> QED BY <5>1, <5>2
      <4>2. send'[c] <=> send[c]
        BY <2>2, <3>2, ZenonT(30) DEF Typed, TypeOK
      <4> QED BY <2>2, <3>0, <4>1, <4>2, ZenonT(30) DEF PingPlaced, InOnePlace
    <3> QED BY <3>1, <3>2
  <2> QED BY <2>3, <2>4, ZenonT(30) DEF AllPlaced
<1>4. CASE PingReady(b)
  <2>1. /\ UNCHANGED <<queue, call, ret_queue, arp_bindings, ping_bindings>>
        /\ send' = [send EXCEPT ![b] = FALSE] /\ returned' = [returned EXCEPT ![b] = FALSE]
        /\ returned[b]
    BY <1>4, ZenonT(30) DEF PingReady, bindings
  <2>2. SameQueued("PingRequest") /\ SameQueued("SendArpRequest")
    BY <2>1, ZenonT(30) DEF SameQueued
  <2>3. ASSUME NEW c \in Clients PROVE MacPlaced(c)'
    BY <2>1, <2>2, MacKept, ZenonT(30) DEF AllPlaced
  <2>4. ASSUME NEW c \in Clients PROVE PingPlaced(c)'
    <3>0. PingPlaced(c)
      BY DEF AllPlaced
    <3>1. CASE c = b
      <4>1. ~send'[c] /\ ~returned'[c]
        BY <2>1, <3>1, ZenonT(30) DEF Typed, TypeOK
      <4> QED BY <2>1, <3>0, <3>1, <4>1, ZenonT(30) DEF PingPlaced, InOnePlace
    <3>2. CASE c # b
      <4>1. send'[c] = send[c] /\ returned'[c] = returned[c]
        BY <2>1, <3>2, ZenonT(30) DEF Typed, TypeOK
      <4> QED BY <2>1, <2>2, <3>0, <4>1, PingKept, ZenonT(30)
    <3> QED BY <3>1, <3>2
  <2> QED BY <2>3, <2>4, ZenonT(30) DEF AllPlaced
<1> QED BY <1>1, <1>2, <1>3, <1>4, ZenonT(30) DEF Api

-----------------------------------------------------------------------------
(* The theorems count the places.                                          *)

\* A set with one element.
LEMMA CountSingleton == ASSUME NEW x PROVE Cardinality({x}) = 1 /\ Cardinality({}) = 0
<1> DEFINE Count(S, f) == f = [T \in SUBSET S |->
                 IF T = {} THEN 0 ELSE 1 + f[T \ {CHOOSE y : y \in T}]]
           one == CHOOSE f : Count({x}, f)
           none == CHOOSE f : Count({}, f)
<1>1. Cardinality({x}) = one[{x}] /\ Cardinality({}) = none[{}]
  BY Zenon DEF Cardinality
<1>2. {x} \ {CHOOSE y : y \in {x}} = {}
  <2>1. (CHOOSE y : y \in {x}) = x
    BY Zenon
  <2> QED BY <2>1
<1>3. Count({x}, one)
  <2> DEFINE g == [T \in SUBSET {x} |-> IF T = {} THEN 0 ELSE 1]
  <2>1. ASSUME NEW T \in SUBSET {x}
        PROVE  g[T] = IF T = {} THEN 0 ELSE 1 + g[T \ {CHOOSE y : y \in T}]
    <3>1. T = {} \/ T = {x}
      OBVIOUS
    <3>2. g[{}] = 0 /\ g[{x}] = 1
      OBVIOUS
    <3> HIDE DEF g
    <3> QED BY <3>1, <3>2, <1>2
  <2>2. Count({x}, g)
    <3>1. g = [T \in SUBSET {x} |-> g[T]]
      OBVIOUS
    <3> HIDE DEF g
    <3> QED BY <2>1, <3>1, Zenon
  <2> HIDE DEF g, Count
  <2> QED BY <2>2, Zenon
<1>4. Count({}, none)
  <2> DEFINE g == [T \in SUBSET {} |-> 0]
  <2>1. Count({}, g)
    OBVIOUS
  <2> HIDE DEF g, Count
  <2> QED BY <2>1, Zenon
<1> HIDE DEF one, none
<1>5. one[{}] = 0 /\ none[{}] = 0
  BY <1>3, <1>4, Zenon
<1>6. one[{x}] = 1 + one[{x} \ {CHOOSE y : y \in {x}}]
  BY <1>3, Zenon
<1> QED BY <1>1, <1>2, <1>5, <1>6

\* The same for every element.
LEMMA CountOne ==
  Cardinality({}) = 0 /\ \A x : Cardinality({x}) = 1
  BY CountSingleton, Zenon

\* A set with at most one element.
LEMMA CountAtMostOne ==
  ASSUME NEW S, AtMostOne(S)
  PROVE  Cardinality(S) = IF S = {} THEN 0 ELSE 1
<1>1. CASE S = {}
  BY <1>1, CountOne
<1>2. CASE S # {}
  <2>1. PICK x \in S : TRUE
    BY <1>2
  <2>2. S = {x}
    BY <2>1, ZenonT(30) DEF AtMostOne
  <2> QED BY <1>2, <2>2, CountOne, ZenonT(30)
<1> QED BY <1>1, <1>2

\* The inductive invariant of the calls.
TrackedInv == MacInv /\ PingInv /\ AllPlaced

\* It is an invariant when every caller asks for a host of its own.
LEMMA TrackedInvariant ==
  ASSUME \A b, c \in Clients : Target[b] = Target[c] => b = c
  PROVE  Spec => []TrackedInv
<1>1. Init => TrackedInv
  <2> SUFFICES ASSUME Init PROVE TrackedInv
    OBVIOUS
  <2>1. MacInv /\ PingInv
    <3>1. Range(queue) = {}
      BY DEF Init, Range
    <3> QED BY <3>1, ZenonT(30) DEF Init, MacInv, MacTruthful, PingInv
  <2>2. \A k, c : QueuedIn(queue, k, c) = {}
    BY DEF Init, QueuedIn
  <2>3. ASSUME NEW c \in Clients PROVE MacPlaced(c) /\ PingPlaced(c)
    <3>1. /\ arp_bindings[Target[c]] # c /\ ping_bindings[Target[c]] # c
          /\ ret_queue[c] = None /\ call[c] = "start" /\ ~send[c] /\ ~returned[c]
      BY NetAssumption, ZenonT(30) DEF Init
    <3>2. call[c] # "ping"
      BY <3>1
    <3> QED BY <2>2, <3>1, <3>2, ZenonT(30) DEF MacPlaced, PingPlaced, InOnePlace, AtMostOne
  <2> QED BY <2>1, <2>3 DEF TrackedInv, AllPlaced
<1>2. Typed /\ TrackedInv /\ [Next]_vars => TrackedInv'
  <2> SUFFICES ASSUME Typed, TrackedInv, [Next]_vars PROVE TrackedInv'
    OBVIOUS
  <2>1. CASE Next
    <3>1. MacInv' /\ PingInv'
      BY <2>1, MacHandlerStep, MacApiStep, MacNetworkStep, PingInvStep, ZenonT(30)
      DEF TrackedInv, Next
    <3>2. AllPlaced'
      <4>1. CASE Start
        <5>1. UNCHANGED <<queue, call, ret_queue, send, returned, arp_bindings, ping_bindings>>
          BY <4>1, ZenonT(30) DEF Start, bindings, client
        <5> QED BY <5>1, ZenonT(30) DEF TrackedInv, AllPlaced, MacPlaced, PingPlaced
      <4> QED BY <2>1, <4>1, SendArpPlaced, PingRequestPlaced, ArpResponsePlaced,
                 EchoReplyPlaced, OtherPlaced, NetworkPlaced, ApiPlaced, ZenonT(30)
              DEF TrackedInv, Next, network_handler, handle_packet_
    <3> QED BY <3>1, <3>2 DEF TrackedInv
  <2>2. CASE UNCHANGED vars
    BY <2>2, ZenonT(30)
    DEF vars, bindings, client, TrackedInv, MacInv, MacTruthful, PingInv, AllPlaced,
        MacPlaced, PingPlaced
  <2> QED BY <2>1, <2>2
<1> QED BY <1>1, <1>2, TypeCorrect, PTL DEF Spec

\* A call of get_mac is queued, bound or answered, never lost and never in two
\* of these places, for any number of callers that each ask for a host of their
\* own, whatever the network does to the requests and the answers.
THEOREM MacCallsTracked ==
  ASSUME \A b, c \in Clients : Target[b] = Target[c] => b = c
  PROVE  Spec => []MacTracked
<1>1. Typed /\ TrackedInv => MacTracked
  <2> SUFFICES ASSUME Typed, TrackedInv, NEW c \in Clients
               PROVE  LET bound == {h \in Hosts : arp_bindings[h] = c}
                          answer == {m \in {ret_queue[c]} : m # None}
                          places == Cardinality(QueuedFrom("SendArpRequest", c))
                                    + Cardinality(bound) + Cardinality(answer)
                      IN  /\ places = IF call[c] = "start" THEN 0 ELSE 1
                          /\ call[c] = "ping" => answer # {}
    BY ZenonT(30) DEF MacTracked
  <2> DEFINE queued == QueuedFrom("SendArpRequest", c)
             bound == {h \in Hosts : arp_bindings[h] = c}
             answer == {m \in {ret_queue[c]} : m # None}
  <2>1. queued = QueuedIn(queue, "SendArpRequest", c) /\ MacPlaced(c)
    BY ZenonT(30) DEF QueuedFrom, QueuedIn, TrackedInv, AllPlaced
  <2>2. bound = IF arp_bindings[Target[c]] = c THEN {Target[c]} ELSE {}
    <3>1. \A h \in Hosts : arp_bindings[h] = c => h = Target[c]
      BY NetAssumption, ZenonT(30) DEF TrackedInv, MacInv
    <3> QED BY <3>1, NetAssumption
  <2>3. answer = IF ret_queue[c] # None THEN {ret_queue[c]} ELSE {}
    OBVIOUS
  <2>4. Cardinality(queued) = IF queued = {} THEN 0 ELSE 1
    BY <2>1, CountAtMostOne, ZenonT(30) DEF MacPlaced, InOnePlace
  <2>5. Cardinality(bound) = IF arp_bindings[Target[c]] = c THEN 1 ELSE 0
    BY <2>2, CountOne, ZenonT(30)
  <2>6. Cardinality(answer) = IF ret_queue[c] # None THEN 1 ELSE 0
    BY <2>3, CountOne, ZenonT(30)
  <2>7. call[c] = "ping" => answer # {}
    BY <2>1, <2>3, ZenonT(30) DEF MacPlaced
  <2>8. Cardinality(queued) + Cardinality(bound) + Cardinality(answer)
          = IF call[c] = "start" THEN 0 ELSE 1
    <3>1. /\ ~(queued # {} /\ arp_bindings[Target[c]] = c)
          /\ ~(queued # {} /\ ret_queue[c] # None)
          /\ ~(arp_bindings[Target[c]] = c /\ ret_queue[c] # None)
          /\ call[c] = "start" <=> /\ queued = {} /\ arp_bindings[Target[c]] # c
                                   /\ ret_queue[c] = None
      BY <2>1, ZenonT(30) DEF MacPlaced, InOnePlace
    <3> HIDE DEF queued, bound, answer
    <3> QED BY <2>4, <2>5, <2>6, <3>1, SMTT(30)
  <2> QED BY <2>7, <2>8, ZenonT(30)
<1> QED BY <1>1, TrackedInvariant, TypeCorrect, PTL

\* The same for a ping: it is never forgotten by the handler, and no reply is
\* handed to a PingFuture that has already returned.
THEOREM PingsTracked ==
  ASSUME \A b, c \in Clients : Target[b] = Target[c] => b = c
  PROVE  Spec => []PingTracked
<1>1. Typed /\ TrackedInv => PingTracked
  <2> SUFFICES ASSUME Typed, TrackedInv, NEW c \in Clients
               PROVE  LET bound == {h \in Hosts : ping_bindings[h] = c}
                          answer == {r \in {returned[c]} : r}
                      IN  Cardinality(QueuedFrom("PingRequest", c)) + Cardinality(bound)
                            + Cardinality(answer) = IF send[c] THEN 1 ELSE 0
    BY ZenonT(30) DEF PingTracked
  <2> DEFINE queued == QueuedFrom("PingRequest", c)
             bound == {h \in Hosts : ping_bindings[h] = c}
             answer == {r \in {returned[c]} : r}
  <2>1. queued = QueuedIn(queue, "PingRequest", c) /\ PingPlaced(c)
    BY ZenonT(30) DEF QueuedFrom, QueuedIn, TrackedInv, AllPlaced
  <2>2. bound = IF ping_bindings[Target[c]] = c THEN {Target[c]} ELSE {}
    <3>1. \A h \in Hosts : ping_bindings[h] = c => h = Target[c]
      BY NetAssumption DEF TrackedInv, PingInv
    <3> QED BY <3>1, NetAssumption
  <2>3. answer = IF returned[c] THEN {returned[c]} ELSE {}
    BY ZenonT(30)
  <2>4. Cardinality(queued) = IF queued = {} THEN 0 ELSE 1
    BY <2>1, CountAtMostOne, ZenonT(30) DEF PingPlaced, InOnePlace
  <2>5. Cardinality(bound) = IF ping_bindings[Target[c]] = c THEN 1 ELSE 0
    BY <2>2, CountOne, ZenonT(30)
  <2>6. Cardinality(answer) = IF returned[c] THEN 1 ELSE 0
    BY <2>3, CountOne, ZenonT(30)
  <2>8. Cardinality(queued) + Cardinality(bound) + Cardinality(answer)
          = IF send[c] THEN 1 ELSE 0
    <3>1. /\ ~(queued # {} /\ ping_bindings[Target[c]] = c)
          /\ ~(queued # {} /\ returned[c])
          /\ ~(ping_bindings[Target[c]] = c /\ returned[c])
          /\ send[c] <=> queued # {} \/ ping_bindings[Target[c]] = c \/ returned[c]
      BY <2>1, ZenonT(30) DEF PingPlaced, InOnePlace
    <3> HIDE DEF queued, bound, answer
    <3> QED BY <2>4, <2>5, <2>6, <3>1, SMTT(30)
  <2> QED BY <2>8, ZenonT(30)
<1> QED BY <1>1, TrackedInvariant, TypeCorrect, PTL
=============================================================================
