----------------------------- MODULE NetHandler -----------------------------
(***************************************************************************)
(* The network handler task (src/extensions/networking/handler.rs), the    *)
(* tasks that call its API (src/extensions/networking/api.rs, with the     *)
(* ping task of src/main.rs as the caller) and the network around them.    *)
(*                                                                         *)
(* All tasks share one executor, so a poll is atomic towards the others;   *)
(* what runs in between is the interrupt that queues received packets.     *)
(* The network may delay, reorder, lose and duplicate every frame.         *)
(*                                                                         *)
(* A frame is a record of what the handler looks at.  A device's MAC       *)
(* address is the device itself; a host's is HostMac.                      *)
(***************************************************************************)
EXTENDS Naturals, Sequences, FiniteSets, Functions

CONSTANTS Devices, Clients,
          Target,        \* the host each client pings
          Hosts, Macs,   \* the other hosts, by IP address, and MAC addresses
          HostMac,       \* the MAC address of each host
          Servers,       \* the DHCP servers
          Addrs,         \* the addresses they lease
          SharedLan,     \* are the devices connected to one network?
          Lossy,         \* may a frame be lost?
          Duplicating,   \* may a frame be received more than once?
          Unsolicited,   \* what arrives without having been asked for
          MaxQueue,      \* bound: messages queued when a packet is received
          None

ASSUME NetAssumption ==
  /\ Target \in [Clients -> Hosts]
  /\ HostMac \in [Hosts -> Macs]
  /\ None \notin Addrs \cup Macs \cup Clients \cup Devices
  /\ \A D \in SUBSET Devices : Cardinality(D) \in Nat   \* finitely many devices

\* The transaction id of all DHCP exchanges.
Xid == "0x12345678"

\* Packets of another DHCP exchange have another transaction id, and the other
\* hosts know their own MAC address.
ASSUME UnsolicitedAssumption ==
  \A p \in Unsolicited :
    \/ p.type \in {"other", "arp_request", "echo_request", "nak"}
    \/ p.type \in {"offer", "ack"} /\ p.xid # Xid
    \/ p.type = "arp_response" /\ p.ip \in Hosts /\ p.mac = HostMac[p.ip]
    \/ p.type = "echo_reply" /\ p.ip \in Hosts

VARIABLES
  queue,       \* HANDLE_QUEUE
  started,     \* the handler has sent its discover messages
  dhcp, ip, indicator,    \* per device: metadata.dhcp, metadata.ip, the flag
  arp_bindings, ping_bindings,  \* the client bound to each IP address
  ips,         \* IPS
  panicked,
  wire,        \* frames on the network
  leases,      \* the servers' leases: who holds each address
  call,        \* what each client awaits
  ret_queue,   \* the answer to get_mac
  mac,         \* the MAC address each client goes on with
  send, returned,  \* the fields of each client's PingFuture
  run_queue    \* the clients that are to be polled

device == <<dhcp, ip, indicator>>
bindings == <<arp_bindings, ping_bindings, ips>>
client == <<call, ret_queue, mac, send, returned, run_queue>>
vars == <<queue, started, device, bindings, panicked, wire, leases, client>>

Broadcast == "broadcast"

Init ==
  /\ queue = <<>> /\ started = FALSE /\ panicked = FALSE
  /\ dhcp = [d \in Devices |-> [state |-> "Initial"]]
  /\ ip = [d \in Devices |-> None]
  /\ indicator = [d \in Devices |-> FALSE]
  /\ arp_bindings = [h \in Hosts |-> None]
  /\ ping_bindings = [h \in Hosts |-> None]
  /\ ips = [h \in Hosts |-> None]
  /\ wire = {} /\ leases = [a \in Addrs |-> None]
  /\ call = [c \in Clients |-> "start"]
  /\ ret_queue = [c \in Clients |-> None]
  /\ mac = [c \in Clients |-> None]
  /\ send = [c \in Clients |-> FALSE] /\ returned = [c \in Clients |-> FALSE]
  /\ run_queue = Clients

-----------------------------------------------------------------------------
(* The network: what it does with a frame, and what it delivers.           *)

PacketTo(d, dst, p) == [kind |-> "Packet", id |-> d, dst |-> dst, packet |-> p]

\* A broadcast reaches every device on the network of device d, in some order.
Deliver(d, dst, p) ==
  LET reached == {e \in Devices : e = d \/ (SharedLan /\ dst = Broadcast)}
      n == Cardinality(reached)
  IN  /\ Len(queue) < MaxQueue
      /\ \E order \in Injection(1..n, reached) :
           queue' = queue \o [i \in 1..n |-> PacketTo(order[i], dst, p)]

\* The frame has been received; a network that duplicates may still hold it.
Taken(f) == wire' = wire \ {f} \/ (Duplicating /\ wire' = wire)

\* The discover and request messages ask for a broadcast reply.
Offer(f) ==
  /\ f.type = "discover"
  /\ \E s \in Servers, a \in Addrs :
       /\ leases[a] \in {None, f.dev}
       /\ Deliver(f.dev, Broadcast,
                  [type |-> "offer", xid |-> Xid, ip |-> a, server |-> s])
  /\ UNCHANGED leases

Grant(f) ==
  /\ f.type = "request"
  /\ IF leases[f.ip] \in {None, f.dev}
     THEN /\ leases' = [leases EXCEPT ![f.ip] = f.dev]
          /\ Deliver(f.dev, Broadcast, [type |-> "ack", xid |-> Xid,
                                        ip |-> f.ip, server |-> f.server])
     ELSE /\ UNCHANGED leases
          /\ Deliver(f.dev, Broadcast, [type |-> "nak", xid |-> Xid,
                                        ip |-> f.ip, server |-> f.server])

ResolveArp(f) ==
  /\ f.type = "arp_request"
  /\ Deliver(f.dev, f.dev, [type |-> "arp_response", ip |-> f.ip,
                            mac |-> HostMac[f.ip]])
  /\ UNCHANGED leases

EchoBack(f) ==
  /\ f.type = "echo_request"
  /\ f.mac = HostMac[f.ip]
  /\ Deliver(f.dev, f.dev, [type |-> "echo_reply", ip |-> f.ip])
  /\ UNCHANGED leases

Answer(f) ==
  /\ f \in wire
  /\ Taken(f)
  /\ Offer(f) \/ Grant(f) \/ ResolveArp(f) \/ EchoBack(f)
  /\ UNCHANGED <<started, device, bindings, panicked, client>>

\* An ARP response of ours needs no answer; any frame may be lost.
Lose(f) ==
  /\ f \in wire
  /\ Lossy \/ f.type = "arp_response"
  /\ wire' = wire \ {f}
  /\ UNCHANGED <<queue, started, device, bindings, panicked, leases, client>>

Arrive ==
  /\ \E d \in Devices, dst \in {Broadcast, "other"}, p \in Unsolicited :
       Deliver(d, dst, p)
  /\ UNCHANGED <<started, device, bindings, panicked, wire, leases, client>>

-----------------------------------------------------------------------------
(* The handler.                                                            *)

Start_NotRecorded ==
  /\ ~started /\ ~panicked
  /\ started' = TRUE
  /\ wire' = wire \cup {[type |-> "discover", dev |-> d] : d \in Devices}
  /\ UNCHANGED <<queue, dhcp, ip, indicator, bindings, panicked, leases, client>>

\* network_handler, before its loop.
Start ==
  /\ ~started /\ ~panicked
  /\ started' = TRUE
  /\ dhcp' = [d \in Devices |-> [state |-> "Discover"]]
  /\ wire' = wire \cup {[type |-> "discover", dev |-> d] : d \in Devices}
  /\ UNCHANGED <<queue, ip, indicator, bindings, panicked, leases, client>>

\* One turn of the loop takes the oldest message.
Take(kind) ==
  /\ started /\ ~panicked
  /\ queue # <<>>
  /\ Head(queue).kind = kind
  /\ queue' = Tail(queue)
  /\ UNCHANGED <<started, leases>>

\* The queue of a listener that is replaced is dropped.  That closes it; the
\* queue's library decides whether it also wakes the caller.
SendArpRequest ==
  /\ Take("SendArpRequest")
  /\ LET m == Head(queue)
     IN  /\ arp_bindings' = [arp_bindings EXCEPT ![m.ip] = m.from]
         /\ \E woken \in SUBSET ({arp_bindings[m.ip]} \ {None}) :
              run_queue' = run_queue \cup woken
         /\ wire' = wire \cup
              {[type |-> "arp_request", dev |-> d, ip |-> m.ip, by |-> m.from] :
                 d \in Devices}
  /\ UNCHANGED <<device, ping_bindings, ips, panicked, call, ret_queue, mac,
                 send, returned>>

PingRequest ==
  /\ Take("PingRequest")
  /\ LET m == Head(queue)
     IN  /\ ping_bindings' = [ping_bindings EXCEPT ![m.ip] = m.from]
         /\ wire' = wire \cup
              {[type |-> "echo_request", dev |-> d, ip |-> m.ip, mac |-> m.mac,
                by |-> m.from] : d \in Devices}
  /\ UNCHANGED <<device, arp_bindings, ips, panicked, client>>

Accepted(m) == m.dst \in {Broadcast, m.id}

\* A packet for device d that passes the filter on the destination address.
Receive(types) ==
  /\ Take("Packet")
  /\ Accepted(Head(queue))
  /\ Head(queue).packet.type \in types

Filtered ==
  /\ Take("Packet")
  /\ ~Accepted(Head(queue))
  /\ UNCHANGED <<device, bindings, panicked, wire, client>>

\* Wake-on-LAN, IPv6, TCP, UDP to a port that is not bound, unknown types.
Ignored ==
  /\ Receive({"other"})
  /\ UNCHANGED <<device, bindings, panicked, wire, client>>

ArpRequest ==
  /\ Receive({"arp_request"})
  /\ LET d == Head(queue).id
         p == Head(queue).packet
     IN  wire' = IF ip[d] # None /\ ip[d] = p.ip
                 THEN wire \cup {[type |-> "arp_response", dev |-> d, ip |-> ip[d]]}
                 ELSE wire
  /\ UNCHANGED <<device, bindings, panicked, client>>

\* What remains of the bindings when the one of host h is removed.
Unbind_Kept(binding, h) == binding

Unbind(binding, h) == [binding EXCEPT ![h] = None]

Reply_NoWake(c, m) ==
  /\ ret_queue' = [ret_queue EXCEPT ![c] = m]
  /\ UNCHANGED <<panicked, run_queue>>

\* The queue to the caller is closed once the caller has stopped waiting.
Reply(c, m) ==
  IF call[c] = "get_mac"
  THEN /\ ret_queue' = [ret_queue EXCEPT ![c] = m]
       /\ run_queue' = run_queue \cup {c}
       /\ UNCHANGED panicked
  ELSE /\ panicked' = TRUE
       /\ UNCHANGED <<ret_queue, run_queue>>

\* The answer goes to whoever waits, whichever address it asked for.
ArpResponse_AnyListener ==
  /\ Receive({"arp_response"})
  /\ LET p == Head(queue).packet
     IN  /\ ips' = [ips EXCEPT ![p.ip] = p.mac]
         /\ \E h \in Hosts :
              /\ arp_bindings[h] # None
              /\ arp_bindings' = Unbind(arp_bindings, h)
              /\ Reply(arp_bindings[h], p.mac)
  /\ UNCHANGED <<device, ping_bindings, wire, call, mac, send, returned>>

ArpResponse ==
  /\ Receive({"arp_response"})
  /\ LET p == Head(queue).packet
         c == arp_bindings[p.ip]
     IN  /\ ips' = [ips EXCEPT ![p.ip] = p.mac]
         /\ arp_bindings' = Unbind(arp_bindings, p.ip)
         /\ IF c # None THEN Reply(c, p.mac)
                        ELSE UNCHANGED <<ret_queue, run_queue, panicked>>
  /\ UNCHANGED <<device, ping_bindings, wire, call, mac, send, returned>>

\* Answering an echo request is not implemented: todo!("").
EchoRequest ==
  /\ Receive({"echo_request"})
  /\ panicked' = TRUE
  /\ UNCHANGED <<device, bindings, wire, client>>

EchoReply_NoWake ==
  /\ Receive({"echo_reply"})
  /\ LET h == Head(queue).packet.ip
     IN  /\ ping_bindings' = Unbind(ping_bindings, h)
         /\ returned' = [c \in Clients |-> returned[c] \/ c = ping_bindings[h]]
  /\ UNCHANGED <<device, arp_bindings, ips, panicked, wire, call, ret_queue,
                 mac, send, run_queue>>

EchoReply ==
  /\ Receive({"echo_reply"})
  /\ LET h == Head(queue).packet.ip
         c == ping_bindings[h]
     IN  /\ ping_bindings' = Unbind(ping_bindings, h)
         /\ IF c # None
            THEN /\ returned' = [returned EXCEPT ![c] = TRUE]
                 /\ run_queue' = run_queue \cup {c}
            ELSE UNCHANGED <<returned, run_queue>>
  /\ UNCHANGED <<device, arp_bindings, ips, panicked, wire, call, ret_queue,
                 mac, send>>

DhcpTypes == {"offer", "ack", "nak"}

OfferExpected_Again(d, p) ==
  dhcp[d].state \in {"Discover", "Requested"} /\ p.type = "offer" /\ p.xid = Xid
AckExpected_AnyXid(d, p) == dhcp[d].state = "Requested" /\ p.type = "ack"

\* The two arms of the match that take part in the exchange.
OfferExpected(d, p) ==
  dhcp[d].state = "Discover" /\ p.type = "offer" /\ p.xid = Xid
AckExpected(d, p) ==
  dhcp[d].state = "Requested" /\ p.type = "ack" /\ p.xid = Xid

DhcpOffer ==
  /\ Receive(DhcpTypes)
  /\ LET d == Head(queue).id
         p == Head(queue).packet
     IN  /\ OfferExpected(d, p)
         /\ wire' = wire \cup {[type |-> "request", dev |-> d, ip |-> p.ip,
                                server |-> p.server]}
         /\ dhcp' = [dhcp EXCEPT ![d] = [state |-> "Requested", own_ip |-> p.ip,
                                         server_ip |-> p.server]]
  /\ UNCHANGED <<ip, indicator, bindings, panicked, client>>

DhcpAck ==
  /\ Receive(DhcpTypes)
  /\ LET d == Head(queue).id
     IN  /\ AckExpected(d, Head(queue).packet)
         /\ dhcp' = [dhcp EXCEPT ![d] = [state |-> "Done"]]
         /\ ip' = [ip EXCEPT ![d] = dhcp[d].own_ip]
         /\ indicator' = [indicator EXCEPT ![d] = TRUE]
  /\ UNCHANGED <<bindings, panicked, wire, client>>

DhcpUnexpected_NotRestored ==
  /\ Receive(DhcpTypes)
  /\ ~OfferExpected(Head(queue).id, Head(queue).packet)
  /\ ~AckExpected(Head(queue).id, Head(queue).packet)
  /\ dhcp' = [dhcp EXCEPT ![Head(queue).id] = [state |-> "Initial"]]
  /\ UNCHANGED <<ip, indicator, bindings, panicked, wire, client>>

\* metadata.dhcp was taken out to be matched on and is put back.
DhcpUnexpected ==
  /\ Receive(DhcpTypes)
  /\ ~OfferExpected(Head(queue).id, Head(queue).packet)
  /\ ~AckExpected(Head(queue).id, Head(queue).packet)
  /\ UNCHANGED <<device, bindings, panicked, wire, client>>

-----------------------------------------------------------------------------
(* The callers.                                                            *)

GetMac(c) ==
  /\ call[c] = "start" /\ c \in run_queue /\ ~panicked
  /\ queue' = Append(queue, [kind |-> "SendArpRequest", ip |-> Target[c],
                             from |-> c])
  /\ call' = [call EXCEPT ![c] = "get_mac"]
  /\ run_queue' = run_queue \ {c}
  /\ UNCHANGED <<started, device, bindings, panicked, wire, leases, ret_queue,
                 mac, send, returned>>

\* The dequeue in get_mac finds the answer, or that the queue was closed; the
\* caller does not expect the latter.
GetMacReturn(c) ==
  /\ call[c] = "get_mac" /\ c \in run_queue /\ ~panicked
  /\ IF ret_queue[c] # None
     THEN /\ mac' = [mac EXCEPT ![c] = ret_queue[c]]
          /\ call' = [call EXCEPT ![c] = "ping"]
          /\ UNCHANGED panicked
     ELSE /\ panicked' = TRUE
          /\ UNCHANGED <<mac, call>>
  /\ UNCHANGED <<queue, started, device, bindings, wire, leases, ret_queue,
                 send, returned, run_queue>>

\* PingFuture::poll while the reply is missing.
PingPending(c) ==
  /\ call[c] = "ping" /\ c \in run_queue /\ ~panicked
  /\ ~returned[c]
  /\ queue' = IF send[c] THEN queue
              ELSE Append(queue, [kind |-> "PingRequest", ip |-> Target[c],
                                  mac |-> mac[c], from |-> c])
  /\ send' = [send EXCEPT ![c] = TRUE]
  /\ run_queue' = run_queue \ {c}
  /\ UNCHANGED <<started, device, bindings, panicked, wire, leases, call,
                 ret_queue, mac, returned>>

\* PingFuture::poll when it has returned: the caller yields, which leaves it
\* in the run queue, and starts the next ping.
PingReady(c) ==
  /\ call[c] = "ping" /\ c \in run_queue /\ ~panicked
  /\ returned[c]
  /\ send' = [send EXCEPT ![c] = FALSE]
  /\ returned' = [returned EXCEPT ![c] = FALSE]
  /\ UNCHANGED <<queue, started, device, bindings, panicked, wire, leases,
                 call, ret_queue, mac, run_queue>>

Dhcp == DhcpOffer \/ DhcpAck \/ DhcpUnexpected
handle_packet_ == Filtered \/ Ignored \/ ArpRequest \/ ArpResponse
                  \/ EchoRequest \/ EchoReply \/ Dhcp
network_handler == Start \/ SendArpRequest \/ PingRequest \/ handle_packet_
Api(c) == GetMac(c) \/ GetMacReturn(c) \/ PingPending(c) \/ PingReady(c)
Network == Arrive \/ \E f \in wire : Answer(f) \/ Lose(f)

Next == network_handler \/ (\E c \in Clients : Api(c)) \/ Network

Spec == Init /\ [][Next]_vars

\* Every frame that can be sent.
Frames ==
  [type : {"discover"}, dev : Devices]
    \cup [type : {"request"}, dev : Devices, ip : Addrs, server : Servers]
    \cup [type : {"arp_request"}, dev : Devices, ip : Hosts, by : Clients]
    \cup [type : {"arp_response"}, dev : Devices, ip : Addrs]
    \cup [type : {"echo_request"}, dev : Devices, ip : Hosts, mac : Macs,
          by : Clients]

\* The executor polls every task it was asked to poll, and the network
\* answers every frame that it does not lose.
Fairness ==
  /\ WF_vars(network_handler)
  /\ \A c \in Clients : WF_vars(Api(c))
  /\ \A f \in Frames : WF_vars(Answer(f))

FairSpec == Spec /\ Fairness

-----------------------------------------------------------------------------
(* Properties.                                                             *)

Exchange ==
  [state : {"Initial", "Discover", "Done"}]
    \cup [state : {"Requested"}, own_ip : Addrs, server_ip : Servers]

\* Every variable has the type the code declares, and only frames the code
\* builds are on the network.
TypeOK ==
  /\ started \in BOOLEAN /\ panicked \in BOOLEAN
  /\ dhcp \in [Devices -> Exchange]
  /\ ip \in [Devices -> Addrs \cup {None}]
  /\ indicator \in [Devices -> BOOLEAN]
  /\ arp_bindings \in [Hosts -> Clients \cup {None}]
  /\ ping_bindings \in [Hosts -> Clients \cup {None}]
  /\ ips \in [Hosts -> Macs \cup {None}]
  /\ wire \subseteq Frames
  /\ leases \in [Addrs -> Devices \cup {None}]
  /\ call \in [Clients -> {"start", "get_mac", "ping"}]
  /\ ret_queue \in [Clients -> Macs \cup {None}]
  /\ mac \in [Clients -> Macs \cup {None}]
  /\ send \in [Clients -> BOOLEAN] /\ returned \in [Clients -> BOOLEAN]
  /\ run_queue \subseteq Clients

\* A device has an address exactly when its DHCP exchange is done, which is
\* when the indicator is set, whatever packets arrived in whatever order:
\* handle_packet_ takes the exchange out of the metadata to match on it and
\* every arm puts one back.
DhcpConsistent ==
  \A d \in Devices :
    /\ (dhcp[d].state = "Done") <=> (ip[d] # None)
    /\ indicator[d] <=> (ip[d] # None)
    /\ started => dhcp[d].state # "Initial"

\* The address a device uses, and the one it claims in an ARP response, was
\* leased to that device by a server: offers and acknowledgements that are
\* late, repeated or meant for another exchange never give it another one.
LeaseHeld ==
  /\ \A d \in Devices : ip[d] # None => leases[ip[d]] = d
  /\ \A f \in wire : f.type = "arp_response" => leases[f.ip] = f.dev

OnwardStep ==
  \A d \in Devices :
    /\ dhcp[d].state = "Requested" =>
         \/ dhcp'[d] = dhcp[d]
         \/ dhcp'[d].state = "Done" /\ ip'[d] = dhcp[d].own_ip
    /\ ip[d] # None => ip'[d] = ip[d]

\* The exchange only moves forward: once an offer has been accepted the device
\* goes on with that address, and an address once set is never replaced.
DhcpOnward == [][OnwardStep]_vars

\* get_mac answers with the MAC address of the host it was asked for, and the
\* table of known addresses is right, although the responses to the requests
\* of all the callers arrive mixed on the same queue.
MacTruthful ==
  /\ \A c \in Clients : /\ ret_queue[c] \in {None, HostMac[Target[c]]}
                        /\ mac[c] \in {None, HostMac[Target[c]]}
  /\ \A h \in Hosts : ips[h] \in {None, HostMac[h]}

QueuedFrom(kind, c) ==
  {i \in 1..Len(queue) : queue[i].kind = kind /\ queue[i].from = c}

\* A call of get_mac is in exactly one place: its request is queued, or its
\* listener is bound, or its answer is there.  A listener is never bound
\* after its caller has gone on, so the expect on try_enqueue never fails.
MacTracked ==
  \A c \in Clients :
    LET bound == {h \in Hosts : arp_bindings[h] = c}
        answer == {m \in {ret_queue[c]} : m # None}
        places == Cardinality(QueuedFrom("SendArpRequest", c))
                  + Cardinality(bound) + Cardinality(answer)
    IN  /\ places = IF call[c] = "start" THEN 0 ELSE 1
        /\ call[c] = "ping" => answer # {}

\* A ping that was asked for is in exactly one place: its request is queued,
\* or it is bound to its target, or it has returned.  So it is never
\* forgotten, and no reply reaches a PingFuture that has already returned.
PingTracked ==
  \A c \in Clients :
    LET bound == {h \in Hosts : ping_bindings[h] = c}
        answer == {r \in {returned[c]} : r}
    IN  Cardinality(QueuedFrom("PingRequest", c)) + Cardinality(bound)
          + Cardinality(answer) = IF send[c] THEN 1 ELSE 0

\* Every device obtains an address when the network loses nothing.
AddressObtained == \A d \in Devices : <>indicator[d]

\* "The Handler should send out an ARP-Request for the given IP address and
\* send the received Mac Address back over the provided Queue": every caller
\* of get_mac gets its answer when the network loses nothing.
MacAnswered ==
  \A c \in Clients : call[c] = "get_mac" ~> call[c] = "ping"

\* "use the waker to notify the User when the returning Ping was received":
\* every PingFuture that was sent becomes ready when the network loses nothing
\* and no other call has stopped the kernel.
PingAnswered ==
  \A c \in Clients : send[c] ~> (~send[c] \/ panicked)
=============================================================================
