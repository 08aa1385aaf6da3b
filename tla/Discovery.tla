----------------------------- MODULE Discovery -----------------------------
(***************************************************************************)
(* How a GigE camera is found: a discovery request is broadcast on every   *)
(* interface that is up (libcapture/src/interface.c), and the answers that *)
(* lie in their sockets a second later become devices, of which the first  *)
(* with the wanted address is taken (libcapture/src/device.c).  A host is  *)
(* a network and a number in it.                                           *)
(***************************************************************************)
EXTENDS Integers, Sequences

\* ifa_flags and sa_family of an interface of the system
Usable(iface) == iface.up /\ ~iface.pointToPoint /\ iface.family = "inet"

\* variant: the interface's own network is not compared
AcceptedFrom(iface, from) ==
  ~(from = iface.host /\ iface.host.net # "loopback")

\* what listen_discovery_answer lets through
Accepted(iface, from) ==
  /\ ~(from = iface.host /\ iface.host.net # "loopback")
  /\ iface.host.net = from.net

\* the events of an interface's socket before it fails or has no more; an
\* interface that cannot be bound has no socket
Listened(iface) ==
  {k \in DOMAIN iface.events : iface.bound /\ \A j \in 1..k : iface.events[j].kind # "error"}

\* the answers that become devices of one interface: a packet of a header only,
\* an interrupted call and an answer that is not accepted are passed over
DevicesOf(iface) ==
  {k \in Listened(iface) :
     iface.events[k].kind = "answer" /\ Accepted(iface, iface.events[k].from)}

\* the devices, each the number of its interface and of its answer there: they
\* lie in the list in that order
prepare_devices_list(ifaces) ==
  UNION {{i} \X DevicesOf(ifaces[i]) : i \in {i \in DOMAIN ifaces : Usable(ifaces[i])}}

\* the first device with that address; NULL is the empty set
device_find(ifaces, host) ==
  LET From(dev) == ifaces[dev[1]].events[dev[2]].from
      found == {dev \in prepare_devices_list(ifaces) : From(dev) = host}
      first == CHOOSE dev \in found : \A other \in found :
                 dev[1] < other[1] \/ (dev[1] = other[1] /\ dev[2] <= other[2])
  IN  IF found = {} THEN {} ELSE {[host |-> From(first), iface |-> ifaces[first[1]].host]}

-----------------------------------------------------------------------------
(* A device that is found is bound to an interface of its own network, so  *)
(* that its sockets can reach it; and a camera whose answer lies in a      *)
(* socket of its network that did not fail before it is found, whatever    *)
(* else answered there or elsewhere.                                       *)
DeviceReachable(ifaces, host) ==
  /\ \A dev \in device_find(ifaces, host) : dev.host = host /\ dev.iface.net = host.net
  /\ (\E i \in DOMAIN ifaces : \E k \in DOMAIN ifaces[i].events :
        /\ Usable(ifaces[i]) /\ ifaces[i].bound
        /\ ifaces[i].host.net = host.net /\ ifaces[i].host # host
        /\ ifaces[i].events[k].kind = "answer" /\ ifaces[i].events[k].from = host
        /\ \A j \in 1..k : ifaces[i].events[j].kind # "error")
     => device_find(ifaces, host) # {}

-----------------------------------------------------------------------------
(* The sockets of a search, while other threads of the process, those of   *)
(* sources that were started before, open and close files of their own.    *)
(* A file is the lowest number that is free.                               *)
Fds == 1..5

\* bound: whether each interface that is used can be bound; owner: who has
\* each number; fd: the interfaces' files, 0 for none; held: numbers the other
\* thread takes for its own, opened: how many it has opened
NewSearch(bound) ==
  [bound |-> bound, pc |-> "open", fd |-> <<>>, k |-> 1, owner |-> [n \in Fds |-> "nobody"],
   leaked |-> {}, held |-> {}, stolen |-> {}, opened |-> 0]

Lowest(s) == CHOOSE n \in Fds : s.owner[n] = "nobody" /\ \A m \in 1..n - 1 : s.owner[m] # "nobody"

\* interface_add and send_broadcast_discovery: an interface that cannot be
\* bound is left without its file, which stays open
send_broadcast_discovery(s) ==
  LET n == Lowest(s)
      t == [s EXCEPT !.owner[n] = "search"]
  IN  IF s.bound[Len(s.fd) + 1] THEN [t EXCEPT !.fd = Append(@, n)]
      ELSE [t EXCEPT !.fd = Append(@, 0), !.leaked = @ \cup {n}]

interface_add(s) ==
  LET t == send_broadcast_discovery(s)
  IN  IF Len(t.fd) = Len(s.bound) THEN [t EXCEPT !.pc = "listen"] ELSE t

\* close of an interface's file, whoever has that number by now
Close(s, n) ==
  IF n = 0 THEN s
  ELSE [s EXCEPT !.owner[n] = "nobody", !.stolen = IF n \in s.held THEN @ \cup {n} ELSE @]

\* to the next interface, and after the last to pc
Onward(s, pc) == IF s.k = Len(s.fd) THEN [s EXCEPT !.pc = pc, !.k = 1] ELSE [s EXCEPT !.k = @ + 1]

\* devices_discovery and prepare_devices_list: listening to an interface ends
\* with the close of its file
devices_discovery(s) == Onward(Close(s, s.fd[s.k]), "destroy")

\* ifaces_destroy with interface_delete, which closes it again
ifaces_destroy(s) == Onward(Close(s, s.fd[s.k]), "done")

SearchSteps(s) ==
  CASE s.pc = "open"    -> {interface_add(s)}
    [] s.pc = "listen"  -> {devices_discovery(s)}
    [] s.pc = "destroy" -> {ifaces_destroy(s)}
    [] OTHER -> {}

\* accept, or the end of a connection
OtherThread(s) ==
  LET n == Lowest(s)
  IN  (IF s.opened = 2 THEN {} ELSE {[s EXCEPT !.owner[n] = "other", !.held = @ \cup {n}, !.opened = @ + 1,
                                               !.stolen = @ \ {n}]})
        \cup {[s EXCEPT !.owner[m] = "nobody", !.held = @ \ {m}] : m \in s.held \ s.stolen}

(* A search that is over has left no file open but those of interfaces     *)
(* that could not be bound, and while it listens it takes no file from     *)
(* another thread; only when it closes its files again may it close one    *)
(* that the other has opened under a number the search had before.         *)
SocketsClosed(s) ==
  /\ s.pc = "done" => {n \in Fds : s.owner[n] = "search"} = s.leaked
  /\ s.stolen # {} => s.pc \in {"destroy", "done"} /\ \A n \in s.stolen : \E k \in DOMAIN s.fd : s.fd[k] = n
  /\ \A n \in s.held \ s.stolen : s.owner[n] = "other"
=============================================================================
