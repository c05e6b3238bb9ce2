------------------------------ MODULE MCServe ------------------------------
(***************************************************************************)
(* Instances of Serve for TLC: a host with loopback, a LAN interface, a    *)
(* second one whose subnet overlaps the first, and a VM bridge.            *)
(***************************************************************************)
EXTENDS ServeProps

CONSTANTS lo0, en0, en1, bridge100, ip1, ip2, ip3, ip4, lo1, lo2

MCInterface(name, ips, subnet) ==
  [name |-> name, ips |-> ips, subnet |-> subnet, up |-> TRUE,
   multicast |-> TRUE, pointToPoint |-> FALSE,
   loopback |-> name = lo0, virtual |-> name = bridge100]

MCInterfaces ==
  << MCInterface(lo0, {lo1}, {lo1, lo2}),
     MCInterface(en0, {ip1}, {ip1, ip2}),
     MCInterface(en1, {ip3}, {ip2, ip3}),
     MCInterface(bridge100, {ip3}, {ip3}) >>

(***************************************************************************)
(* Config.Interfaces: every LAN, or just one interface, virtual or         *)
(* without a usable address.                                               *)
(***************************************************************************)
MCOnly == {{}, {bridge100}, {lo0}}

=============================================================================
