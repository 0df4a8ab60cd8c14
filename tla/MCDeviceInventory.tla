------------------------- MODULE MCDeviceInventory -------------------------
(* DeviceInventory on two switches, for TLC.                               *)
EXTENDS DeviceInventory, TLC

CONSTANTS s1, s2, x, y, sn, e1, mx, my

Base == [raised |-> FALSE, descr |-> TRUE, dns |-> "bare", oui |-> "unknown", serial |-> None,
         host |-> "name", vendor |-> "vendor", mac |-> None, ifaces |-> {e1}, lldp |-> <<>>, fdb |-> <<>>, arp |-> <<>>]
(* Nothing usable, and a collection that raised. *)
Generic == [Base EXCEPT !.descr = FALSE, !.host = "bare", !.vendor = "unknown", !.ifaces = {}]
(* x names its neighbour by LLDP or finds itself and y in its FDB; y finds  *)
(* x in its ARP table.  Both may fail to answer SNMP.  The serial number is *)
(* the same: the addresses may be of one router.                            *)
MCReports ==
  [a \in {x, y} |->
     IF a = x
     THEN {Generic,
           [Base EXCEPT !.serial = sn, !.mac = mx, !.lldp = <<[port |-> e1, ip |-> y, remote |-> e1]>>],
           [Base EXCEPT !.mac = mx, !.fdb = <<[port |-> e1, mac |-> mx], [port |-> e1, mac |-> my]>>]}
     ELSE {[Generic EXCEPT !.raised = TRUE, !.mac = my],
           [Base EXCEPT !.serial = sn, !.mac = my],
           [Base EXCEPT !.arp = <<[port |-> e1, ip |-> x]>>]}]
MCTargets == [s \in {s1, s2} |-> IF s = s1 THEN <<x, y>> ELSE <<y, x>>]
=============================================================================
