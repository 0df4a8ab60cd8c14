------------------------------ MODULE MCTopology ------------------------------
(* What is made of the discovered network: roles, paths, drawings, the      *)
(* health of links, snapshots, and where an endpoint is.  The components    *)
(* share no state but rows that others write, and each module lets those    *)
(* change as they like: a behaviour is one of one component ("part"), and   *)
(* the others stay as they are at the start.                                *)
EXTENDS RoleDetection, CablePath, NetworkViews, LinkHealth, SnapshotDiff, EndpointTrace

(* Role detection: a device that scores nothing, and one that scores as     *)
(* core and, with fewer points, as others.                                  *)
Plain == [explicit |-> "none", hints |-> {}, neighbors |-> 0, links |-> 0, vlans |-> 0,
          trunks |-> 0, trunkLinks |-> 0, uplinks |-> 0, fast |-> 0, accessUp |-> 0,
          fdb |-> 0, ifaces |-> 1]
RoleSituations == {Plain, [Plain EXCEPT !.trunks = 8, !.uplinks = 6]}

CONSTANTS n1, n2, n3, n4, n5
Wire(d, p, e, q) == [a |-> [dev |-> d, port |-> p], b |-> [dev |-> e, port |-> q]]
(* A ring of five with a chord, a double link and a link of a device to     *)
(* itself, or parts of it.                                                  *)
PathNetworks ==
  {es \in SUBSET {Wire(n1, 1, n2, 1), Wire(n3, 1, n2, 2), Wire(n3, 2, n4, 1), Wire(n4, 2, n5, 2),
                  Wire(n5, 1, n1, 2), Wire(n1, 3, n2, 3), Wire(n3, 3, n1, 4), Wire(n4, 4, n4, 5)} :
     Cardinality(es) >= 5}
PathCores == {{}, {n3, n4}}

(* Views: a device with two interfaces between two with one. *)
ViewPorts == [a |-> 1, b |-> 2, c |-> 2, d |-> 3]
ViewPortIds == DOMAIN ViewPorts
ViewCables == {<<"a", "b">>, <<"c", "d">>, <<"a", "d">>}

HealthPowers == {-23, -18, -10}

(* An endpoint behind an uplink and an access port, known to ARP and IPAM. *)
CONSTANTS ta, tb, te, mac1, mac2, ip1
TraceRow(t, d, n, m, p, v) == [table |-> t, dev |-> d, name |-> n, mac |-> m, port |-> p, vlan |-> v]
TraceRows ==
  {TraceRow("fdb", ta, Nothing, mac1, 1, 10), TraceRow("fdb", tb, Nothing, mac1, 2, 20),
   TraceRow("fdb", tb, Nothing, mac2, 3, 20), TraceRow("arp", ta, ip1, mac1, 4, Nothing),
   TraceRow("device", te, ip1, mac1, Nothing, Nothing),
   TraceRow("device", tb, "host", Nothing, Nothing, Nothing),
   TraceRow("interface", te, Nothing, mac1, Nothing, Nothing),
   TraceRow("ipam", te, ip1, mac1, Nothing, Nothing)}

-----------------------------------------------------------------------------
VARIABLE part
topologyVars == <<part, roleVars, pathVars, viewVars, healthVars, snapVars, traceVars>>

(* A state of each component with more than one initial state. *)
RoleIdle == RoleInit /\ situation = [d \in RoleDevices |-> Plain]
PathIdle == /\ edges = {} /\ cores = {} /\ start = n1 /\ goal = n1 /\ toCore = FALSE
            /\ frontier = <<>> /\ prev = [d \in {n1} |-> NoEnd] /\ cursor = n1 /\ hops = <<>>
            /\ at = "search"
HealthIdle == HealthInit /\ \A s \in Sides : oper[s] = "up" /\ duplex[s] = "full"
SnapIdle == SnapInit /\ \A d \in SnapDevices : inventory[d].hostname = "sw1"
TraceIdle == TraceInit /\ rows = {}

TopologyInit ==
  /\ part \in {"roles", "path", "views", "health", "snapshots", "trace"}
  /\ IF part = "roles" THEN RoleInit ELSE RoleIdle
  /\ IF part = "path" THEN PathInit ELSE PathIdle
  /\ ViewInit
  /\ IF part = "health" THEN HealthInit ELSE HealthIdle
  /\ IF part = "snapshots" THEN SnapInit ELSE SnapIdle
  /\ IF part = "trace" THEN TraceInit ELSE TraceIdle

TopologyNext ==
  /\ UNCHANGED part
  /\ \/ part = "roles" /\ RoleNext /\ UNCHANGED <<pathVars, viewVars, healthVars, snapVars, traceVars>>
     \/ part = "path" /\ PathNext /\ UNCHANGED <<roleVars, viewVars, healthVars, snapVars, traceVars>>
     \/ part = "views" /\ ViewNext /\ UNCHANGED <<roleVars, pathVars, healthVars, snapVars, traceVars>>
     \/ part = "health" /\ HealthNext /\ UNCHANGED <<roleVars, pathVars, viewVars, snapVars, traceVars>>
     \/ part = "snapshots" /\ SnapNext /\ UNCHANGED <<roleVars, pathVars, viewVars, healthVars, traceVars>>
     \/ part = "trace" /\ TraceNext /\ UNCHANGED <<roleVars, pathVars, viewVars, healthVars, snapVars>>

TopologySpec == TopologyInit /\ [][TopologyNext]_topologyVars
=============================================================================
