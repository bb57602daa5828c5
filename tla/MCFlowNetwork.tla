--------------------------- MODULE MCFlowNetwork ---------------------------
(***************************************************************************)
(* A flow of each class alone over two paths that lose packets, and three  *)
(* pFabric flows, two of one host and one of the other; and a pFabric flow *)
(* of each host, when a timer may be early.                                *)
(***************************************************************************)
EXTENDS FlowNetwork

User(class, size, src) == [class |-> class, size |-> size, src |-> src]

Sprayed(class, size) ==
  [queue_type |-> "ProbDropQueue", paths |-> 2, max_faults |-> 2,
   users |-> <<User(class, size, "a")>>]

PFabric ==
  [queue_type |-> "PFabricQueue", paths |-> 1, max_faults |-> 0,
   users |-> <<User("PFabricFlow", 7, "a"), User("PFabricFlow", 3, "b"),
               User("PFabricFlow", 3, "a")>>]

\* With an early timer.
PFabricEarly ==
  [queue_type |-> "PFabricQueue", paths |-> 1, max_faults |-> 1,
   users |-> <<User("PFabricFlow", 5, "a"), User("PFabricFlow", 3, "b")>>]

Networks ==
  {Sprayed("Flow", 5), Sprayed("PFabricFlow", 5), Sprayed("TCPFlow", 3),
   Sprayed("DctcpFlow", 5), Sprayed("DctcpFlow", 6), PFabric, PFabricEarly}

\* The queues of the pFabric networks hold their acknowledgements.
ASSUME AcksAlwaysFit == \A c \in Networks : AcksFit(c)

=============================================================================
