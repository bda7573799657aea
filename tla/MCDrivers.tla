----------------------------- MODULE MCDrivers -----------------------------
EXTENDS Drivers

Machine(k, s, bad) ==
  [kind |-> [i \in 0 .. 1 |-> k[i + 1]], streams |-> [i \in 0 .. 1 |-> s], defects |-> bad]

SomeMachines ==
  {Machine(<<"ata", "atapi">>, TRUE, {<<0, 5>>}), Machine(<<"atapi", "ata">>, TRUE, {<<1, 3>>}),
   Machine(<<"none", "ata">>, FALSE, {}), Machine(<<"none", "none">>, FALSE, {})}

SomeRequests ==
  {[drive |-> 0, lba |-> 5, num |-> 1], [drive |-> 0, lba |-> 6, num |-> 2],
   [drive |-> 1, lba |-> 2, num |-> 2]}
=============================================================================
