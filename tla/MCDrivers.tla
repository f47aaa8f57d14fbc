----------------------------- MODULE MCDrivers ------------------------------
(* The programs around the code: the fold circuit, the drivers of the spikes,
   their benches and the GPU battery.  They share nothing, and each is checked
   on its own while the others rest in an initial state; part says which.  *)
EXTENDS FoldCircuit, SpikeHosts, SpikeBench, GpuBattery

VARIABLE part

(* Fold: every high byte over both ends of the low one, twice.             *)
Bit(n, b) == (n \div 2^b) % 2
MCCoefficients ==
  {[b \in 0..15 |-> IF b < 8 THEN low ELSE Bit(high, b - 8)] : low \in {0, 1}, high \in 0..255}

(* Hosts: no bytes, one, two that differ in order only from a frame, three, and
   one more than the cast keeps; a frame of two bytes, and two steps.      *)
MCInputs == {<< >>, <<1>>, <<0, 1>>, <<0, 1, 1>>, <<1, 0, 0, 1>>}

(* Benches: the first two sizes.                                           *)
MCSizes == <<"1k", "1m">>

HostsRest == HostsInit /\ system = "sp1" /\ out = Absent
BenchRests == BenchInit /\ present = {}
BatteryRests == BatteryInit /\ ~has_gpu /\ ~binary

MCInit ==
  \/ part = "fold" /\ FoldInit /\ HostsRest /\ BenchRests /\ BatteryRests
  \/ part = "hosts" /\ FoldInit /\ HostsInit /\ BenchRests /\ BatteryRests
  \/ part = "bench" /\ FoldInit /\ HostsRest /\ BenchInit /\ BatteryRests
  \/ part = "battery" /\ FoldInit /\ HostsRest /\ BenchRests /\ BatteryInit

MCNext ==
  /\ UNCHANGED part
  /\ \/ part = "fold" /\ FoldNext /\ UNCHANGED <<hostVars, benchVars, batteryVars>>
     \/ part = "hosts" /\ HostsNext /\ UNCHANGED <<foldVars, benchVars, batteryVars>>
     \/ part = "bench" /\ BenchNext /\ UNCHANGED <<foldVars, hostVars, batteryVars>>
     \/ part = "battery" /\ BatteryNext /\ UNCHANGED <<foldVars, hostVars, benchVars>>

MCSpec == MCInit /\ [][MCNext]_<<part, foldVars, hostVars, benchVars, batteryVars>>
=============================================================================
