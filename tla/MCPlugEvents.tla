------------------------------ MODULE MCPlugEvents ------------------------------
EXTENDS PlugEvents, TLC

\* Clients do the same, and so do sensors and devices.
Symmetric == Permutations(Clients) \cup Permutations(SensorIds) \cup Permutations(Devices)

=============================================================================
