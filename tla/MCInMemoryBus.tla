--------------------------- MODULE MCInMemoryBus ---------------------------
(* InMemoryBus for TLC.  The consumers are interchangeable, but the runs    *)
(* check liveness, for which symmetry is not sound.                        *)
EXTENDS InMemoryBus, TLC
=============================================================================
