--------------------- MODULE MCGenericConnectionHandler ---------------------
(***************************************************************************)
(* GenericConnectionHandler with the constants of the TLC runs.            *)
(***************************************************************************)
EXTENDS GenericConnectionHandler

\* Every state is due at each tick of the clock.
EveryTick == [st \in NetworkConnectionState |-> 0]

\* Every state but INIT is due at each tick of the clock: the outer's state shows in
\* when check() runs.
SlowInit == [st \in NetworkConnectionState |-> IF st = "INIT" THEN 1 ELSE 0]

OneTable == {SlowInit}

=============================================================================
