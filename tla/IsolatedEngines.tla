--------------------------- MODULE IsolatedEngines ---------------------------
(***************************************************************************)
(* What the multi-instance engine API promises a host: every handle stands *)
(* for a private simulation.  A call changes the simulation it names and   *)
(* no other, a new simulation starts from the beginning whatever ran in    *)
(* the process before it, and a destroyed one is gone.                     *)
(*                                                                         *)
(* EngineContexts implements this with ONE set of process globals that are *)
(* swapped in and out under a non-blocking guard.                          *)
(***************************************************************************)
EXTENDS Integers

CONSTANTS
  Engines,    \* Addresses an engine handle can have.
  Absent,     \* Marks a handle with no simulation behind it.
  MaxTicks    \* Bound on the simulation counter.

VARIABLE
  store       \* The simulation behind each handle: how far it has run.

Init == store = [e \in Engines |-> Absent]

\* oot_engine_create: a simulation that starts at tick zero.
Create(e) ==
  /\ store[e] = Absent
  /\ store' = [store EXCEPT ![e] = 0]

\* Any mutating call: one simulation moves on.
Use(e) ==
  /\ store[e] \in 0 .. MaxTicks - 1
  /\ store' = [store EXCEPT ![e] = @ + 1]

\* oot_engine_destroy.
Destroy(e) ==
  /\ store[e] # Absent
  /\ store' = [store EXCEPT ![e] = Absent]

Next == \E e \in Engines : Create(e) \/ Use(e) \/ Destroy(e)

Spec == Init /\ [][Next]_store
=============================================================================
