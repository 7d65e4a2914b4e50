------------------------------ MODULE CallGate ------------------------------
(***************************************************************************)
(* What a link between two objects on different threads promises to them,  *)
(* whatever it is built from (src/util/commutex.h, header comment):        *)
(* destruction of one end prevents calls forever, and a call in progress   *)
(* excludes other calls and the destruction of the object that is called.  *)
(***************************************************************************)
CONSTANT Ends          \* the objects the link joins

VARIABLES open,        \* calls may still begin
          calling,     \* the ends that are touching the other object now
          alive        \* the ends whose object still exists

gateVars == <<open, calling, alive>>

GateInit == /\ open = TRUE
            /\ calling = {}
            /\ alive = Ends

\* e starts to touch the other object.
Begin(e) == /\ open
            /\ calling = {}
            /\ e \in alive
            /\ calling' = {e}
            /\ UNCHANGED <<open, alive>>

\* e is done with the other object; the gate stays open.
End(e) == /\ calling = {e}
          /\ calling' = {}
          /\ UNCHANGED <<open, alive>>

\* e breaks the link, either from inside its own call or while nobody calls.
Break(e) == /\ open
            /\ calling \subseteq {e}
            /\ e \in alive
            /\ open' = FALSE
            /\ calling' = {}
            /\ UNCHANGED alive

\* The object of e ceases to exist: only behind a broken link.
Retire(e) == /\ ~open
             /\ e \in alive
             /\ alive' = alive \ {e}
             /\ UNCHANGED <<open, calling>>

GateNext == \E e \in Ends : Begin(e) \/ End(e) \/ Break(e) \/ Retire(e)

GateSpec == GateInit /\ [][GateNext]_gateVars
=============================================================================
