---------------------------- MODULE ConsumerHost ----------------------------
(***************************************************************************)
(* What MeshConsumer takes for granted of the process that hosts a worker, *)
(* as a specification of its own: the modes of the process, and the loop   *)
(* of the worker as far as it depends on them.  The names are those of     *)
(* MeshConsumer; messages, handler and settling calls are left out.        *)
(* ServiceLifecycle implements this specification.                         *)
(***************************************************************************)

VARIABLES
    mode,  \* down, starting, running, draining or cancelled
    at     \* the worker: stopped, poll, read or handle

hostVars == <<mode, at>>

Become(m, a) == mode' = m /\ at' = a

Start == mode = "down" /\ Become("starting", "poll")

Ready == mode = "starting" /\ Become("running", at)

HealthListenFails == mode = "starting" /\ Become("draining", at)

Shutdown == mode = "running" /\ Become("cancelled", at)

\* The worker returns, or the process dies.
Exit == Become("down", "stopped")

Crash == at # "stopped" /\ Exit

WorkerSelect ==
    /\ at = "poll"
    /\ \/ mode \in {"starting", "running"} /\ Become(mode, "read")
       \/ mode \in {"draining", "cancelled"} /\ Exit

Read ==
    /\ at = "read"
    /\ \/ mode # "cancelled" /\ (Become(mode, "handle") \/ Become(mode, "poll"))
       \/ mode = "cancelled" /\ Exit

Process == at = "handle" /\ Become(mode, "poll")

Init == mode = "down" /\ at = "stopped"

Next ==
    \/ Start \/ Ready \/ HealthListenFails \/ Shutdown \/ Crash
    \/ WorkerSelect \/ Read \/ Process

Spec == Init /\ [][Next]_hostVars
=============================================================================
