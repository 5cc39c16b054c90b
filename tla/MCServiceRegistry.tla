------------------------- MODULE MCServiceRegistry -------------------------
(* MeshHost with ServiceRegistry for TLC: a topology as in main.config,    *)
(* the modes of a single service, and a cycle.                             *)
EXTENDS MeshHost

Service(name, deps, entry) == [name |-> name, deps |-> deps, entry |-> entry]

Full == <<Service("gateway", {"realm"}, TRUE),
          Service("realm", {"queue"}, FALSE), Service("queue", {}, FALSE)>>

Cyclic == <<Service("realm", {"queue"}, FALSE), Service("queue", {"realm"}, FALSE)>>

SomeTopologies == {Full, Narrowed(Full, "gateway"), Cyclic}
=============================================================================
