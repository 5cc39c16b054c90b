------------------------------ MODULE MeshHost ------------------------------
(***************************************************************************)
(* One process of the mesh: StartupTopology, MeshHost and its ServiceHosts *)
(* around the registry of one of the services, Own.                        *)
(*                                                                         *)
(* start_all starts the services one after the other, in waves; a service  *)
(* that fails takes down the ones before it.  Then the frames run until a  *)
(* signal comes or a module dies.  A module is up, fails or is not ready   *)
(* as it likes; the registrations of the other services are part of that.  *)
(***************************************************************************)
EXTENDS ServiceRegistry, Sequences

CONSTANTS
    Own,        \* the service whose registry is modelled
    Required,   \* discovery.required
    Waits,      \* mode2_waits_for_dependency
    Topologies  \* service lists: [name, deps, entry] in declaration order

ASSUME MeshAssumption ==
    Topologies \subseteq Seq([name : STRING, deps : SUBSET STRING, entry : BOOLEAN])

VARIABLES
    specs,   \* the service list of the process
    waves,   \* waves_: the wave of each service, once the list is accepted
    phase,   \* where main() is
    up       \* of each service: its host

mesh == <<specs, waves, phase, up>>
vars == <<registry, mesh>>

Services == 1..Len(specs)

-----------------------------------------------------------------------------
(* StartupTopology. *)
Dependencies(i) == {j \in Services : specs[j].name \in specs[i].deps}

Valid ==
    /\ \A i, j \in Services : specs[i].name = specs[j].name => i = j
    /\ \A i \in Services : \A name \in specs[i].deps :
         \E j \in Services : specs[j].name = name /\ ~specs[j].entry

(* Kahn's algorithm, a round at a time: the services whose dependencies    *)
(* are settled.  On a cycle some never are.                                *)
Settled[n \in Nat] ==
    IF n = 0 THEN {} ELSE {i \in Services : Dependencies(i) \subseteq Settled[n - 1]}

Accepted == Valid /\ Settled[Len(specs)] = Services

(* Mutant of Wave: every service that is no entry is in the first wave. *)
WaveFlat(i) == IF specs[i].entry THEN Len(specs) + 1 ELSE 1

(* A service is a wave above its deepest dependency; the entries are last. *)
Wave(i) ==
    IF specs[i].entry THEN Len(specs) + 1
    ELSE CHOOSE n \in Services : i \in Settled[n] /\ i \notin Settled[n - 1]

Before(i, j) == waves[i] < waves[j] \/ (waves[i] = waves[j] /\ i < j)

(* narrow_single_service *)
Narrowed(list, name) ==
    <<[list[CHOOSE i \in DOMAIN list : list[i].name = name] EXCEPT !.deps = {}]>>

Off == [i \in Services |-> "off"]

Init ==
    /\ RegistryInit
    /\ specs \in Topologies /\ waves = <<>> /\ phase = "off" /\ up = Off

-----------------------------------------------------------------------------
(* main: a list that is not accepted ends the process. *)
Boot ==
    /\ phase = "off"
    /\ IF Accepted
         THEN phase' = "start" /\ waves' = [i \in Services |-> Wave(i)]
         ELSE phase' = "refused" /\ UNCHANGED waves
    /\ UNCHANGED <<specs, up, registry>>

(* mode2_dependency_ready: a lone service waits for its dependency. *)
DependencyMissing ==
    /\ phase = "start" /\ Len(specs) = 1 /\ specs[1].name \in Waits /\ up[1] = "off"
    /\ phase' = "exited"
    /\ UNCHANGED <<specs, waves, up, registry>>

(* start_all: the turn of a service. *)
Upcoming(i) ==
    /\ phase = "start" /\ up[i] = "off"
    /\ \A j \in Services : Before(j, i) => up[j] = "up"

(* Its host throws and is gone, or is not ready; the others are stopped    *)
(* before such a host is.                                                  *)
HostFails ==
    \E i \in Services :
      /\ Upcoming(i)
      /\ phase' = "down"
      /\ up' \in {up, [up EXCEPT ![i] = "late"]}
      /\ UNCHANGED <<specs, waves, registry>>

HostStarts ==
    \E i \in Services :
      /\ Upcoming(i)
      /\ \/ /\ specs[i].name # Own
            /\ up' = [up EXCEPT ![i] = "up"] /\ UNCHANGED registry
         \/ /\ specs[i].name = Own
            /\ Launch /\ up' = [up EXCEPT ![i] = "launched"]
      /\ UNCHANGED <<specs, waves, phase>>

(* ServiceHost::start of the service Own: one attempt to register.         *)
FirstTick(i) ==
    /\ up[i] = "launched"
    /\ \/ RegisterStart
       \/ Fault /\ UNCHANGED <<etcd, service, resolver>>
    /\ up' = [up EXCEPT ![i] = "registering"]
    /\ UNCHANGED <<specs, waves, phase>>

Started(i) ==
    /\ up[i] = "registering" /\ register = None /\ reg # None
    /\ up' = [up EXCEPT ![i] = "up"]
    /\ UNCHANGED <<specs, waves, phase, registry>>

(* Without a registration it gives up, or is not ready; a module may be    *)
(* not ready in any case.                                                  *)
NotStarted(i) ==
    /\ up[i] = "registering" /\ register = None
    /\ phase' = "down"
    /\ IF Required /\ reg = None
         THEN up' = [up EXCEPT ![i] = "off"] /\ Down /\ UNCHANGED <<etcd, faults>>
         ELSE up' = [up EXCEPT ![i] = "late"] /\ UNCHANGED registry
    /\ UNCHANGED <<specs, waves>>

(* entry_ready, and the frames begin. *)
AllStarted ==
    /\ phase = "start" /\ \A i \in Services : up[i] = "up"
    /\ phase' = "run"
    /\ UNCHANGED <<specs, waves, up, registry>>

-----------------------------------------------------------------------------
(* The frames: what the frame thread does with the registry. *)
Frame ==
    /\ phase = "run"
    /\ RegisterStart \/ PutStart \/ Change
    /\ UNCHANGED mesh

(* A signal, or a module that died, between two frames. *)
FramesEnd ==
    /\ phase = "run" /\ register = None /\ put = None
    /\ phase' = "down"
    /\ UNCHANGED <<specs, waves, up, registry>>

(* shutdown_order, and a host that was not ready last. *)
Leaving(i) ==
    /\ phase = "down" /\ \A j \in Services : up[j] # "leaving"
    /\ \/ up[i] = "up" /\ \A j \in Services : Before(i, j) => up[j] # "up"
       \/ up[i] = "late" /\ \A j \in Services : up[j] # "up"

HostStops ==
    \E i \in Services :
      /\ Leaving(i)
      /\ IF specs[i].name = Own /\ running
           THEN Unregister /\ up' = [up EXCEPT ![i] = "leaving"]
           ELSE up' = [up EXCEPT ![i] = "off"] /\ UNCHANGED registry
      /\ UNCHANGED <<specs, waves, phase>>

HostStopped(i) ==
    /\ up[i] = "leaving" /\ Joined
    /\ up' = [up EXCEPT ![i] = "off"]
    /\ UNCHANGED <<specs, waves, phase>>

Exit ==
    /\ phase = "down" /\ up = Off
    /\ phase' = "exited"
    /\ UNCHANGED <<specs, waves, up, registry>>

ProcessCrash ==
    /\ Crash
    /\ phase' = "exited" /\ up' = Off
    /\ UNCHANGED <<specs, waves>>

Again == phase = "exited" /\ phase' = "off" /\ UNCHANGED <<specs, waves, up, registry>>

-----------------------------------------------------------------------------
Starting ==
    \/ Boot \/ DependencyMissing \/ HostFails \/ HostStarts \/ AllStarted
    \/ \E i \in Services : FirstTick(i) \/ Started(i) \/ NotStarted(i)

Stopping == HostStops \/ Exit \/ \E i \in Services : HostStopped(i)

Calls ==
    /\ RegisterTxn \/ RegisterFails \/ PutSent \/ PutEnd
    /\ UNCHANGED mesh

Maintain  == Refresher /\ UNCHANGED mesh
Paced     == Wait /\ UNCHANGED mesh
Resolve   == Elsewhere /\ UNCHANGED mesh
Applied   == LatePut /\ UNCHANGED mesh
RunsOut(l) == Expire(l) /\ UNCHANGED mesh

Next ==
    \/ Starting \/ Frame \/ Calls \/ Maintain \/ Paced \/ FramesEnd \/ Stopping
    \/ ProcessCrash \/ Again \/ Resolve \/ Applied
    \/ \E l \in Leases : RunsOut(l)

(* Every thread runs, and etcd answers when nothing fails.  A lease that   *)
(* nobody keeps runs out.                                                  *)
Fairness ==
    /\ WF_vars(Starting) /\ WF_vars(Stopping)
    /\ WF_vars(Frame /\ (RegisterStart \/ PutStart)) /\ WF_vars(Calls)
    /\ SF_vars(PutLive /\ UNCHANGED mesh)
    /\ WF_vars(Maintain) /\ WF_vars(Paced) /\ WF_vars(Applied)
    /\ WF_vars((Watch \/ Delivered) /\ UNCHANGED mesh) /\ WF_vars(Poller /\ UNCHANGED mesh)
    /\ \A l \in Leases : WF_vars(~InUse(l) /\ RunsOut(l))

Spec == Init /\ [][Next]_vars /\ Fairness

-----------------------------------------------------------------------------
(* No service runs without the services that it depends on, and no entry   *)
(* without all of them: through the start, a failure in any place, and the *)
(* shutdown (mesh_host.hpp: stopped in reverse order of the topology).     *)
(* A host that was started and not ready is left out: it is not among the  *)
(* hosts that shutdown stops.                                              *)
NothingMissing ==
    \A i \in Services : up[i] = "up" =>
      \A j \in Services \ {i} :
        j \in Dependencies(i) \/ (specs[i].entry /\ ~specs[j].entry) => up[j] = "up"

(* The frames begin only when every service is up and registered: the      *)
(* launcher lets no service through that is not ready (README).            *)
RunsWhole ==
    phase = "run" => /\ \A i \in Services : up[i] = "up"
                     /\ (\E i \in Services : specs[i].name = Own) => reg # None

(* The process is whole, or it goes down in order. *)
WholeOrDown == NothingMissing /\ RunsWhole
=============================================================================
