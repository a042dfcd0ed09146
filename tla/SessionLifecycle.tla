--------------------------- MODULE SessionLifecycle ---------------------------
(***************************************************************************)
(* What a device session promises, stated from spec.md section 4.3 and    *)
(* the Device Session entry of section 3: open drives the state machine    *)
(* Uninitialized -> ContextCreated -> DescriptorResolved -> StreamOpen ->  *)
(* DeviceOpen -> Ready, each state holding the resources acquired on the   *)
(* way to it; a failing transition releases every one of them and leaves   *)
(* no partial session; close releases them all.  Registering the events   *)
(* acquires nothing, so EventsRegistered and Ready are one state here.     *)
(* A closed session is one nothing is held for: the application may open  *)
(* its block again, so Closed and Uninitialized are one state too.         *)
(***************************************************************************)
VARIABLES
    state,   \* where the session is in the open state machine
    held     \* the resources the session holds

(* The transition of open out of each state.                               *)
Succ == [Uninitialized      |-> "ContextCreated",
         ContextCreated     |-> "DescriptorResolved",
         DescriptorResolved |-> "StreamOpen",
         StreamOpen         |-> "DeviceOpen",
         DeviceOpen         |-> "Ready"]

(* What a session holds in each state: everything acquired on the way.   *)
HeldIn == [Uninitialized      |-> {},
           ContextCreated     |-> {"context"},
           DescriptorResolved |-> {"context", "descriptor"},
           StreamOpen         |-> {"context", "descriptor", "stream"},
           DeviceOpen         |-> {"context", "descriptor", "stream", "device"},
           Ready              |-> {"context", "descriptor", "stream", "device"}]

AInit == state = "Uninitialized" /\ held = {}

(* One transition of open succeeds.                                        *)
Advance ==
    /\ state \in DOMAIN Succ
    /\ state' = Succ[state]
    /\ held' = HeldIn[state']

(* A transition of open fails: what was acquired is released and the       *)
(* failure goes back to the caller.                                        *)
Fail ==
    /\ state \notin {"Uninitialized", "Ready"}
    /\ state' = "Uninitialized"
    /\ held' = {}

(* close releases everything the session holds.                           *)
Close ==
    /\ state = "Ready"
    /\ state' = "Uninitialized"
    /\ held' = {}

ANext == Advance \/ Fail \/ Close

ASpec == AInit /\ [][ANext]_<<state, held>>

=============================================================================
