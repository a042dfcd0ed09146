---------------------- MODULE DeviceSessionRefinement ----------------------
(***************************************************************************)
(* Proof that the device session of configuredc.c implements the state    *)
(* machine of spec 4.3 (SessionLifecycle) under the mapping of             *)
(* DeviceSession: state <- SessionState, held <- SessionHeld.               *)
(*                                                                         *)
(* The argument has two halves.  IInv fixes, for each place pc of          *)
(* open_ble_device, which pointers of the block are set and that each      *)
(* live object has its pointer; so what the session holds is always what   *)
(* its abstract state holds (HeldMatch).  And each step moves the abstract *)
(* state one transition along the chain, back to Uninitialized, or not at *)
(* all (StateMoves).  Together they make every step an abstract step.      *)
(***************************************************************************)
EXTENDS DeviceSessionProofs

Resources == {"context", "descriptor", "stream", "device"}

(* What the session holds is what its abstract state says it holds.       *)
HeldMatch == SessionHeld = SL!HeldIn[SessionState]

-----------------------------------------------------------------------------
(* The abstract state at each place of the code.                           *)
LEMMA StateOfPc ==
    /\ pc = "descriptor" => SessionState = "ContextCreated"
    /\ pc = "packet" => SessionState = "DescriptorResolved"
    /\ pc = "device" => SessionState = "StreamOpen"
    /\ pc = "events" => SessionState = "DeviceOpen"
    /\ pc = "idle" /\ data.device => SessionState = "Ready"
    /\ pc \in {"identify", "open"} \/ (pc = "idle" /\ ~data.device) =>
          SessionState = "Uninitialized"
BY DEF SessionState

LEMMA StateOfPcAfter ==
    /\ pc' = "descriptor" => SessionState' = "ContextCreated"
    /\ pc' = "packet" => SessionState' = "DescriptorResolved"
    /\ pc' = "device" => SessionState' = "StreamOpen"
    /\ pc' = "events" => SessionState' = "DeviceOpen"
    /\ pc' = "idle" /\ data'.device => SessionState' = "Ready"
    /\ pc' \in {"identify", "open"} \/ (pc' = "idle" /\ ~data'.device) =>
          SessionState' = "Uninitialized"
BY DEF SessionState

(* With the counts accounted for, a resource is held exactly when the     *)
(* block (or the local descriptor) points to it.                           *)
LEMMA HeldIsPointers ==
    ASSUME IInv
    PROVE  SessionHeld = {r \in Resources :
                             \/ r = "context" /\ data.context
                             \/ r = "descriptor" /\ (data.descriptor \/ desc)
                             \/ r = "stream" /\ data.iostream
                             \/ r = "device" /\ data.device}
<1>0. /\ data.context \in BOOLEAN /\ data.iostream \in BOOLEAN
      /\ data.device \in BOOLEAN /\ data.descriptor \in BOOLEAN
      /\ desc \in BOOLEAN /\ live \in [Kinds -> Nat]
  BY DEF IInv, TypeOK, Fields
<1>1. /\ live["ctx"] = Count(data.context)
      /\ live["obj"] = Count(data.iostream)
      /\ live["stream"] = Count(data.iostream)
      /\ live["dev"] = Count(data.device)
  BY DEF IInv, Accounted
<1>2. /\ HeldBy.context <=> data.context
      /\ HeldBy.descriptor <=> data.descriptor \/ desc
      /\ HeldBy.stream <=> data.iostream
      /\ HeldBy.device <=> data.device
  BY <1>0, <1>1 DEF HeldBy, Count
<1>3. DOMAIN HeldBy = Resources
  BY DEF HeldBy, Resources
<1>. QED  BY <1>2, <1>3 DEF SessionHeld, Resources

(* IInv ties the pointers to the place in open_ble_device, so the session  *)
(* holds what its abstract state holds.                                     *)
LEMMA IInvHeldMatch ==
    ASSUME IInv
    PROVE  HeldMatch
<1>0. /\ pc \in PC
      /\ data.context \in BOOLEAN /\ data.iostream \in BOOLEAN
      /\ data.device \in BOOLEAN /\ data.descriptor \in BOOLEAN
      /\ desc \in BOOLEAN
  BY DEF IInv, TypeOK, Fields
<1>1. SessionHeld = {r \in Resources :
                        \/ r = "context" /\ data.context
                        \/ r = "descriptor" /\ (data.descriptor \/ desc)
                        \/ r = "stream" /\ data.iostream
                        \/ r = "device" /\ data.device}
  BY HeldIsPointers
<1>2. OpenShape /\ SessionWellFormed
  BY DEF IInv
<1>3. CASE pc = "idle" /\ data.device
  <2>1. data.context /\ data.iostream /\ data.descriptor
    BY <1>2, <1>3 DEF SessionWellFormed
  <2>2. SessionState = "Ready"
    BY <1>3, StateOfPc
  <2>. QED  BY <1>1, <2>1, <2>2, <1>3 DEF HeldMatch, SL!HeldIn, Resources
<1>4. CASE pc = "idle" /\ ~data.device
  <2>1. ~data.context /\ ~data.iostream /\ ~data.descriptor /\ ~desc
    BY <1>0, <1>2, <1>4 DEF OpenShape
  <2>2. SessionState = "Uninitialized"
    BY <1>4, StateOfPc
  <2>. QED  BY <1>1, <2>1, <2>2, <1>4 DEF HeldMatch, SL!HeldIn, Resources
<1>5. CASE pc \in {"identify", "open"}
  <2>1. ~data.context /\ ~data.iostream /\ ~data.device /\ ~data.descriptor
        /\ ~desc
    BY <1>2, <1>5 DEF OpenShape
  <2>2. SessionState = "Uninitialized"
    BY <1>5, StateOfPc
  <2>. QED  BY <1>1, <2>1, <2>2 DEF HeldMatch, SL!HeldIn, Resources
<1>6. CASE pc = "descriptor"
  <2>1. data.context /\ ~data.iostream /\ ~data.device /\ ~data.descriptor
        /\ ~desc
    BY <1>2, <1>6 DEF OpenShape
  <2>2. SessionState = "ContextCreated"
    BY <1>6, StateOfPc
  <2>. QED  BY <1>1, <2>1, <2>2 DEF HeldMatch, SL!HeldIn, Resources
<1>7. CASE pc = "packet"
  <2>1. data.context /\ desc /\ ~data.iostream /\ ~data.device
    BY <1>2, <1>7 DEF OpenShape
  <2>2. SessionState = "DescriptorResolved"
    BY <1>7, StateOfPc
  <2>. QED  BY <1>1, <2>1, <2>2 DEF HeldMatch, SL!HeldIn, Resources
<1>8. CASE pc = "device"
  <2>1. data.context /\ desc /\ data.iostream /\ ~data.device
    BY <1>2, <1>8 DEF OpenShape
  <2>2. SessionState = "StreamOpen"
    BY <1>8, StateOfPc
  <2>. QED  BY <1>1, <2>1, <2>2 DEF HeldMatch, SL!HeldIn, Resources
<1>9. CASE pc = "events"
  <2>1. data.context /\ desc /\ data.iostream /\ data.device
    BY <1>2, <1>9 DEF OpenShape
  <2>2. SessionState = "DeviceOpen"
    BY <1>9, StateOfPc
  <2>. QED  BY <1>1, <2>1, <2>2 DEF HeldMatch, SL!HeldIn, Resources
<1>. QED  BY <1>0, <1>3, <1>4, <1>5, <1>6, <1>7, <1>8, <1>9 DEF PC

-----------------------------------------------------------------------------
(* How one step may move the abstract state: not at all, one transition   *)
(* of open, or back to Uninitialized from anywhere else.                   *)
Moves ==
    \/ SessionState' = SessionState
    \/ SessionState \in DOMAIN SL!Succ /\ SessionState' = SL!Succ[SessionState]
    \/ SessionState # "Uninitialized" /\ SessionState' = "Uninitialized"

(* A failed open goes back to the caller with no device.                   *)
LEMMA ReturnFailedUninit ==
    ASSUME NEW l, Return(FALSE, l), ~data'.device
    PROVE  SessionState' = "Uninitialized"
<1>1. pc' \in {"identify", "idle"}
  BY DEF Return
<1>. QED  BY <1>1, StateOfPcAfter

(* close_device_data on a failing step of open leaves no session.          *)
LEMMA OpenFailsUninit ==
    ASSUME data \in [Fields -> BOOLEAN], NEW l, OpenFails(l)
    PROVE  SessionState' = "Uninitialized"
<1>1. ~data'.device
  BY ClosedDataFacts DEF OpenFails
<1>2. Return(FALSE, CloseLive(data, l))
  BY DEF OpenFails
<1>. QED  BY <1>1, <1>2, ReturnFailedUninit

(* The code's steps move the abstract state as Moves allows.               *)
LEMMA StateMoves ==
    ASSUME IInv, [Next]_vars
    PROVE  Moves
<1>0. /\ data \in [Fields -> BOOLEAN] /\ pc \in PC
      /\ OpenShape /\ SessionWellFormed
  BY DEF IInv, TypeOK
<1>1. CASE app_open_ble_device
  <2>1. SessionState = "Uninitialized" /\ SessionState' = "Uninitialized"
    BY <1>1, StateOfPc, StateOfPcAfter DEF app_open_ble_device
  <2>. QED  BY <2>1 DEF Moves
<1>2. CASE open_ble_device_with_identification
  <2>1. SessionState = "Uninitialized"
    BY <1>2, StateOfPc DEF open_ble_device_with_identification
  <2>2. \/ pc' = pc /\ data' = data
        \/ pc' \in {"open", "identify"}
    BY <1>2 DEF open_ble_device_with_identification
  <2>3. SessionState' = "Uninitialized"
    BY <1>2, <2>2, StateOfPcAfter DEF open_ble_device_with_identification
  <2>. QED  BY <2>1, <2>3 DEF Moves
<1>3. CASE get_device_info_from_name
  <2>1. pc = "identify" /\ ~data.device /\ data' = data
        /\ pc' \in {"open", "idle"}
    BY <1>0, <1>3 DEF get_device_info_from_name, OpenShape
  <2>2. SessionState = "Uninitialized" /\ SessionState' = "Uninitialized"
    BY <2>1, StateOfPc, StateOfPcAfter
  <2>. QED  BY <2>2 DEF Moves
<1>4. CASE open_ble_device_context
  <2>1. pc = "open" /\ ~data.device
    BY <1>0, <1>4 DEF open_ble_device_context, OpenShape
  <2>2. SessionState = "Uninitialized"
    BY <2>1, StateOfPc
  <2>3. CASE pc' = "descriptor"
    <3>1. SessionState' = "ContextCreated"
      BY <2>3, StateOfPcAfter
    <3>. QED  BY <2>2, <3>1 DEF Moves, SL!Succ
  <2>4. CASE pc' # "descriptor"
    <3>1. \/ ~devaddr /\ Return(FALSE, live) /\ data' = data
          \/ data' = NullData /\ Return(FALSE, live)
      BY <1>4, <2>4 DEF open_ble_device_context
    <3>2. ~data'.device
      BY <2>1, <3>1, NullDataFacts, KindFacts
    <3>. QED  BY <2>2, <3>1, <3>2, ReturnFailedUninit DEF Moves
  <2>. QED  BY <2>3, <2>4
<1>5. CASE open_ble_device_descriptor
  <2>1. SessionState = "ContextCreated"
    BY <1>5, StateOfPc DEF open_ble_device_descriptor
  <2>2. CASE pc' = "packet"
    BY <2>1, <2>2, StateOfPcAfter DEF Moves, SL!Succ
  <2>3. CASE OpenFails(live)
    BY <1>0, <2>1, <2>3, OpenFailsUninit DEF Moves
  <2>. QED  BY <1>5, <2>2, <2>3 DEF open_ble_device_descriptor
<1>6. CASE open_ble_device_packet_open
  <2>1. SessionState = "DescriptorResolved"
    BY <1>6, StateOfPc DEF open_ble_device_packet_open
  <2>2. CASE pc' = "device"
    BY <2>1, <2>2, StateOfPcAfter DEF Moves, SL!Succ
  <2>3. CASE \E l : OpenFails(l)
    BY <1>0, <2>1, <2>3, OpenFailsUninit DEF Moves
  <2>. QED  BY <1>6, <2>2, <2>3 DEF open_ble_device_packet_open
<1>7. CASE open_ble_device_device_open
  <2>1. SessionState = "StreamOpen"
    BY <1>7, StateOfPc DEF open_ble_device_device_open
  <2>2. CASE pc' = "events"
    BY <2>1, <2>2, StateOfPcAfter DEF Moves, SL!Succ
  <2>3. CASE OpenFails(live)
    BY <1>0, <2>1, <2>3, OpenFailsUninit DEF Moves
  <2>. QED  BY <1>7, <2>2, <2>3 DEF open_ble_device_device_open
<1>8. CASE open_ble_device_set_events
  <2>1. pc = "events" /\ data.device
    BY <1>0, <1>8 DEF open_ble_device_set_events, OpenShape
  <2>2. SessionState = "DeviceOpen"
    BY <2>1, StateOfPc
  <2>3. CASE OpenFails(live)
    BY <1>0, <2>2, <2>3, OpenFailsUninit DEF Moves
  <2>4. CASE ~OpenFails(live)
    <3>1. PICK labelled \in BOOLEAN :
              /\ data' = [data EXCEPT !.descriptor = TRUE, !.model = labelled]
              /\ Return(TRUE, IF labelled THEN Alloc(live, "label") ELSE live)
      BY <1>8, <2>4 DEF open_ble_device_set_events
    <3>2. pc' = "idle"
      BY <3>1 DEF Return
    <3>3. data'.device
      BY <1>0, <2>1, <3>1, KindFacts
    <3>. QED  BY <2>2, <3>2, <3>3, StateOfPcAfter DEF Moves, SL!Succ
  <2>. QED  BY <2>3, <2>4
<1>9. CASE ble_device_event_cb_devinfo
  <2>1. \/ data' = [data EXCEPT !.have_devinfo = TRUE]
        \/ data' = [data EXCEPT !.have_devinfo = TRUE, !.fingerprint = TRUE]
    BY <1>9 DEF ble_device_event_cb_devinfo, LookupResults
  <2>2. pc' = pc /\ data'.device = data.device
    BY <1>0, <1>9, <2>1, KindFacts DEF ble_device_event_cb_devinfo
  <2>. QED  BY <2>2 DEF Moves, SessionState
<1>10. CASE ble_device_event_cb_progress
  <2>1. pc' = pc /\ data'.device = data.device
    BY <1>0, <1>10, KindFacts DEF ble_device_event_cb_progress
  <2>. QED  BY <2>1 DEF Moves, SessionState
<1>11. CASE app_set_lookup
  <2>1. pc' = pc /\ data'.device = data.device
    BY <1>0, <1>11, KindFacts DEF app_set_lookup
  <2>. QED  BY <2>1 DEF Moves, SessionState
<1>12. CASE app_close
  <2>1. SessionState = "Ready"
    BY <1>12, StateOfPc DEF app_close
  <2>2. pc' = "idle" /\ ~data'.device
    BY <1>0, <1>12, NullDataFacts, ClosedDataFacts, KindFacts DEF app_close
  <2>. QED  BY <2>1, <2>2, StateOfPcAfter DEF Moves
<1>13. CASE Terminating \/ UNCHANGED vars
  BY <1>13 DEF Terminating, vars, Moves, SessionState
<1>. QED  BY <1>1, <1>2, <1>3, <1>4, <1>5, <1>6, <1>7, <1>8, <1>9, <1>10,
             <1>11, <1>12, <1>13 DEF Next

-----------------------------------------------------------------------------
(* A move between two states whose held sets are the ones the abstract    *)
(* machine gives them is a step of SessionLifecycle or a stutter.          *)
LEMMA MoveIsAbstractStep ==
    ASSUME HeldMatch, HeldMatch', Moves
    PROVE  [SL!ANext]_<<SessionState, SessionHeld>>
<1>0. SessionState \in DOMAIN SL!HeldIn /\ SessionState' \in DOMAIN SL!HeldIn
  BY DEF SessionState, SL!HeldIn
<1>1. CASE SessionState' = SessionState
  <2>1. SessionHeld' = SessionHeld
    BY <1>1 DEF HeldMatch
  <2>. QED  BY <1>1, <2>1
<1>2. CASE SessionState \in DOMAIN SL!Succ
           /\ SessionState' = SL!Succ[SessionState]
  <2>1. SessionHeld' = SL!HeldIn[SessionState']
    BY DEF HeldMatch
  <2>. QED  BY <1>2, <2>1 DEF SL!ANext, SL!Advance
<1>3. CASE SessionState # "Uninitialized" /\ SessionState' = "Uninitialized"
  <2>1. SessionHeld' = {}
    BY <1>3 DEF HeldMatch, SL!HeldIn
  <2>2. CASE SessionState = "Ready"
    BY <1>3, <2>1, <2>2 DEF SL!ANext, SL!Close
  <2>3. CASE SessionState # "Ready"
    BY <1>3, <2>1, <2>3 DEF SL!ANext, SL!Fail
  <2>. QED  BY <2>2, <2>3
<1>. QED  BY <1>1, <1>2, <1>3 DEF Moves

(* open_ble_device drives the session through spec 4.3's state machine:  *)
(* every step of the code (open, its failures and their unwinding by      *)
(* close_device_data, the named retry, the event callbacks, close) is a   *)
(* transition of SessionLifecycle or leaves its state and resources as    *)
(* they were, and a session starts Uninitialized holding nothing.          *)
THEOREM SessionLifecycleRefinedTheorem == Spec => SessionLifecycleRefined
<1>1. Init => SL!AInit
  <2> SUFFICES ASSUME Init PROVE SL!AInit
    OBVIOUS
  <2>1. HeldMatch
    BY InitIInv, IInvHeldMatch
  <2>2. pc = "idle" /\ ~data.device
    BY NullDataFacts, KindFacts DEF Init
  <2>3. SessionState = "Uninitialized"
    BY <2>2, StateOfPc
  <2>. QED  BY <2>1, <2>3 DEF HeldMatch, SL!HeldIn, SL!AInit
<1>2. IInv => HeldMatch
  BY IInvHeldMatch
<1>3. IInv /\ [Next]_vars => Moves
  BY StateMoves
<1>4. HeldMatch /\ HeldMatch' /\ Moves =>
          [SL!ANext]_<<SessionState, SessionHeld>>
  BY MoveIsAbstractStep
<1>. QED  BY <1>1, <1>2, <1>3, <1>4, IInvInvariant, PTL
          DEF Spec, SessionLifecycleRefined, SL!ASpec

=============================================================================
