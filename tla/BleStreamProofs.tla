--------------------------- MODULE BleStreamProofs ---------------------------
(***************************************************************************)
(* Proof that the BLE stream adapter owns its connection object, for all  *)
(* bounds.                                                                  *)
(***************************************************************************)
EXTENDS BleStream, TLAPS

(* TypeOK with the ownership property is inductive by itself: each action *)
(* changes obj, strm and iostream together.                                 *)
Inv == TypeOK /\ StreamOwnsObject

-----------------------------------------------------------------------------
(* ble_stream_close leaves one object and one stream fewer, whatever     *)
(* ble_close returned.                                                      *)
LEMMA CloseFreesFacts ==
    ASSUME NEW o, NEW s, NEW rc
    PROVE  CloseFrees(o, s, rc)[1] = o - 1 /\ CloseFrees(o, s, rc)[2] = s - 1
BY DEF CloseFrees

-----------------------------------------------------------------------------
LEMMA InitInv == Init => Inv
<1>. SUFFICES ASSUME Init PROVE Inv
  OBVIOUS
<1>1. -1 \in Timeouts
  BY DEF Timeouts
<1>2. 0 \in 0..MaxOpens /\ 0 \in 0..MaxOps
  BY BleStreamAssumption
<1>3. TypeOK
  BY <1>1, <1>2 DEF Init, TypeOK
<1>. QED  BY <1>3 DEF Init, Inv, StreamOwnsObject, Count

LEMMA NextInv == Inv /\ [Next]_vars => Inv'
<1>. SUFFICES ASSUME Inv, [Next]_vars PROVE Inv'
  OBVIOUS
<1>0. /\ MaxOpens \in Nat /\ MaxOps \in Nat
      /\ obj \in Nat /\ strm \in Nat /\ iostream \in BOOLEAN
  BY BleStreamAssumption DEF Inv, TypeOK
<1>1. CASE ble_packet_open
  <2>1. ~iostream /\ obj = 0 /\ strm = 0
    BY <1>1 DEF ble_packet_open, Inv, StreamOwnsObject, Count
  <2>2. CASE UNCHANGED <<obj, strm, link, iostream>>
    BY <1>0, <1>1, <2>1, <2>2 DEF ble_packet_open, Inv, TypeOK, StreamOwnsObject, Count
  <2>3. CASE /\ link' = TRUE
             /\ obj' = CreateFailsRelease(obj + 1)
             /\ UNCHANGED <<strm, iostream>>
    BY <1>0, <1>1, <2>1, <2>3 DEF ble_packet_open, CreateFailsRelease, Inv, TypeOK,
                                 StreamOwnsObject, Count
  <2>4. CASE /\ link' = TRUE /\ obj' = obj + 1
             /\ strm' = strm + 1 /\ iostream' = TRUE
    BY <1>0, <1>1, <2>1, <2>4 DEF ble_packet_open, Inv, TypeOK, StreamOwnsObject, Count
  <2>. QED  BY <1>1, <2>2, <2>3, <2>4 DEF ble_packet_open
<1>2. CASE ble_stream_set_timeout
  <2>1. ops' \in 0..MaxOps
    BY <1>0, <1>2 DEF ble_stream_set_timeout, Inv, TypeOK
  <2>2. timeout' \in Timeouts
    BY <1>2 DEF ble_stream_set_timeout
  <2>. QED
    BY <1>2, <2>1, <2>2 DEF ble_stream_set_timeout, Inv, TypeOK, StreamOwnsObject
<1>3. CASE ble_stream_forward
  <2>1. ops' \in 0..MaxOps
    BY <1>0, <1>3 DEF ble_stream_forward, Inv, TypeOK
  <2>. QED
    BY <1>3, <2>1 DEF ble_stream_forward, Inv, TypeOK, StreamOwnsObject
<1>4. CASE ble_stream_close
  <2>1. iostream /\ obj = 1 /\ strm = 1
    BY <1>4 DEF ble_stream_close, Inv, StreamOwnsObject, Count
  <2>2. obj' = 0 /\ strm' = 0
    BY <1>4, <2>1, CloseFreesFacts DEF ble_stream_close
  <2>. QED
    BY <1>0, <1>4, <2>2 DEF ble_stream_close, Inv, TypeOK, StreamOwnsObject, Count
<1>5. CASE Terminating
  BY <1>5 DEF Terminating, vars, Inv, TypeOK, StreamOwnsObject
<1>6. CASE UNCHANGED vars
  BY <1>6 DEF vars, Inv, TypeOK, StreamOwnsObject
<1>. QED  BY <1>1, <1>2, <1>3, <1>4, <1>5, <1>6 DEF Next

-----------------------------------------------------------------------------
(* Inv holds in every reachable state.                                     *)
THEOREM InvInvariant == Spec => []Inv
<1>1. Init => Inv
  BY InitInv
<1>2. Inv /\ [Next]_vars => Inv'
  BY NextInv
<1>. QED  BY <1>1, <1>2, PTL DEF Spec

(* For all bounds: every live BLE object belongs to a live stream held by *)
(* its owner, through opens that fail after createBLEObject, after        *)
(* connectToBLEDevice or in ble_iostream_create, and through closes whose  *)
(* ble_close fails.                                                          *)
THEOREM StreamOwnsObjectInvariant == Spec => []StreamOwnsObject
<1>1. Inv => StreamOwnsObject
  BY DEF Inv
<1>. QED  BY <1>1, InvInvariant, PTL

=============================================================================
