------------------------------ MODULE BleStream ------------------------------
(***************************************************************************)
(* The BLE stream adapter of configuredc.c: ble_packet_open, which        *)
(* connects a BLE object and wraps it in a ble_stream_t, the vtable         *)
(* functions that forward each stream operation to the transport, and      *)
(* ble_stream_close, which closes the link and frees the object and the    *)
(* stream.                                                                  *)
(*                                                                         *)
(* The transport (ble_read, ble_close, connectToBLEDevice, ... declared in *)
(* BLEBridge.h and implemented in Swift outside this repository) is a      *)
(* nondeterministic choice among the outcomes spec sections 4.1 and 6     *)
(* allow.  The owner of the stream (libdivecomputer's dc_iostream_* calls  *)
(* made by the protocol engine, and close_device_data) opens it, issues    *)
(* operations one at a time while it holds it, and closes it once.         *)
(*                                                                         *)
(* Memory is abstracted to counts of live BLE objects and streams; link    *)
(* is whether the transport holds a connected link.                         *)
(***************************************************************************)
EXTENDS Integers

CONSTANTS
    MaxOpens,   \* ble_packet_open calls in a run
    MaxOps      \* stream operations in a run

ASSUME BleStreamAssumption ==
    /\ MaxOpens \in Nat
    /\ MaxOps \in Nat

VARIABLES
    obj,       \* live ble_object_t (createBLEObject / freeBLEObject)
    strm,      \* live ble_stream_t (malloc in ble_iostream_create / free)
    link,      \* the transport holds a connected link
    iostream,  \* the owner holds the dc_iostream_t returned by the open
    timeout,   \* the last timeout forwarded to ble_set_timeout
    opens,     \* ble_packet_open calls made
    ops        \* stream operations made

vars == <<obj, strm, link, iostream, timeout, opens, ops>>

Count(b) == IF b THEN 1 ELSE 0

(* Timeouts libdivecomputer's protocol engines pass to set_timeout: none   *)
(* (-1 for blocking in dc_iostream_set_timeout), zero, and a deadline.     *)
Timeouts == {-1, 0, 1000}

Init ==
    /\ obj = 0
    /\ strm = 0
    /\ link = FALSE
    /\ iostream = FALSE
    /\ timeout = -1
    /\ opens = 0
    /\ ops = 0

(* ble_packet_open's release of the BLE object when ble_iostream_create   *)
(* fails (line 208).                                                        *)
CreateFailsRelease(o) == o - 1

(* ble_packet_open (lines 186-213) with ble_iostream_create (67-85):     *)
(* createBLEObject may fail (NOMEMORY); connectToBLEDevice may fail, and  *)
(* the object is freed (IO); malloc of the stream may fail, and the object *)
(* is freed without ble_close; otherwise the stream owns the object and    *)
(* the owner gets the stream.                                              *)
ble_packet_open ==
    /\ ~iostream
    /\ opens < MaxOpens
    /\ opens' = opens + 1
    /\ \/ \* createBLEObject returns NULL, or connectToBLEDevice fails and
          \* the object it made is freed at once
          UNCHANGED <<obj, strm, link, iostream>>
       \/ \* connected, but malloc of the stream fails
          /\ link' = TRUE
          /\ obj' = CreateFailsRelease(obj + 1)
          /\ UNCHANGED <<strm, iostream>>
       \/ \* connected and wrapped
          /\ link' = TRUE
          /\ obj' = obj + 1
          /\ strm' = strm + 1
          /\ iostream' = TRUE
    /\ UNCHANGED <<timeout, ops>>

(* ble_stream_set_timeout (lines 90-96) forwards the value unchanged.     *)
ble_stream_set_timeout ==
    /\ iostream
    /\ ops < MaxOps
    /\ \E t \in Timeouts : timeout' = t
    /\ ops' = ops + 1
    /\ UNCHANGED <<obj, strm, link, iostream, opens>>

(* ble_stream_read, ble_stream_write, ble_stream_ioctl and ble_stream_sleep *)
(* (lines 101-168) forward to the transport and return its status; the    *)
(* adapter's state does not change (the packet inspection in read only    *)
(* prints).                                                                 *)
ble_stream_forward ==
    /\ iostream
    /\ ops < MaxOps
    /\ ops' = ops + 1
    /\ UNCHANGED <<obj, strm, link, iostream, timeout, opens>>

(* Mutant: ble_stream_close returns ble_close's failure before freeing.  *)
CloseStopsOnError(o, s, rc) ==
    IF rc = "success" THEN <<o - 1, s - 1>> ELSE <<o, s>>

(* ble_stream_close (lines 173-181): ble_close, then freeBLEObject and     *)
(* free of the stream whatever ble_close returned.                          *)
CloseFrees(o, s, rc) == <<o - 1, s - 1>>

(* Whether the transport still holds the link after a failed ble_close  *)
(* is up to the Swift side, which is not in the repository.                *)
ble_stream_close ==
    /\ iostream
    /\ \E rc \in {"success", "io"} :
          /\ obj' = CloseFrees(obj, strm, rc)[1]
          /\ strm' = CloseFrees(obj, strm, rc)[2]
          /\ link' \in IF rc = "success" THEN {FALSE} ELSE BOOLEAN
    /\ iostream' = FALSE
    /\ UNCHANGED <<timeout, opens, ops>>

(* The owner stops once its opens are used up and it holds no stream.     *)
Terminating ==
    /\ opens = MaxOpens
    /\ ~iostream
    /\ UNCHANGED vars

Next ==
    \/ ble_packet_open
    \/ ble_stream_set_timeout
    \/ ble_stream_forward
    \/ ble_stream_close
    \/ Terminating

Spec == Init /\ [][Next]_vars

-----------------------------------------------------------------------------
TypeOK ==
    /\ obj \in Nat
    /\ strm \in Nat
    /\ link \in BOOLEAN
    /\ iostream \in BOOLEAN
    /\ timeout \in Timeouts
    /\ opens \in 0..MaxOpens
    /\ ops \in 0..MaxOps

(* Ownership of the connection handle (spec 3): every live BLE object is  *)
(* owned by a live stream and every live stream by the owner, through any *)
(* sequence of opens failing at any step and closes whose ble_close fails: *)
(* ble_packet_open frees the object on each failure after createBLEObject,*)
(* and ble_stream_close frees both whatever ble_close returns.             *)
StreamOwnsObject == obj = Count(iostream) /\ strm = Count(iostream)

(* No connected link outlives the stream that owns it (spec 3: "no handle *)
(* survives its adapter"; 4.3: failures release every resource).           *)
LinkReleased == link => iostream

=============================================================================
