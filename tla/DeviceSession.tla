--------------------------- MODULE DeviceSession ---------------------------
(***************************************************************************)
(* The device session of LibDCBridge (src/.../configuredc.c): the         *)
(* device_data_t block, open_ble_device and its failure unwinding,         *)
(* open_ble_device_with_identification and its stored-then-named retry,    *)
(* the event callback ble_device_event_cb with the fingerprint lookup, and *)
(* close_device_data.                                                      *)
(*                                                                         *)
(* The program is single threaded: the application thread calls into the  *)
(* bridge, and libdivecomputer calls the event callback back on the same   *)
(* stack while the application downloads.  Each step of open_ble_device   *)
(* that calls out to libdivecomputer or the BLE layer (and may fail) is an *)
(* action; a failing step includes the close_device_data that unwinds it   *)
(* and the return into open_ble_device_with_identification.                *)
(*                                                                         *)
(* Heap objects are abstracted to a count of live objects per kind, and    *)
(* each pointer of device_data_t to whether it is non-NULL.  That is what  *)
(* the properties tell apart: an object that is live but reachable from no *)
(* pointer is a leak, a release of an object whose user is already freed   *)
(* is a use after free.                                                    *)
(***************************************************************************)
EXTENDS Naturals

CONSTANTS
    MaxCalls,      \* open calls the application makes before it exits
    MaxDownloads   \* downloads (dc_device_foreach runs) in the whole run

ASSUME BoundsAssumption ==
    /\ MaxCalls \in Nat
    /\ MaxDownloads \in Nat

VARIABLES
    pc,            \* where the application thread is inside the bridge
    caller,        \* which call of open_ble_device is running
    devaddr,       \* the devaddr argument is non-NULL
    data,          \* the device_data_t block in use
    desc,          \* the local `descriptor` of open_ble_device is non-NULL
    blk,           \* the block calloc'ed by ..._with_identification is held
    devEvents,     \* libdivecomputer holds ble_device_event_cb for the device
    devFp,         \* the device has a fingerprint set
    live,          \* number of live heap objects of each kind
    appLookup,     \* the application stored a lookup callback in this block
    known,         \* the application's store holds a fingerprint for the device
    dedupExpected, \* a DEVINFO event ran while appLookup /\ known held
    calls,         \* open calls made so far
    downloads      \* downloads made so far

vars == <<pc, caller, devaddr, data, desc, blk, devEvents, devFp, live,
          appLookup, known, dedupExpected, calls, downloads>>

-----------------------------------------------------------------------------
(* Heap object kinds: dc_context_t, dc_descriptor_t, ble_object_t,        *)
(* ble_stream_t, dc_device_t, the "Vendor Product" model string, the       *)
(* fingerprint buffer returned by the lookup, and the calloc'ed block.     *)
Kinds == {"ctx", "desc", "obj", "stream", "dev", "label", "fp", "data"}

Fields == {"context", "iostream", "device", "descriptor", "model",
           "fingerprint", "lookup", "have_devinfo", "have_progress"}

PC == {"idle", "identify", "open", "descriptor", "packet", "device", "events"}

Count(b) == IF b THEN 1 ELSE 0

(* memset(data, 0, sizeof(device_data_t)) and calloc: every field zero.   *)
NullData == [f \in Fields |-> FALSE]

(* The objects reachable from the session: from the fields of data, from  *)
(* the local descriptor of open_ble_device, and from the block pointer.   *)
(* The stream owns its ble_object_t (ble_stream_t.ble_object).            *)
Owned == [ctx    |-> Count(data.context),
          desc   |-> Count(data.descriptor) + Count(desc),
          obj    |-> Count(data.iostream),
          stream |-> Count(data.iostream),
          dev    |-> Count(data.device),
          label  |-> Count(data.model),
          fp     |-> Count(data.fingerprint),
          data   |-> Count(blk)]

Alloc(l, k) == [l EXCEPT ![k] = @ + 1]

-----------------------------------------------------------------------------
(* close_device_data: releases fingerprint, model string, device, stream  *)
(* (whose close frees the ble_object_t) and context in this order, each    *)
(* only if its pointer is non-NULL, and NULLs the pointers.  The          *)
(* descriptor pointer is NULLed without dc_descriptor_free.               *)

(* Mutant: close_device_data frees the ble_object_t again after          *)
(* dc_iostream_close already freed it.                                    *)
CloseLiveObjectTwice(d, l) ==
    [l EXCEPT !["fp"]     = @ - Count(d.fingerprint),
              !["label"]  = @ - Count(d.model),
              !["dev"]    = @ - Count(d.device),
              !["stream"] = @ - Count(d.iostream),
              !["obj"]    = @ - 2 * Count(d.iostream),
              !["ctx"]    = @ - Count(d.context)]

(* The counts after close_device_data(d): one release per non-NULL       *)
(* pointer; closing the stream also frees its ble_object_t.  Nothing is   *)
(* released for d.descriptor.                                              *)
CloseLive(d, l) ==
    [l EXCEPT !["fp"]     = @ - Count(d.fingerprint),
              !["label"]  = @ - Count(d.model),
              !["dev"]    = @ - Count(d.device),
              !["stream"] = @ - Count(d.iostream),
              !["obj"]    = @ - Count(d.iostream),
              !["ctx"]    = @ - Count(d.context)]

ClosedData(d) == [d EXCEPT !.fingerprint = FALSE, !.model = FALSE,
                           !.device = FALSE, !.iostream = FALSE,
                           !.context = FALSE, !.descriptor = FALSE]

-----------------------------------------------------------------------------
(* Returning from open_ble_device into its caller.  The application gets *)
(* the status; open_ble_device_with_identification goes on to name        *)
(* identification after a failed stored attempt, and frees its block      *)
(* after a failed identified attempt.                                     *)
(* Mutant: the status test of the stored attempt is inverted.            *)
ReturnStoredTestInverted(ok, l) ==
    /\ pc' = IF caller = "stored" /\ ok THEN "identify" ELSE "idle"
    /\ IF caller = "named" /\ ~ok
         THEN /\ blk' = FALSE
              /\ live' = [l EXCEPT !["data"] = @ - 1]
         ELSE /\ UNCHANGED blk
              /\ live' = l

Return(ok, l) ==
    /\ pc' = IF caller = "stored" /\ ~ok THEN "identify" ELSE "idle"
    /\ IF caller = "named" /\ ~ok
         THEN /\ blk' = FALSE
              /\ live' = [l EXCEPT !["data"] = @ - 1]
         ELSE /\ UNCHANGED blk
              /\ live' = l

(* A failing step of open_ble_device: close_device_data(data) and return  *)
(* rc.  The local descriptor goes out of scope without being freed.       *)
OpenFails(l) ==
    /\ data' = ClosedData(data)
    /\ desc' = FALSE
    /\ devEvents' = FALSE
    /\ devFp' = FALSE
    /\ Return(FALSE, CloseLive(data, l))

-----------------------------------------------------------------------------
Init ==
    /\ pc = "idle"
    /\ caller = "app"
    /\ devaddr = TRUE
    /\ data = NullData
    /\ desc = FALSE
    /\ blk = FALSE
    /\ devEvents = FALSE
    /\ devFp = FALSE
    /\ live = [k \in Kinds |-> 0]
    /\ appLookup = FALSE
    /\ known \in BOOLEAN
    /\ dedupExpected = FALSE
    /\ calls = 0
    /\ downloads = 0

(* The application calls open_ble_device(data, devaddr, family, model) on *)
(* its own block, which holds no open session.                            *)
app_open_ble_device ==
    /\ pc = "idle" /\ ~data.device /\ calls < MaxCalls
    /\ pc' = "open"
    /\ caller' = "app"
    /\ devaddr' \in BOOLEAN
    /\ calls' = calls + 1
    /\ UNCHANGED <<data, desc, blk, devEvents, devFp, live, appLookup,
                   known, dedupExpected, downloads>>

(* open_ble_device_with_identification: calloc the block, then try the   *)
(* stored (family, model) if one is given, else identify by name.        *)
open_ble_device_with_identification ==
    /\ pc = "idle" /\ ~data.device /\ calls < MaxCalls
    /\ calls' = calls + 1
    /\ \/ /\ UNCHANGED <<pc, caller, devaddr, data, blk, live, appLookup,
                         dedupExpected>>                 \* calloc failed
       \/ /\ blk' = TRUE
          /\ live' = Alloc(live, "data")
          /\ data' = NullData
          /\ appLookup' = FALSE
          /\ dedupExpected' = FALSE
          /\ devaddr' \in BOOLEAN
          /\ \E stored \in BOOLEAN :     \* stored_family, stored_model given
                IF stored THEN pc' = "open" /\ caller' = "stored"
                          ELSE pc' = "identify" /\ caller' = "named"
    /\ UNCHANGED <<desc, devEvents, devFp, known, downloads>>

(* get_device_info_from_name; on failure free(data) and return rc.       *)
get_device_info_from_name ==
    /\ pc = "identify"
    /\ \/ /\ pc' = "open"
          /\ caller' = "named"
          /\ UNCHANGED <<blk, live>>
       \/ /\ pc' = "idle"
          /\ blk' = FALSE
          /\ live' = [live EXCEPT !["data"] = @ - 1]
          /\ UNCHANGED caller
    /\ UNCHANGED <<devaddr, data, desc, devEvents, devFp, appLookup, known,
                   dedupExpected, calls, downloads>>

(* open_ble_device up to dc_context_new: argument check, memset of the    *)
(* block, context creation.                                               *)
open_ble_device_context ==
    /\ pc = "open"
    /\ \/ /\ ~devaddr                                    \* DC_STATUS_INVALIDARGS
          /\ Return(FALSE, live)
          /\ UNCHANGED data
       \/ /\ devaddr
          /\ \/ /\ data' = [NullData EXCEPT !.context = TRUE]
                /\ live' = Alloc(live, "ctx")
                /\ pc' = "descriptor"
                /\ UNCHANGED blk
             \/ /\ data' = NullData                     \* dc_context_new failed
                /\ Return(FALSE, live)
    /\ UNCHANGED <<caller, devaddr, desc, devEvents, devFp, appLookup,
                   known, dedupExpected, calls, downloads>>

(* find_descriptor_by_model: the iterator frees every descriptor it does  *)
(* not return, so a success leaves one live descriptor in `descriptor`.   *)
open_ble_device_descriptor ==
    /\ pc = "descriptor"
    /\ \/ /\ desc' = TRUE
          /\ live' = Alloc(live, "desc")
          /\ pc' = "packet"
          /\ UNCHANGED <<data, devEvents, devFp, blk>>
       \/ OpenFails(live)                    \* DC_STATUS_UNSUPPORTED or iterator
    /\ UNCHANGED <<caller, devaddr, appLookup, known, dedupExpected, calls,
                   downloads>>

(* ble_packet_open: createBLEObject, connectToBLEDevice, then             *)
(* ble_iostream_create; a failure after the object exists frees it.       *)
(* Mutant: the BLE object is not freed when connectToBLEDevice fails.    *)
BlePacketOpenLiveKeepsObject(l, outcome) ==
    CASE outcome = "ok"           -> [l EXCEPT !["obj"] = @ + 1,
                                               !["stream"] = @ + 1]
      [] outcome = "connect_fail" -> [l EXCEPT !["obj"] = @ + 1]
      [] OTHER                    -> l

BlePacketOpenLive(l, outcome) ==
    CASE outcome = "ok"           -> [l EXCEPT !["obj"] = @ + 1,
                                               !["stream"] = @ + 1]
      [] outcome = "no_object"    -> l
      [] outcome = "connect_fail" -> l
      [] outcome = "no_stream"    -> l

open_ble_device_packet_open ==
    /\ pc = "packet"
    /\ \E outcome \in {"ok", "no_object", "connect_fail", "no_stream"} :
          IF outcome = "ok"
            THEN /\ data' = [data EXCEPT !.iostream = TRUE]
                 /\ live' = BlePacketOpenLive(live, outcome)
                 /\ pc' = "device"
                 /\ UNCHANGED <<desc, devEvents, devFp, blk>>
            ELSE OpenFails(BlePacketOpenLive(live, outcome))
    /\ UNCHANGED <<caller, devaddr, appLookup, known, dedupExpected, calls,
                   downloads>>

(* dc_device_open(&data->device, context, descriptor, iostream).          *)
open_ble_device_device_open ==
    /\ pc = "device"
    /\ \/ /\ data' = [data EXCEPT !.device = TRUE]
          /\ live' = Alloc(live, "dev")
          /\ pc' = "events"
          /\ UNCHANGED <<desc, devEvents, devFp, blk>>
       \/ OpenFails(live)
    /\ UNCHANGED <<caller, devaddr, appLookup, known, dedupExpected, calls,
                   downloads>>

(* dc_device_set_events, then data->descriptor = descriptor and the      *)
(* "Vendor Product" string; a failed malloc of the string is not an      *)
(* error: the block is returned with model == NULL.                      *)
open_ble_device_set_events ==
    /\ pc = "events"
    /\ \/ /\ devEvents' = TRUE
          /\ desc' = FALSE
          /\ \E labelled \in BOOLEAN :
                /\ data' = [data EXCEPT !.descriptor = TRUE, !.model = labelled]
                /\ Return(TRUE, IF labelled THEN Alloc(live, "label") ELSE live)
          /\ UNCHANGED <<devFp>>
       \/ OpenFails(live)
    /\ UNCHANGED <<caller, devaddr, appLookup, known, dedupExpected, calls,
                   downloads>>

-----------------------------------------------------------------------------
(* ble_device_event_cb for DC_EVENT_DEVINFO, called by libdivecomputer    *)
(* during a download.  With a lookup callback and a model string it looks *)
(* up the fingerprint: NULL, a buffer with size 0 (not taken, not freed),  *)
(* or a buffer that is set on the device (the status is only printed) and *)
(* stored in data->fingerprint over whatever was there.                    *)
LookupResults == IF known THEN {"fp"} ELSE {"none", "empty"}

ble_device_event_cb_devinfo ==
    /\ pc = "idle" /\ data.device /\ devEvents /\ downloads < MaxDownloads
    /\ downloads' = downloads + 1
    /\ dedupExpected' = (dedupExpected \/ (appLookup /\ known))
    /\ IF data.lookup /\ data.model
         THEN \E res \in LookupResults :
                CASE res = "none" ->
                       /\ data' = [data EXCEPT !.have_devinfo = TRUE]
                       /\ UNCHANGED <<live, devFp>>
                  [] res = "empty" ->
                       /\ data' = [data EXCEPT !.have_devinfo = TRUE]
                       /\ live' = Alloc(live, "fp")
                       /\ UNCHANGED devFp
                  [] res = "fp" ->
                       /\ data' = [data EXCEPT !.have_devinfo = TRUE,
                                               !.fingerprint = TRUE]
                       /\ live' = Alloc(live, "fp")
                       /\ \E setOk \in BOOLEAN : devFp' = (devFp \/ setOk)
         ELSE /\ data' = [data EXCEPT !.have_devinfo = TRUE]
              /\ UNCHANGED <<live, devFp>>
    /\ UNCHANGED <<pc, caller, devaddr, desc, blk, devEvents, appLookup,
                   known, calls>>

(* ble_device_event_cb for DC_EVENT_PROGRESS.                             *)
ble_device_event_cb_progress ==
    /\ pc = "idle" /\ data.device /\ devEvents /\ ~data.have_progress
    /\ data' = [data EXCEPT !.have_progress = TRUE]
    /\ UNCHANGED <<pc, caller, devaddr, desc, blk, devEvents, devFp, live,
                   appLookup, known, dedupExpected, calls, downloads>>

(* The application stores its lookup callback in the block.               *)
app_set_lookup ==
    /\ pc = "idle" /\ ~data.lookup
    /\ data' = [data EXCEPT !.lookup = TRUE]
    /\ appLookup' = TRUE
    /\ UNCHANGED <<pc, caller, devaddr, desc, blk, devEvents, devFp, live,
                   known, dedupExpected, calls, downloads>>

(* Closing a session: close_device_data, and free of the block when it    *)
(* came from open_ble_device_with_identification.                         *)
app_close ==
    /\ pc = "idle" /\ data.device
    /\ devEvents' = FALSE
    /\ devFp' = FALSE
    /\ dedupExpected' = FALSE
    /\ blk' = FALSE
    /\ IF blk
         THEN /\ live' = [CloseLive(data, live) EXCEPT !["data"] = @ - 1]
              /\ data' = NullData
              /\ appLookup' = FALSE
         ELSE /\ live' = CloseLive(data, live)
              /\ data' = ClosedData(data)
              /\ UNCHANGED appLookup
    /\ UNCHANGED <<pc, caller, devaddr, desc, known, calls, downloads>>

(* The application has made all its calls and holds no session.          *)
Terminating ==
    /\ pc = "idle" /\ ~data.device /\ calls = MaxCalls
    /\ UNCHANGED vars

Next ==
    \/ app_open_ble_device
    \/ open_ble_device_with_identification
    \/ get_device_info_from_name
    \/ open_ble_device_context
    \/ open_ble_device_descriptor
    \/ open_ble_device_packet_open
    \/ open_ble_device_device_open
    \/ open_ble_device_set_events
    \/ ble_device_event_cb_devinfo
    \/ ble_device_event_cb_progress
    \/ app_set_lookup
    \/ app_close
    \/ Terminating

Spec == Init /\ [][Next]_vars

-----------------------------------------------------------------------------
(***************************************************************************)
(* Properties.                                                             *)
(***************************************************************************)

(* Every variable has the shape the code gives it; in particular no kind *)
(* of object is released more often than it was allocated (a count never *)
(* goes below zero), which a double free would do.                        *)
TypeOK ==
    /\ pc \in PC
    /\ caller \in {"app", "stored", "named"}
    /\ devaddr \in BOOLEAN
    /\ data \in [Fields -> BOOLEAN]
    /\ desc \in BOOLEAN
    /\ blk \in BOOLEAN
    /\ devEvents \in BOOLEAN
    /\ devFp \in BOOLEAN
    /\ live \in [Kinds -> Nat]
    /\ appLookup \in BOOLEAN
    /\ known \in BOOLEAN
    /\ dedupExpected \in BOOLEAN
    /\ calls \in 0..MaxCalls
    /\ downloads \in 0..MaxDownloads

(* The kinds whose release the code gets right on every path.             *)
Managed == Kinds \ {"desc", "fp"}

(* When control is back with the application, after any sequence of      *)
(* opens (stored, identified or direct) that fail at any step, downloads  *)
(* and closes, every context, BLE object, stream, device, model string    *)
(* and calloc'ed block that is live is reachable from the session: the    *)
(* failure paths of open_ble_device, ble_packet_open and                  *)
(* open_ble_device_with_identification leak nothing.                       *)
LeakFree == pc = "idle" => \A k \in Managed : live[k] = Owned[k]

(* The descriptor found by find_descriptor_by_model is released: the      *)
(* header says "Caller must free the returned descriptor".                *)
DescriptorReleased == pc = "idle" => live["desc"] = Owned["desc"]

(* Every fingerprint buffer handed over by the lookup callback is freed   *)
(* by close_device_data or still held in data->fingerprint.               *)
FingerprintReleased == pc = "idle" => live["fp"] = Owned["fp"]

(* The session's objects form a chain (device over stream over context),  *)
(* libdivecomputer calls the event callback only for an open device, and  *)
(* whenever the application has control, an open device is a complete     *)
(* session (events wired, descriptor stored) and a calloc'ed block is      *)
(* held only by such a session: no partial session is left behind.        *)
SessionWellFormed ==
    /\ data.device => data.iostream /\ data.context
    /\ data.iostream => data.context
    /\ devEvents => data.device
    /\ pc = "idle" /\ data.device => devEvents /\ data.descriptor
    /\ pc = "idle" /\ blk => data.device

(* The retry of open_ble_device_with_identification: identification by   *)
(* name starts either on the fresh block of a call given no stored model, *)
(* or after the stored attempt failed, and then only once close_device_data *)
(* has unwound it: the block the named attempt reuses holds no context,    *)
(* stream or device, and no descriptor is left from the stored lookup.     *)
StoredFallbackClean ==
    [][pc' = "identify" /\ pc # "identify" =>
          /\ pc = "idle" \/ caller = "stored"
          /\ ~data'.context /\ ~data'.iostream /\ ~data'.device /\ ~desc']_vars

(* Dive deduplication: once the device reported its serial in a session   *)
(* whose application supplied a lookup callback that knows a fingerprint  *)
(* for it, the device has a fingerprint set, so the download stops at the *)
(* last dive already downloaded.                                           *)
DedupApplied == dedupExpected => devFp

(* Spec 4.3's state machine, seen in the code: where open_ble_device is,  *)
(* and what the session holds.  A context, stream (with its BLE object)   *)
(* or device is held while it is live; the descriptor while the session   *)
(* points to it, since the code drops that pointer without freeing what   *)
(* it points to (DescriptorReleased is that question).                     *)
SessionState ==
    CASE pc = "descriptor"          -> "ContextCreated"
      [] pc = "packet"              -> "DescriptorResolved"
      [] pc = "device"              -> "StreamOpen"
      [] pc = "events"              -> "DeviceOpen"
      [] pc = "idle" /\ data.device -> "Ready"
      [] OTHER                      -> "Uninitialized"

HeldBy == [context    |-> live["ctx"] > 0,
           descriptor |-> data.descriptor \/ desc,
           stream     |-> live["stream"] + live["obj"] > 0,
           device     |-> live["dev"] > 0]

SessionHeld == {r \in DOMAIN HeldBy : HeldBy[r]}

SL == INSTANCE SessionLifecycle WITH state <- SessionState, held <- SessionHeld

(* open_ble_device, its callers, the event callback and close implement   *)
(* the session state machine of spec 4.3: every step of open acquires the *)
(* next resource, every failing step releases all that the earlier steps  *)
(* acquired, close releases everything, and no other step touches what    *)
(* the session holds.                                                       *)
SessionLifecycleRefined == SL!ASpec

=============================================================================
