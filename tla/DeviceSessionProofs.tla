------------------------ MODULE DeviceSessionProofs ------------------------
(***************************************************************************)
(* Proofs about DeviceSession for every value of MaxCalls and             *)
(* MaxDownloads: type correctness, leak freedom of the managed objects,   *)
(* well-formedness of the session and absence of a device close after its *)
(* stream or context.                                                     *)
(*                                                                         *)
(* None of these invariants is inductive alone: a failing open step runs  *)
(* close_device_data and releases exactly what the block points to, which *)
(* keeps the counts right only if, at each step of open_ble_device, the   *)
(* block points to exactly the objects made by the earlier steps.  IInv   *)
(* records that shape per value of pc.                                     *)
(***************************************************************************)
EXTENDS DeviceSession, TLAPS

(* What data points to at each step of open_ble_device.                   *)
OpenShape ==
    /\ pc = "idle" =>
          /\ data.context \/ data.iostream \/ data.model \/ data.fingerprint
             \/ data.descriptor \/ devFp => data.device
    /\ pc \in {"idle", "identify", "open"} => ~desc
    /\ pc \in {"identify", "open"} =>
          ~data.context /\ ~data.iostream /\ ~data.device
    /\ pc = "descriptor" =>
          data.context /\ ~data.iostream /\ ~data.device /\ ~desc
    /\ pc = "packet"  => data.context /\ desc /\ ~data.iostream /\ ~data.device
    /\ pc = "device"  => data.context /\ desc /\ data.iostream /\ ~data.device
    /\ pc = "events"  => data.context /\ desc /\ data.iostream /\ data.device
    /\ pc # "idle" =>
          ~data.model /\ ~data.fingerprint /\ ~data.descriptor
          /\ ~devEvents /\ ~devFp
    /\ pc # "idle" => (blk <=> caller \in {"stored", "named"})
    /\ pc = "identify" => caller \in {"stored", "named"}

(* The objects the session does not release on every path are still     *)
(* counted at least once for each pointer to them.                        *)
Covered ==
    /\ live["desc"] >= Count(data.descriptor) + Count(desc)
    /\ live["fp"] >= Count(data.fingerprint)

(* Each object the session releases on every path is live exactly as     *)
(* often as the session points to it (LeakFree at every step, not only at *)
(* rest).                                                                   *)
Accounted ==
    /\ live["ctx"] = Count(data.context)
    /\ live["obj"] = Count(data.iostream)
    /\ live["stream"] = Count(data.iostream)
    /\ live["dev"] = Count(data.device)
    /\ live["label"] = Count(data.model)
    /\ live["data"] = Count(blk)

IInv ==
    /\ TypeOK
    /\ Accounted
    /\ Covered
    /\ OpenShape
    /\ SessionWellFormed

-----------------------------------------------------------------------------
(* The kinds and fields the actions index by are members of Kinds and    *)
(* Fields; the sets themselves stay opaque to the provers.                *)
LEMMA KindFacts ==
    /\ {"ctx", "desc", "obj", "stream", "dev", "label", "fp", "data"} \subseteq Kinds
    /\ {"context", "iostream", "device", "descriptor", "model", "fingerprint",
        "lookup", "have_devinfo", "have_progress"} \subseteq Fields
  BY DEF Kinds, Fields

(* An allocation adds one object of its kind and leaves the others.      *)
LEMMA AllocFacts ==
  ASSUME NEW l \in [Kinds -> Nat], NEW k \in Kinds
  PROVE  /\ Alloc(l, k) \in [Kinds -> Nat]
         /\ Alloc(l, k)[k] = l[k] + 1
         /\ \A j \in Kinds \ {k} : Alloc(l, k)[j] = l[j]
  BY DEF Alloc

(* free(data) in open_ble_device_with_identification or at close.        *)
LEMMA FreeBlockFacts ==
  ASSUME NEW l \in [Kinds -> Nat], l["data"] >= 1
  PROVE  /\ [l EXCEPT !["data"] = @ - 1] \in [Kinds -> Nat]
         /\ [l EXCEPT !["data"] = @ - 1]["data"] = l["data"] - 1
         /\ \A j \in Kinds \ {"data"} : [l EXCEPT !["data"] = @ - 1][j] = l[j]
  BY KindFacts

(* close_device_data releases one object per non-NULL pointer and no     *)
(* count goes negative as long as each pointer is backed by an object.   *)
LEMMA CloseLiveFacts ==
  ASSUME NEW l \in [Kinds -> Nat], NEW d \in [Fields -> BOOLEAN],
         l["fp"] >= Count(d.fingerprint), l["label"] >= Count(d.model),
         l["dev"] >= Count(d.device), l["stream"] >= Count(d.iostream),
         l["obj"] >= Count(d.iostream), l["ctx"] >= Count(d.context)
  PROVE  /\ CloseLive(d, l) \in [Kinds -> Nat]
         /\ CloseLive(d, l)["fp"] = l["fp"] - Count(d.fingerprint)
         /\ CloseLive(d, l)["label"] = l["label"] - Count(d.model)
         /\ CloseLive(d, l)["dev"] = l["dev"] - Count(d.device)
         /\ CloseLive(d, l)["stream"] = l["stream"] - Count(d.iostream)
         /\ CloseLive(d, l)["obj"] = l["obj"] - Count(d.iostream)
         /\ CloseLive(d, l)["ctx"] = l["ctx"] - Count(d.context)
         /\ CloseLive(d, l)["desc"] = l["desc"]
         /\ CloseLive(d, l)["data"] = l["data"]
  <1>1. CloseLive(d, l) \in [Kinds -> Nat]
    BY KindFacts DEF CloseLive, Count
  <1>2. QED
    BY <1>1, KindFacts DEF CloseLive

(* close_device_data NULLs the six pointers and keeps the rest.           *)
LEMMA ClosedDataFacts ==
  ASSUME NEW d \in [Fields -> BOOLEAN]
  PROVE  /\ ClosedData(d) \in [Fields -> BOOLEAN]
         /\ ~ClosedData(d).fingerprint /\ ~ClosedData(d).model
         /\ ~ClosedData(d).device /\ ~ClosedData(d).iostream
         /\ ~ClosedData(d).context /\ ~ClosedData(d).descriptor
  BY KindFacts DEF ClosedData

(* The zeroed block.                                                      *)
LEMMA NullDataFacts ==
  /\ NullData \in [Fields -> BOOLEAN]
  /\ \A f \in Fields : ~NullData[f]
  /\ [NullData EXCEPT !.context = TRUE] \in [Fields -> BOOLEAN]
  /\ [NullData EXCEPT !.context = TRUE].context
  /\ \A f \in Fields \ {"context"} : ~[NullData EXCEPT !.context = TRUE][f]
  BY KindFacts DEF NullData


-----------------------------------------------------------------------------
(* A failing step of open_ble_device (any of find_descriptor_by_model,   *)
(* ble_packet_open, dc_device_open, dc_device_set_events) keeps IInv:     *)
(* close_device_data releases exactly what the steps before it made, and  *)
(* the caller either retries by name or is back at rest without a block.  *)
LEMMA OpenFailsIInv ==
  ASSUME IInv, pc \in {"descriptor", "packet", "device", "events"},
         OpenFails(live),
         UNCHANGED <<caller, devaddr, appLookup, known, dedupExpected, calls,
                     downloads>>
  PROVE  IInv'
  <1> DEFINE cl == CloseLive(data, live)
  <1>1. /\ TypeOK /\ Accounted /\ Covered /\ OpenShape /\ SessionWellFormed
    BY DEF IInv
  <1>2. /\ data \in [Fields -> BOOLEAN] /\ live \in [Kinds -> Nat]
        /\ ~data.fingerprint /\ ~data.model /\ data.context
        /\ (blk <=> caller \in {"stored", "named"}) /\ blk \in BOOLEAN
        /\ caller \in {"app", "stored", "named"}
    BY <1>1 DEF TypeOK, OpenShape
  <1>3. /\ cl \in [Kinds -> Nat]
        /\ cl["ctx"] = 0 /\ cl["obj"] = 0 /\ cl["stream"] = 0
        /\ cl["dev"] = 0 /\ cl["label"] = 0
        /\ cl["fp"] = live["fp"] /\ cl["desc"] = live["desc"]
        /\ cl["data"] = Count(blk)
    <2>1. /\ live["fp"] >= Count(data.fingerprint)
          /\ live["label"] >= Count(data.model)
          /\ live["dev"] >= Count(data.device)
          /\ live["stream"] >= Count(data.iostream)
          /\ live["obj"] >= Count(data.iostream)
          /\ live["ctx"] >= Count(data.context)
      BY <1>1, <1>2 DEF Accounted, Covered, Count
    <2>2. /\ cl \in [Kinds -> Nat]
          /\ cl["fp"] = live["fp"] - Count(data.fingerprint)
          /\ cl["label"] = live["label"] - Count(data.model)
          /\ cl["dev"] = live["dev"] - Count(data.device)
          /\ cl["stream"] = live["stream"] - Count(data.iostream)
          /\ cl["obj"] = live["obj"] - Count(data.iostream)
          /\ cl["ctx"] = live["ctx"] - Count(data.context)
          /\ cl["desc"] = live["desc"]
          /\ cl["data"] = live["data"]
      BY <1>2, <2>1, CloseLiveFacts
    <2>3. QED
      BY <1>1, <1>2, <2>2, KindFacts DEF Accounted, Count
  <1>4. /\ data' \in [Fields -> BOOLEAN]
        /\ ~data'.fingerprint /\ ~data'.model /\ ~data'.device
        /\ ~data'.iostream /\ ~data'.context /\ ~data'.descriptor
    BY <1>2, ClosedDataFacts DEF OpenFails
  <1>6. /\ live' \in [Kinds -> Nat]
        /\ live'["ctx"] = 0 /\ live'["obj"] = 0 /\ live'["stream"] = 0
        /\ live'["dev"] = 0 /\ live'["label"] = 0
        /\ live'["fp"] = live["fp"] /\ live'["desc"] = live["desc"]
        /\ live'["data"] = Count(blk') /\ blk' \in BOOLEAN
        /\ \/ pc' = "idle" /\ ~blk'
           \/ pc' = "identify" /\ blk' /\ caller = "stored"
    <2>1. CASE caller = "named"
      <3>1. /\ pc' = "idle" /\ blk' = FALSE
            /\ live' = [cl EXCEPT !["data"] = @ - 1]
        BY <2>1 DEF OpenFails, Return
      <3>2. cl["data"] >= 1
        BY <1>2, <1>3, <2>1 DEF Count
      <3>3. /\ live' \in [Kinds -> Nat]
            /\ live'["data"] = cl["data"] - 1
            /\ \A j \in Kinds \ {"data"} : live'[j] = cl[j]
        BY <1>3, <3>1, <3>2, FreeBlockFacts
      <3>4. /\ live'["ctx"] = cl["ctx"] /\ live'["obj"] = cl["obj"]
            /\ live'["stream"] = cl["stream"] /\ live'["dev"] = cl["dev"]
            /\ live'["label"] = cl["label"] /\ live'["fp"] = cl["fp"]
            /\ live'["desc"] = cl["desc"]
        BY <3>3, KindFacts
      <3>5. blk /\ live'["data"] = 0
        BY <1>2, <1>3, <2>1, <3>3 DEF Count
      <3>6. QED
        BY <1>3, <3>1, <3>3, <3>4, <3>5 DEF Count
    <2>2. CASE caller = "stored"
      <3>1. pc' = "identify" /\ blk' = blk /\ live' = cl
        BY <2>2 DEF OpenFails, Return
      <3>2. QED
        BY <1>2, <1>3, <2>2, <3>1
    <2>3. CASE caller = "app"
      <3>1. pc' = "idle" /\ blk' = blk /\ live' = cl
        BY <2>3 DEF OpenFails, Return
      <3>2. QED
        BY <1>2, <1>3, <2>3, <3>1
    <2>4. QED
      BY <1>2, <2>1, <2>2, <2>3
  <1>7. /\ desc' = FALSE /\ devEvents' = FALSE /\ devFp' = FALSE
    BY DEF OpenFails
  <1>8. TypeOK'
    BY <1>1, <1>4, <1>6, <1>7 DEF TypeOK, PC
  <1>9. Accounted' /\ Covered'
    BY <1>1, <1>2, <1>4, <1>6, <1>7, KindFacts DEF Accounted, Covered, Count
  <1>10. OpenShape' /\ SessionWellFormed'
    BY <1>2, <1>4, <1>6, <1>7 DEF OpenShape, SessionWellFormed
  <1>11. QED
    BY <1>8, <1>9, <1>10 DEF IInv


(* Returning a failure from open_ble_device: the stored attempt goes on  *)
(* to name identification with its block, the identified attempt frees   *)
(* its block, the application keeps its own block.                        *)
LEMMA ReturnFailedFacts ==
  ASSUME NEW l \in [Kinds -> Nat], blk \in BOOLEAN,
         caller \in {"app", "stored", "named"},
         blk <=> caller \in {"stored", "named"},
         l["data"] = Count(blk),
         Return(FALSE, l)
  PROVE  /\ live' \in [Kinds -> Nat]
         /\ \A k \in Kinds \ {"data"} : live'[k] = l[k]
         /\ live'["data"] = Count(blk') /\ blk' \in BOOLEAN
         /\ \/ pc' = "idle" /\ ~blk'
            \/ pc' = "identify" /\ blk' /\ caller = "stored"
  <1>1. CASE caller = "named"
    <2>1. pc' = "idle" /\ blk' = FALSE /\ live' = [l EXCEPT !["data"] = @ - 1]
      BY <1>1 DEF Return
    <2>2. l["data"] = 1
      BY <1>1 DEF Count
    <2>3. /\ live' \in [Kinds -> Nat] /\ live'["data"] = 0
          /\ \A k \in Kinds \ {"data"} : live'[k] = l[k]
      <3>1. l["data"] >= 1
        BY <2>2
      <3>2. QED
        BY <2>1, <2>2, <3>1, FreeBlockFacts
    <2>4. QED
      BY <2>1, <2>3 DEF Count
  <1>2. CASE caller \in {"app", "stored"}
    <2>1. /\ pc' = (IF caller = "stored" THEN "identify" ELSE "idle")
          /\ blk' = blk /\ live' = l
      BY <1>2 DEF Return
    <2>2. QED
      BY <1>2, <2>1
  <1>3. QED
    BY <1>1, <1>2

-----------------------------------------------------------------------------
LEMMA InitIInv == Init => IInv
  <1> SUFFICES ASSUME Init PROVE IInv
    OBVIOUS
  <1>1. data \in [Fields -> BOOLEAN] /\ live \in [Kinds -> Nat]
    BY NullDataFacts DEF Init
  <1>2. calls \in 0..MaxCalls /\ downloads \in 0..MaxDownloads
    BY BoundsAssumption DEF Init
  <1>8. TypeOK
    BY <1>1, <1>2 DEF Init, TypeOK, PC
  <1>3. /\ ~data.context /\ ~data.iostream /\ ~data.device /\ ~data.model
        /\ ~data.fingerprint /\ ~data.descriptor
    BY NullDataFacts, KindFacts DEF Init
  <1>4. \A k \in Kinds : live[k] = 0
    BY DEF Init
  <1>5. Accounted /\ Covered
    BY <1>3, <1>4, KindFacts DEF Init, Accounted, Covered, Count
  <1>6. OpenShape /\ SessionWellFormed
    BY <1>3 DEF Init, OpenShape, SessionWellFormed
  <1>7. QED
    BY <1>8, <1>5, <1>6 DEF IInv

(* The application's own open leaves data at rest and holds no block.    *)
LEMMA AppOpenBleDeviceIInv == IInv /\ app_open_ble_device => IInv'
  <1> SUFFICES ASSUME IInv, app_open_ble_device PROVE IInv'
    OBVIOUS
  <1>1. /\ TypeOK /\ Accounted /\ Covered /\ OpenShape /\ SessionWellFormed
    BY DEF IInv
  <1>2. calls' \in 0..MaxCalls
    BY <1>1, BoundsAssumption DEF app_open_ble_device, TypeOK
  <1>6. TypeOK'
    BY <1>1, <1>2 DEF app_open_ble_device, TypeOK, PC
  <1>3. Accounted' /\ Covered'
    BY <1>1 DEF app_open_ble_device, Accounted, Covered
  <1>4. OpenShape' /\ SessionWellFormed'
    BY <1>1 DEF app_open_ble_device, OpenShape, SessionWellFormed
  <1>5. QED
    BY <1>6, <1>3, <1>4 DEF IInv

LEMMA OpenBleDeviceWithIdentificationIInv ==
    IInv /\ open_ble_device_with_identification => IInv'
  <1> SUFFICES ASSUME IInv, open_ble_device_with_identification PROVE IInv'
    OBVIOUS
  <1>1. /\ TypeOK /\ Accounted /\ Covered /\ OpenShape /\ SessionWellFormed
    BY DEF IInv
  <1>2. ~blk /\ ~data.device /\ pc = "idle"
    BY <1>1 DEF open_ble_device_with_identification, SessionWellFormed
  <1>3. calls' \in 0..MaxCalls
    BY <1>1, BoundsAssumption DEF open_ble_device_with_identification, TypeOK
  <1>4. CASE UNCHANGED <<pc, caller, devaddr, data, blk, live, appLookup,
                        dedupExpected>>
    <2>1. UNCHANGED <<desc, devEvents, devFp, known, downloads>>
      BY DEF open_ble_device_with_identification
    <2>2. QED
      BY <1>1, <1>3, <1>4, <2>1 DEF IInv, TypeOK, Accounted, Covered,
         OpenShape, SessionWellFormed
  <1>5. CASE /\ blk' = TRUE /\ live' = Alloc(live, "data") /\ data' = NullData
             /\ appLookup' = FALSE /\ dedupExpected' = FALSE
             /\ devaddr' \in BOOLEAN
             /\ \E stored \in BOOLEAN :
                   IF stored THEN pc' = "open" /\ caller' = "stored"
                             ELSE pc' = "identify" /\ caller' = "named"
    <2>1. UNCHANGED <<desc, devEvents, devFp, known, downloads>>
      BY DEF open_ble_device_with_identification
    <2>2. /\ live' \in [Kinds -> Nat] /\ live'["data"] = live["data"] + 1
          /\ \A k \in Kinds \ {"data"} : live'[k] = live[k]
      BY <1>1, <1>5, AllocFacts, KindFacts DEF TypeOK
    <2>3. /\ data' \in [Fields -> BOOLEAN]
          /\ ~data'.context /\ ~data'.iostream /\ ~data'.device
          /\ ~data'.model /\ ~data'.fingerprint /\ ~data'.descriptor
      BY <1>5, NullDataFacts, KindFacts
    <2>4. /\ pc' \in {"open", "identify"}
          /\ caller' \in {"stored", "named"}
          /\ pc' = "identify" => caller' \in {"stored", "named"}
      BY <1>5
    <2>5. /\ ~desc /\ ~devEvents /\ ~devFp
          /\ ~data.context /\ ~data.iostream /\ ~data.model
      BY <1>1, <1>2 DEF OpenShape, SessionWellFormed
    <2>10. /\ live["ctx"] = 0 /\ live["obj"] = 0 /\ live["stream"] = 0
           /\ live["dev"] = 0 /\ live["label"] = 0 /\ live["data"] = 0
      BY <1>1, <1>2, <2>5 DEF Accounted, Count
    <2>6. TypeOK'
      BY <1>1, <1>3, <1>5, <2>1, <2>2, <2>3, <2>4 DEF TypeOK, PC
    <2>7. Accounted' /\ Covered'
      <3>1. live'["desc"] >= 0 /\ live'["fp"] >= 0
        BY <1>1, <2>2, KindFacts DEF TypeOK
      <3>2. /\ live'["ctx"] = 0 /\ live'["obj"] = 0 /\ live'["stream"] = 0
            /\ live'["dev"] = 0 /\ live'["label"] = 0 /\ live'["data"] = 1
        BY <2>2, <2>10, KindFacts
      <3>3. Accounted'
        BY <1>5, <2>3, <3>2 DEF Accounted, Count
      <3>4. Covered'
        BY <2>1, <2>3, <2>5, <3>1 DEF Covered, Count
      <3>5. QED
        BY <3>3, <3>4
    <2>8. OpenShape' /\ SessionWellFormed'
      BY <1>1, <1>5, <2>1, <2>3, <2>4, <2>5 DEF OpenShape, SessionWellFormed
    <2>9. QED
      BY <2>6, <2>7, <2>8 DEF IInv
  <1>6. QED
    BY <1>4, <1>5 DEF open_ble_device_with_identification


(* Name identification either hands the block to open_ble_device or     *)
(* frees it; in both cases no session object exists yet.                  *)
LEMMA GetDeviceInfoFromNameIInv == IInv /\ get_device_info_from_name => IInv'
  <1> SUFFICES ASSUME IInv, get_device_info_from_name PROVE IInv'
    OBVIOUS
  <1>1. /\ TypeOK /\ Accounted /\ Covered /\ OpenShape /\ SessionWellFormed
    BY DEF IInv
  <1>2. /\ pc = "identify" /\ blk /\ live["data"] = 1
        /\ ~data.context /\ ~data.iostream /\ ~data.device /\ ~data.model
        /\ ~data.fingerprint /\ ~data.descriptor /\ ~desc /\ ~devEvents
        /\ ~devFp
    BY <1>1 DEF get_device_info_from_name, OpenShape, Accounted, Count
  <1>3. UNCHANGED <<devaddr, data, desc, devEvents, devFp, appLookup,
                    known, dedupExpected, calls, downloads>>
    BY DEF get_device_info_from_name
  <1>4. CASE pc' = "open" /\ caller' = "named" /\ UNCHANGED <<blk, live>>
    BY <1>1, <1>2, <1>3, <1>4 DEF IInv, TypeOK, PC, Accounted, Covered,
       OpenShape, SessionWellFormed
  <1>5. CASE /\ pc' = "idle" /\ blk' = FALSE
             /\ live' = [live EXCEPT !["data"] = @ - 1]
             /\ UNCHANGED caller
    <2>1. /\ live' \in [Kinds -> Nat] /\ live'["data"] = 0
          /\ \A k \in Kinds \ {"data"} : live'[k] = live[k]
      <3>1. live \in [Kinds -> Nat] /\ live["data"] >= 1
        BY <1>1, <1>2 DEF TypeOK
      <3>2. QED
        BY <1>2, <1>5, <3>1, FreeBlockFacts
    <2>2. /\ live'["ctx"] = live["ctx"] /\ live'["obj"] = live["obj"]
          /\ live'["stream"] = live["stream"] /\ live'["dev"] = live["dev"]
          /\ live'["label"] = live["label"] /\ live'["fp"] = live["fp"]
          /\ live'["desc"] = live["desc"]
      BY <2>1, KindFacts
    <2>3. TypeOK'
      BY <1>1, <1>3, <1>5, <2>1 DEF TypeOK, PC
    <2>4. Accounted' /\ Covered'
      BY <1>1, <1>3, <1>5, <2>1, <2>2 DEF Accounted, Covered, Count
    <2>5. OpenShape' /\ SessionWellFormed'
      BY <1>1, <1>2, <1>3, <1>5 DEF OpenShape, SessionWellFormed
    <2>6. QED
      BY <2>3, <2>4, <2>5 DEF IInv
  <1>6. QED
    BY <1>4, <1>5 DEF get_device_info_from_name

(* The argument check, the memset of the block and dc_context_new.        *)
LEMMA OpenBleDeviceContextIInv == IInv /\ open_ble_device_context => IInv'
  <1> SUFFICES ASSUME IInv, open_ble_device_context PROVE IInv'
    OBVIOUS
  <1>1. /\ TypeOK /\ Accounted /\ Covered /\ OpenShape /\ SessionWellFormed
    BY DEF IInv
  <1>2. /\ pc = "open"
        /\ ~data.context /\ ~data.iostream /\ ~data.device /\ ~data.model
        /\ ~data.fingerprint /\ ~data.descriptor /\ ~desc /\ ~devEvents
        /\ ~devFp
        /\ live["ctx"] = 0 /\ live["obj"] = 0 /\ live["stream"] = 0
        /\ live["dev"] = 0 /\ live["label"] = 0
        /\ live["data"] = Count(blk) /\ live \in [Kinds -> Nat]
        /\ blk \in BOOLEAN /\ caller \in {"app", "stored", "named"}
        /\ (blk <=> caller \in {"stored", "named"})
    BY <1>1 DEF open_ble_device_context, OpenShape, Accounted, Count, TypeOK
  <1>3. UNCHANGED <<caller, devaddr, desc, devEvents, devFp, appLookup,
                    known, dedupExpected, calls, downloads>>
    BY DEF open_ble_device_context
  <1>4. live["desc"] >= 0 /\ live["fp"] >= 0
    BY <1>2, KindFacts
  (* Both failures return with data either untouched or zeroed.          *)
  <1>5. CASE Return(FALSE, live) /\ (data' = data \/ data' = NullData)
    <2>1. /\ live' \in [Kinds -> Nat]
          /\ \A k \in Kinds \ {"data"} : live'[k] = live[k]
          /\ live'["data"] = Count(blk') /\ blk' \in BOOLEAN
          /\ \/ pc' = "idle" /\ ~blk'
             \/ pc' = "identify" /\ blk' /\ caller = "stored"
      BY <1>2, <1>5, ReturnFailedFacts
    <2>2. /\ live'["ctx"] = 0 /\ live'["obj"] = 0 /\ live'["stream"] = 0
          /\ live'["dev"] = 0 /\ live'["label"] = 0
          /\ live'["fp"] = live["fp"] /\ live'["desc"] = live["desc"]
      BY <1>2, <2>1, KindFacts
    <2>3. /\ data' \in [Fields -> BOOLEAN]
          /\ ~data'.context /\ ~data'.iostream /\ ~data'.device
          /\ ~data'.model /\ ~data'.fingerprint /\ ~data'.descriptor
      BY <1>1, <1>2, <1>5, NullDataFacts, KindFacts DEF TypeOK
    <2>4. TypeOK'
      BY <1>1, <1>3, <2>1, <2>3 DEF TypeOK, PC
    <2>5. Accounted' /\ Covered'
      BY <1>2, <1>3, <1>4, <2>1, <2>2, <2>3 DEF Accounted, Covered, Count
    <2>6. OpenShape' /\ SessionWellFormed'
      BY <1>1, <1>2, <1>3, <2>1, <2>3 DEF OpenShape, SessionWellFormed
    <2>7. QED
      BY <2>4, <2>5, <2>6 DEF IInv
  <1>6. CASE /\ data' = [NullData EXCEPT !.context = TRUE]
             /\ live' = Alloc(live, "ctx") /\ pc' = "descriptor"
             /\ UNCHANGED blk
    <2>1. /\ live' \in [Kinds -> Nat] /\ live'["ctx"] = 1
          /\ \A k \in Kinds \ {"ctx"} : live'[k] = live[k]
      BY <1>2, <1>6, AllocFacts, KindFacts
    <2>2. /\ live'["obj"] = 0 /\ live'["stream"] = 0
          /\ live'["dev"] = 0 /\ live'["label"] = 0
          /\ live'["data"] = live["data"]
          /\ live'["fp"] = live["fp"] /\ live'["desc"] = live["desc"]
      BY <1>2, <2>1, KindFacts
    <2>3. /\ data' \in [Fields -> BOOLEAN] /\ data'.context
          /\ ~data'.iostream /\ ~data'.device
          /\ ~data'.model /\ ~data'.fingerprint /\ ~data'.descriptor
      BY <1>6, NullDataFacts, KindFacts
    <2>4. TypeOK'
      BY <1>1, <1>3, <1>6, <2>1, <2>3 DEF TypeOK, PC
    <2>5. Accounted' /\ Covered'
      BY <1>2, <1>3, <1>4, <1>6, <2>1, <2>2, <2>3
         DEF Accounted, Covered, Count
    <2>6. OpenShape' /\ SessionWellFormed'
      BY <1>1, <1>2, <1>3, <1>6, <2>3 DEF OpenShape, SessionWellFormed
    <2>7. QED
      BY <2>4, <2>5, <2>6 DEF IInv
  <1>7. QED
    BY <1>5, <1>6 DEF open_ble_device_context


(* The common frame of the four fallible steps of open_ble_device.      *)
OpenFrame ==
    UNCHANGED <<caller, devaddr, appLookup, known, dedupExpected, calls,
                downloads>>

(* find_descriptor_by_model adds one descriptor, held by the local.       *)
LEMMA OpenBleDeviceDescriptorIInv == IInv /\ open_ble_device_descriptor => IInv'
  <1> SUFFICES ASSUME IInv, open_ble_device_descriptor PROVE IInv'
    OBVIOUS
  <1>1. /\ TypeOK /\ Accounted /\ Covered /\ OpenShape /\ SessionWellFormed
    BY DEF IInv
  <1>2. pc = "descriptor" /\ OpenFrame
    BY DEF open_ble_device_descriptor, OpenFrame
  <1>3. CASE /\ desc' = TRUE /\ live' = Alloc(live, "desc") /\ pc' = "packet"
             /\ UNCHANGED <<data, devEvents, devFp, blk>>
    <2>1. /\ live' \in [Kinds -> Nat] /\ live'["desc"] = live["desc"] + 1
          /\ \A k \in Kinds \ {"desc"} : live'[k] = live[k]
      BY <1>1, <1>3, AllocFacts, KindFacts DEF TypeOK
    <2>2. /\ live'["ctx"] = live["ctx"] /\ live'["obj"] = live["obj"]
          /\ live'["stream"] = live["stream"] /\ live'["dev"] = live["dev"]
          /\ live'["label"] = live["label"] /\ live'["fp"] = live["fp"]
          /\ live'["data"] = live["data"]
      BY <2>1, KindFacts
    <2>3. TypeOK'
      BY <1>1, <1>2, <1>3, <2>1 DEF TypeOK, PC, OpenFrame
    <2>4. Accounted' /\ Covered'
      <3>1. live["desc"] \in Nat /\ ~data.descriptor /\ ~desc
        BY <1>1, <1>2, KindFacts DEF TypeOK, OpenShape
      <3>2. Accounted'
        BY <1>1, <1>3, <2>2 DEF Accounted
      <3>3. Count(data'.descriptor) = 0 /\ Count(desc') = 1
        BY <1>3, <3>1 DEF Count
      <3>4. live'["desc"] >= Count(data'.descriptor) + Count(desc')
        BY <2>1, <3>1, <3>3
      <3>5. live'["fp"] >= Count(data'.fingerprint)
        BY <1>1, <1>3, <2>2 DEF Covered
      <3>6. QED
        BY <3>2, <3>4, <3>5 DEF Covered
    <2>5. OpenShape' /\ SessionWellFormed'
      BY <1>1, <1>2, <1>3 DEF OpenShape, SessionWellFormed, OpenFrame
    <2>6. QED
      BY <2>3, <2>4, <2>5 DEF IInv
  <1>4. CASE OpenFails(live)
    BY <1>2, <1>4, OpenFailsIInv DEF OpenFrame
  <1>5. QED
    BY <1>3, <1>4 DEF open_ble_device_descriptor

(* What ble_packet_open leaves in the counts: a stream and its object on  *)
(* success, nothing on any failure.                                        *)
LEMMA BlePacketOpenLiveFacts ==
  ASSUME NEW l \in [Kinds -> Nat],
         NEW outcome \in {"ok", "no_object", "connect_fail", "no_stream"}
  PROVE  /\ outcome # "ok" => BlePacketOpenLive(l, outcome) = l
         /\ outcome = "ok" =>
              /\ BlePacketOpenLive(l, outcome) \in [Kinds -> Nat]
              /\ BlePacketOpenLive(l, outcome)["obj"] = l["obj"] + 1
              /\ BlePacketOpenLive(l, outcome)["stream"] = l["stream"] + 1
              /\ \A k \in Kinds \ {"obj", "stream"} :
                    BlePacketOpenLive(l, outcome)[k] = l[k]
  BY KindFacts DEF BlePacketOpenLive

(* ble_packet_open: the stream is stored in data->iostream on success.    *)
LEMMA OpenBleDevicePacketOpenIInv ==
    IInv /\ open_ble_device_packet_open => IInv'
  <1> SUFFICES ASSUME IInv, open_ble_device_packet_open PROVE IInv'
    OBVIOUS
  <1>1. /\ TypeOK /\ Accounted /\ Covered /\ OpenShape /\ SessionWellFormed
    BY DEF IInv
  <1>2. pc = "packet" /\ OpenFrame
    BY DEF open_ble_device_packet_open, OpenFrame
  <1>3. PICK outcome \in {"ok", "no_object", "connect_fail", "no_stream"} :
          IF outcome = "ok"
            THEN /\ data' = [data EXCEPT !.iostream = TRUE]
                 /\ live' = BlePacketOpenLive(live, outcome)
                 /\ pc' = "device"
                 /\ UNCHANGED <<desc, devEvents, devFp, blk>>
            ELSE OpenFails(BlePacketOpenLive(live, outcome))
    BY DEF open_ble_device_packet_open
  <1>4. CASE outcome = "ok"
    <2>1. /\ data' = [data EXCEPT !.iostream = TRUE]
          /\ live' = BlePacketOpenLive(live, outcome) /\ pc' = "device"
          /\ UNCHANGED <<desc, devEvents, devFp, blk>>
      BY <1>3, <1>4
    <2>2. /\ live' \in [Kinds -> Nat]
          /\ live'["obj"] = live["obj"] + 1
          /\ live'["stream"] = live["stream"] + 1
          /\ live'["ctx"] = live["ctx"] /\ live'["dev"] = live["dev"]
          /\ live'["label"] = live["label"] /\ live'["fp"] = live["fp"]
          /\ live'["desc"] = live["desc"] /\ live'["data"] = live["data"]
      BY <1>1, <1>4, <2>1, BlePacketOpenLiveFacts, KindFacts DEF TypeOK
    <2>3. /\ data' \in [Fields -> BOOLEAN] /\ data'.iostream
          /\ data'.context = data.context /\ data'.device = data.device
          /\ data'.model = data.model /\ data'.descriptor = data.descriptor
          /\ data'.fingerprint = data.fingerprint
      BY <1>1, <2>1, KindFacts DEF TypeOK
    <2>4. TypeOK'
      BY <1>1, <1>2, <2>1, <2>2, <2>3 DEF TypeOK, PC, OpenFrame
    <2>5. Accounted' /\ Covered'
      BY <1>1, <1>2, <2>1, <2>2, <2>3 DEF Accounted, Covered, OpenShape, Count
    <2>6. OpenShape' /\ SessionWellFormed'
      BY <1>1, <1>2, <2>1, <2>3 DEF OpenShape, SessionWellFormed, OpenFrame
    <2>7. QED
      BY <2>4, <2>5, <2>6 DEF IInv
  <1>5. CASE outcome # "ok"
    <2>1. BlePacketOpenLive(live, outcome) = live
      BY <1>1, <1>5, BlePacketOpenLiveFacts DEF TypeOK
    <2>2. OpenFails(live)
      BY <1>3, <1>5, <2>1
    <2>3. QED
      BY <1>2, <2>2, OpenFailsIInv DEF OpenFrame
  <1>6. QED
    BY <1>4, <1>5

(* dc_device_open stores the device in data->device.                      *)
LEMMA OpenBleDeviceDeviceOpenIInv == IInv /\ open_ble_device_device_open => IInv'
  <1> SUFFICES ASSUME IInv, open_ble_device_device_open PROVE IInv'
    OBVIOUS
  <1>1. /\ TypeOK /\ Accounted /\ Covered /\ OpenShape /\ SessionWellFormed
    BY DEF IInv
  <1>2. pc = "device" /\ OpenFrame
    BY DEF open_ble_device_device_open, OpenFrame
  <1>3. CASE /\ data' = [data EXCEPT !.device = TRUE]
             /\ live' = Alloc(live, "dev") /\ pc' = "events"
             /\ UNCHANGED <<desc, devEvents, devFp, blk>>
    <2>1. /\ live' \in [Kinds -> Nat] /\ live'["dev"] = live["dev"] + 1
          /\ \A k \in Kinds \ {"dev"} : live'[k] = live[k]
      BY <1>1, <1>3, AllocFacts, KindFacts DEF TypeOK
    <2>2. /\ live'["ctx"] = live["ctx"] /\ live'["obj"] = live["obj"]
          /\ live'["stream"] = live["stream"] /\ live'["desc"] = live["desc"]
          /\ live'["label"] = live["label"] /\ live'["fp"] = live["fp"]
          /\ live'["data"] = live["data"]
      BY <2>1, KindFacts
    <2>3. /\ data' \in [Fields -> BOOLEAN] /\ data'.device
          /\ data'.context = data.context /\ data'.iostream = data.iostream
          /\ data'.model = data.model /\ data'.descriptor = data.descriptor
          /\ data'.fingerprint = data.fingerprint
      BY <1>1, <1>3, KindFacts DEF TypeOK
    <2>4. TypeOK'
      BY <1>1, <1>2, <1>3, <2>1, <2>3 DEF TypeOK, PC, OpenFrame
    <2>5. Accounted' /\ Covered'
      BY <1>1, <1>2, <1>3, <2>1, <2>2, <2>3
         DEF Accounted, Covered, OpenShape, Count
    <2>6. OpenShape' /\ SessionWellFormed'
      BY <1>1, <1>2, <1>3, <2>3 DEF OpenShape, SessionWellFormed, OpenFrame
    <2>7. QED
      BY <2>4, <2>5, <2>6 DEF IInv
  <1>4. CASE OpenFails(live)
    BY <1>2, <1>4, OpenFailsIInv DEF OpenFrame
  <1>5. QED
    BY <1>3, <1>4 DEF open_ble_device_device_open


(* dc_device_set_events completes the session: the descriptor moves into *)
(* data->descriptor and the model string is stored if malloc gave one.   *)
LEMMA OpenBleDeviceSetEventsIInv == IInv /\ open_ble_device_set_events => IInv'
  <1> SUFFICES ASSUME IInv, open_ble_device_set_events PROVE IInv'
    OBVIOUS
  <1>1. /\ TypeOK /\ Accounted /\ Covered /\ OpenShape /\ SessionWellFormed
    BY DEF IInv
  <1>2. pc = "events" /\ OpenFrame
    BY DEF open_ble_device_set_events, OpenFrame
  <1>3. CASE /\ devEvents' = TRUE /\ desc' = FALSE
             /\ \E labelled \in BOOLEAN :
                   /\ data' = [data EXCEPT !.descriptor = TRUE,
                                           !.model = labelled]
                   /\ Return(TRUE, IF labelled THEN Alloc(live, "label")
                                              ELSE live)
             /\ UNCHANGED <<devFp>>
    <2>1. PICK labelled \in BOOLEAN :
              /\ data' = [data EXCEPT !.descriptor = TRUE, !.model = labelled]
              /\ Return(TRUE, IF labelled THEN Alloc(live, "label") ELSE live)
      BY <1>3
    <2>2. /\ pc' = "idle" /\ blk' = blk
          /\ live' = IF labelled THEN Alloc(live, "label") ELSE live
      BY <2>1 DEF Return
    <2>3. /\ live' \in [Kinds -> Nat]
          /\ live'["label"] = live["label"] + Count(labelled)
          /\ \A k \in Kinds \ {"label"} : live'[k] = live[k]
      BY <1>1, <2>2, AllocFacts, KindFacts DEF TypeOK, Count
    <2>4. /\ live'["ctx"] = live["ctx"] /\ live'["obj"] = live["obj"]
          /\ live'["stream"] = live["stream"] /\ live'["dev"] = live["dev"]
          /\ live'["desc"] = live["desc"] /\ live'["fp"] = live["fp"]
          /\ live'["data"] = live["data"]
      BY <2>3, KindFacts
    <2>5. /\ data' \in [Fields -> BOOLEAN]
          /\ data'.descriptor /\ data'.model = labelled
          /\ data'.context /\ data'.iostream /\ data'.device
          /\ data'.fingerprint = data.fingerprint
      BY <1>1, <1>2, <2>1, KindFacts DEF TypeOK, OpenShape
    <2>6. /\ live["label"] = 0 /\ ~data.fingerprint /\ desc
          /\ ~data.descriptor /\ live["desc"] \in Nat
          /\ data.context /\ data.iostream /\ data.device
      BY <1>1, <1>2, KindFacts DEF TypeOK, OpenShape, Accounted, Count
    <2>7. TypeOK'
      BY <1>1, <1>2, <1>3, <2>2, <2>3, <2>5 DEF TypeOK, PC, OpenFrame
    <2>8. Accounted'
      <3>1. live'["label"] = Count(data'.model)
        BY <2>3, <2>5, <2>6 DEF Count
      <3>2. QED
        BY <1>1, <2>2, <2>4, <2>5, <2>6, <3>1 DEF Accounted
    <2>9. Covered'
      <3>1. Count(data'.descriptor) + Count(desc') = 1
        BY <1>3, <2>5 DEF Count
      <3>2. live["desc"] >= 1
        BY <1>1, <2>6 DEF Covered, Count
      <3>3. QED
        BY <1>1, <2>4, <2>5, <2>6, <3>1, <3>2 DEF Covered
    <2>10. OpenShape' /\ SessionWellFormed'
      BY <1>1, <1>2, <1>3, <2>2, <2>5 DEF OpenShape, SessionWellFormed,
         OpenFrame
    <2>11. QED
      BY <2>7, <2>8, <2>9, <2>10 DEF IInv
  <1>4. CASE OpenFails(live)
    BY <1>2, <1>4, OpenFailsIInv DEF OpenFrame
  <1>5. QED
    BY <1>3, <1>4 DEF open_ble_device_set_events

(* A DEVINFO event: a fingerprint buffer handed over by the lookup is     *)
(* counted, and stored in data->fingerprint unless its size is 0.         *)
LEMMA BleDeviceEventCbDevinfoIInv == IInv /\ ble_device_event_cb_devinfo => IInv'
  <1> SUFFICES ASSUME IInv, ble_device_event_cb_devinfo PROVE IInv'
    OBVIOUS
  <1>1. /\ TypeOK /\ Accounted /\ Covered /\ OpenShape /\ SessionWellFormed
    BY DEF IInv
  <1>2. /\ pc = "idle" /\ data.device /\ devEvents
        /\ downloads' \in 0..MaxDownloads /\ dedupExpected' \in BOOLEAN
        /\ UNCHANGED <<pc, caller, devaddr, desc, blk, devEvents,
                       appLookup, known, calls>>
    BY <1>1, BoundsAssumption DEF ble_device_event_cb_devinfo, TypeOK
  (* Every outcome changes only have_devinfo, fingerprint, the fp count   *)
  (* and devFp.                                                            *)
  <1>3. \E fpSet \in BOOLEAN, alloc \in BOOLEAN :
          /\ data' = [data EXCEPT !.have_devinfo = TRUE,
                                  !.fingerprint = data.fingerprint \/ fpSet]
          /\ live' = IF alloc THEN Alloc(live, "fp") ELSE live
          /\ fpSet => alloc
          /\ devFp' \in BOOLEAN
          /\ (devFp' => devFp \/ fpSet)
    <2>1. data.fingerprint \in BOOLEAN /\ devFp \in BOOLEAN
      BY <1>1, KindFacts DEF TypeOK
    <2>2. CASE data.lookup /\ data.model
      <3>1. PICK res \in LookupResults :
              CASE res = "none" ->
                     /\ data' = [data EXCEPT !.have_devinfo = TRUE]
                     /\ UNCHANGED <<live, devFp>>
                [] res = "empty" ->
                     /\ data' = [data EXCEPT !.have_devinfo = TRUE]
                     /\ live' = Alloc(live, "fp")
                     /\ UNCHANGED devFp
                [] res = "fp" ->
                     /\ data' = [data EXCEPT !.have_devinfo = TRUE,
                                             !.fingerprint = TRUE]
                     /\ live' = Alloc(live, "fp")
                     /\ \E setOk \in BOOLEAN : devFp' = (devFp \/ setOk)
        BY <2>2 DEF ble_device_event_cb_devinfo
      <3>2. res \in {"none", "empty", "fp"}
        BY DEF LookupResults
      <3>3. CASE res = "none"
        <4>1. data' = [data EXCEPT !.have_devinfo = TRUE,
                                   !.fingerprint = data.fingerprint \/ FALSE]
          BY <2>1, <3>1, <3>3
        <4>2. QED
          BY <2>1, <3>1, <3>3, <4>1
      <3>4. CASE res = "empty"
        <4>1. data' = [data EXCEPT !.have_devinfo = TRUE,
                                   !.fingerprint = data.fingerprint \/ FALSE]
          BY <2>1, <3>1, <3>4
        <4>2. QED
          BY <2>1, <3>1, <3>4, <4>1
      <3>5. CASE res = "fp"
        <4>1. data' = [data EXCEPT !.have_devinfo = TRUE,
                                   !.fingerprint = data.fingerprint \/ TRUE]
          BY <3>1, <3>5
        <4>2. QED
          BY <2>1, <3>1, <3>5, <4>1
      <3>6. QED
        BY <3>2, <3>3, <3>4, <3>5
    <2>3. CASE ~(data.lookup /\ data.model)
      <3>1. data' = [data EXCEPT !.have_devinfo = TRUE,
                                 !.fingerprint = data.fingerprint \/ FALSE]
        BY <2>1, <2>3 DEF ble_device_event_cb_devinfo
      <3>2. QED
        BY <2>1, <2>3, <3>1 DEF ble_device_event_cb_devinfo
    <2>4. QED
      BY <2>2, <2>3
  <1>4. PICK fpSet \in BOOLEAN, alloc \in BOOLEAN :
          /\ data' = [data EXCEPT !.have_devinfo = TRUE,
                                  !.fingerprint = data.fingerprint \/ fpSet]
          /\ live' = IF alloc THEN Alloc(live, "fp") ELSE live
          /\ fpSet => alloc
          /\ devFp' \in BOOLEAN
          /\ (devFp' => devFp \/ fpSet)
    BY <1>3
  <1>5. /\ live' \in [Kinds -> Nat]
        /\ live'["fp"] = live["fp"] + Count(alloc)
        /\ \A k \in Kinds \ {"fp"} : live'[k] = live[k]
    BY <1>1, <1>4, AllocFacts, KindFacts DEF TypeOK, Count
  <1>6. /\ live'["ctx"] = live["ctx"] /\ live'["obj"] = live["obj"]
        /\ live'["stream"] = live["stream"] /\ live'["dev"] = live["dev"]
        /\ live'["desc"] = live["desc"] /\ live'["label"] = live["label"]
        /\ live'["data"] = live["data"]
    BY <1>5, KindFacts
  <1>7. /\ data' \in [Fields -> BOOLEAN]
        /\ data'.fingerprint = (data.fingerprint \/ fpSet)
        /\ data'.context = data.context /\ data'.iostream = data.iostream
        /\ data'.device = data.device /\ data'.model = data.model
        /\ data'.descriptor = data.descriptor
    BY <1>1, <1>4, KindFacts DEF TypeOK
  <1>8. TypeOK'
    BY <1>1, <1>2, <1>4, <1>5, <1>7 DEF TypeOK
  <1>9. Accounted'
    BY <1>1, <1>2, <1>6, <1>7 DEF Accounted
  <1>10. Covered'
    <2>1. live["fp"] \in Nat /\ live["fp"] >= Count(data.fingerprint)
      BY <1>1, KindFacts DEF TypeOK, Covered
    <2>2. live'["fp"] >= Count(data'.fingerprint)
      BY <1>4, <1>5, <1>7, <2>1 DEF Count
    <2>3. QED
      BY <1>1, <1>2, <1>6, <1>7, <2>2 DEF Covered
  <1>11. OpenShape' /\ SessionWellFormed'
    BY <1>1, <1>2, <1>4, <1>7 DEF OpenShape, SessionWellFormed
  <1>12. QED
    BY <1>8, <1>9, <1>10, <1>11 DEF IInv


(* A PROGRESS event and the application's lookup callback change only    *)
(* flags of the block.                                                     *)
LEMMA BleDeviceEventCbProgressIInv ==
    IInv /\ ble_device_event_cb_progress => IInv'
  <1> SUFFICES ASSUME IInv, ble_device_event_cb_progress PROVE IInv'
    OBVIOUS
  <1>1. /\ TypeOK /\ Accounted /\ Covered /\ OpenShape /\ SessionWellFormed
    BY DEF IInv
  <1>2. /\ data' \in [Fields -> BOOLEAN]
        /\ data'.context = data.context /\ data'.iostream = data.iostream
        /\ data'.device = data.device /\ data'.model = data.model
        /\ data'.descriptor = data.descriptor
        /\ data'.fingerprint = data.fingerprint
    BY <1>1, KindFacts DEF ble_device_event_cb_progress, TypeOK
  <1>3. QED
    BY <1>1, <1>2 DEF ble_device_event_cb_progress, IInv, TypeOK, Accounted,
       Covered, OpenShape, SessionWellFormed

LEMMA AppSetLookupIInv == IInv /\ app_set_lookup => IInv'
  <1> SUFFICES ASSUME IInv, app_set_lookup PROVE IInv'
    OBVIOUS
  <1>1. /\ TypeOK /\ Accounted /\ Covered /\ OpenShape /\ SessionWellFormed
    BY DEF IInv
  <1>2. /\ data' \in [Fields -> BOOLEAN]
        /\ data'.context = data.context /\ data'.iostream = data.iostream
        /\ data'.device = data.device /\ data'.model = data.model
        /\ data'.descriptor = data.descriptor
        /\ data'.fingerprint = data.fingerprint
    BY <1>1, KindFacts DEF app_set_lookup, TypeOK
  <1>3. QED
    BY <1>1, <1>2 DEF app_set_lookup, IInv, TypeOK, Accounted, Covered,
       OpenShape, SessionWellFormed

(* Closing a complete session releases all its objects in an order that  *)
(* closes the device while its stream and context are open.               *)
LEMMA AppCloseIInv == IInv /\ app_close => IInv'
  <1> SUFFICES ASSUME IInv, app_close PROVE IInv'
    OBVIOUS
  <1> DEFINE cl == CloseLive(data, live)
  <1>1. /\ TypeOK /\ Accounted /\ Covered /\ OpenShape /\ SessionWellFormed
    BY DEF IInv
  <1>2. /\ pc = "idle" /\ data.device /\ data.iostream /\ data.context
        /\ data \in [Fields -> BOOLEAN] /\ live \in [Kinds -> Nat]
        /\ blk \in BOOLEAN
        /\ UNCHANGED <<pc, caller, devaddr, desc, known, calls, downloads>>
        /\ devEvents' = FALSE /\ devFp' = FALSE /\ dedupExpected' = FALSE
        /\ blk' = FALSE /\ ~desc
    BY <1>1 DEF app_close, SessionWellFormed, TypeOK, OpenShape
  <1>4. /\ cl \in [Kinds -> Nat]
        /\ cl["ctx"] = 0 /\ cl["obj"] = 0 /\ cl["stream"] = 0
        /\ cl["dev"] = 0 /\ cl["label"] = 0
        /\ cl["fp"] \in Nat /\ cl["desc"] = live["desc"]
        /\ cl["data"] = Count(blk)
    <2>1. /\ live["fp"] >= Count(data.fingerprint)
          /\ live["label"] >= Count(data.model)
          /\ live["dev"] >= Count(data.device)
          /\ live["stream"] >= Count(data.iostream)
          /\ live["obj"] >= Count(data.iostream)
          /\ live["ctx"] >= Count(data.context)
      BY <1>1, <1>2 DEF Accounted, Covered, Count
    <2>2. /\ cl \in [Kinds -> Nat]
          /\ cl["fp"] = live["fp"] - Count(data.fingerprint)
          /\ cl["label"] = live["label"] - Count(data.model)
          /\ cl["dev"] = live["dev"] - Count(data.device)
          /\ cl["stream"] = live["stream"] - Count(data.iostream)
          /\ cl["obj"] = live["obj"] - Count(data.iostream)
          /\ cl["ctx"] = live["ctx"] - Count(data.context)
          /\ cl["desc"] = live["desc"]
          /\ cl["data"] = live["data"]
      BY <1>2, <2>1, CloseLiveFacts
    <2>3. QED
      BY <1>1, <2>2, KindFacts DEF Accounted, Count
  <1>5. /\ live' \in [Kinds -> Nat]
        /\ live'["ctx"] = 0 /\ live'["obj"] = 0 /\ live'["stream"] = 0
        /\ live'["dev"] = 0 /\ live'["label"] = 0 /\ live'["data"] = 0
        /\ live'["fp"] \in Nat /\ live'["desc"] = live["desc"]
        /\ data' \in [Fields -> BOOLEAN]
        /\ ~data'.context /\ ~data'.iostream /\ ~data'.device
        /\ ~data'.model /\ ~data'.fingerprint /\ ~data'.descriptor
        /\ appLookup' \in BOOLEAN
    <2>1. CASE blk
      <3>1. /\ live' = [cl EXCEPT !["data"] = @ - 1] /\ data' = NullData
            /\ appLookup' = FALSE
        BY <2>1 DEF app_close
      <3>2. /\ live' \in [Kinds -> Nat]
            /\ live'["data"] = cl["data"] - 1
            /\ \A j \in Kinds \ {"data"} : live'[j] = cl[j]
        <4>1. cl["data"] >= 1
          BY <1>4, <2>1 DEF Count
        <4>2. QED
          BY <1>4, <3>1, <4>1, FreeBlockFacts
      <3>3. /\ live'["ctx"] = cl["ctx"] /\ live'["obj"] = cl["obj"]
            /\ live'["stream"] = cl["stream"] /\ live'["dev"] = cl["dev"]
            /\ live'["label"] = cl["label"] /\ live'["fp"] = cl["fp"]
            /\ live'["desc"] = cl["desc"]
        BY <3>2, KindFacts
      <3>4. live'["data"] = 0
        BY <1>4, <2>1, <3>2 DEF Count
      <3>5. QED
        BY <1>4, <3>1, <3>2, <3>3, <3>4, NullDataFacts, KindFacts
    <2>2. CASE ~blk
      <3>1. /\ live' = cl /\ data' = ClosedData(data)
            /\ appLookup' = appLookup
        BY <2>2 DEF app_close
      <3>2. cl["data"] = 0
        BY <1>4, <2>2 DEF Count
      <3>3. QED
        BY <1>1, <1>2, <1>4, <3>1, <3>2, ClosedDataFacts DEF TypeOK
    <2>3. QED
      BY <1>2, <2>1, <2>2
  <1>6. TypeOK'
    BY <1>1, <1>2, <1>5 DEF TypeOK
  <1>7. Accounted' /\ Covered'
    <2>1. live["desc"] \in Nat
      BY <1>2, KindFacts
    <2>2. QED
      BY <1>2, <1>5, <2>1 DEF Accounted, Covered, Count
  <1>8. OpenShape' /\ SessionWellFormed'
    BY <1>2, <1>5 DEF OpenShape, SessionWellFormed
  <1>9. QED
    BY <1>6, <1>7, <1>8 DEF IInv

(* IInv is preserved by every step of the session.                        *)
LEMMA NextIInv == IInv /\ [Next]_vars => IInv'
  <1> SUFFICES ASSUME IInv, [Next]_vars PROVE IInv'
    OBVIOUS
  <1>1. CASE app_open_ble_device
    BY <1>1, AppOpenBleDeviceIInv
  <1>2. CASE open_ble_device_with_identification
    BY <1>2, OpenBleDeviceWithIdentificationIInv
  <1>3. CASE get_device_info_from_name
    BY <1>3, GetDeviceInfoFromNameIInv
  <1>4. CASE open_ble_device_context
    BY <1>4, OpenBleDeviceContextIInv
  <1>5. CASE open_ble_device_descriptor
    BY <1>5, OpenBleDeviceDescriptorIInv
  <1>6. CASE open_ble_device_packet_open
    BY <1>6, OpenBleDevicePacketOpenIInv
  <1>7. CASE open_ble_device_device_open
    BY <1>7, OpenBleDeviceDeviceOpenIInv
  <1>8. CASE open_ble_device_set_events
    BY <1>8, OpenBleDeviceSetEventsIInv
  <1>9. CASE ble_device_event_cb_devinfo
    BY <1>9, BleDeviceEventCbDevinfoIInv
  <1>10. CASE ble_device_event_cb_progress
    BY <1>10, BleDeviceEventCbProgressIInv
  <1>11. CASE app_set_lookup
    BY <1>11, AppSetLookupIInv
  <1>12. CASE app_close
    BY <1>12, AppCloseIInv
  <1>13. CASE Terminating \/ UNCHANGED vars
    BY <1>13 DEF Terminating, vars, IInv, TypeOK, Accounted, Covered,
       OpenShape, SessionWellFormed
  <1>14. QED
    BY <1>1, <1>2, <1>3, <1>4, <1>5, <1>6, <1>7, <1>8, <1>9, <1>10, <1>11,
       <1>12, <1>13 DEF Next


(* Accounted gives LeakFree: each managed kind is live exactly as often  *)
(* as the session points to it.                                            *)
LEMMA AccountedLeakFree == Accounted => LeakFree
  BY DEF Accounted, LeakFree, Managed, Kinds, Owned

-----------------------------------------------------------------------------
(* IInv holds in every reachable state of the session.                    *)
THEOREM IInvInvariant == Spec => []IInv
  <1>1. Init => IInv
    BY InitIInv
  <1>2. IInv /\ [Next]_vars => IInv'
    BY NextIInv
  <1>3. QED
    BY <1>1, <1>2, PTL DEF Spec

(* Type correctness: no count of live objects ever goes negative, so no  *)
(* path of open_ble_device, its callers, the event callback or the close  *)
(* frees an object twice.                                                   *)
THEOREM TypeCorrect == Spec => []TypeOK
  BY IInvInvariant, PTL DEF IInv

(* For every MaxCalls and MaxDownloads: whenever the application has     *)
(* control, no context, BLE object, stream, device, model string or block *)
(* is live without a pointer to it, whichever open, identification,       *)
(* failure, download and close paths ran before.                           *)
THEOREM LeakFreeInvariant == Spec => []LeakFree
  <1>1. IInv => LeakFree
    BY AccountedLeakFree DEF IInv
  <1>2. QED
    BY <1>1, IInvInvariant, PTL

(* For every MaxCalls and MaxDownloads: no partial session is left to    *)
(* the application, and events come only for an open device.             *)
THEOREM SessionWellFormedInvariant == Spec => []SessionWellFormed
  BY IInvInvariant, PTL DEF IInv

-----------------------------------------------------------------------------
(* open_ble_device_with_identification goes on to get_device_info_from_  *)
(* name only after a failed stored attempt.                                *)
LEMMA ReturnToIdentify ==
  ASSUME NEW ok, NEW l, Return(ok, l), pc' = "identify"
  PROVE  caller = "stored" /\ ~ok
  BY DEF Return

(* A failing open step hands the named attempt an unwound block.          *)
LEMMA OpenFailsToIdentify ==
  ASSUME data \in [Fields -> BOOLEAN], NEW l, OpenFails(l), pc' = "identify"
  PROVE  /\ caller = "stored"
         /\ ~data'.context /\ ~data'.iostream /\ ~data'.device /\ ~desc'
  <1>1. caller = "stored"
    BY ReturnToIdentify DEF OpenFails
  <1>2. ~data'.context /\ ~data'.iostream /\ ~data'.device /\ ~desc'
    BY ClosedDataFacts DEF OpenFails
  <1>3. QED
    BY <1>1, <1>2

(* Every step into get_device_info_from_name from elsewhere keeps the     *)
(* retry rule.                                                              *)
LEMMA StoredFallbackStep ==
  ASSUME IInv, [Next]_vars, pc' = "identify", pc # "identify"
  PROVE  /\ pc = "idle" \/ caller = "stored"
         /\ ~data'.context /\ ~data'.iostream /\ ~data'.device /\ ~desc'
  <1>0. /\ data \in [Fields -> BOOLEAN]
        /\ pc \in {"idle", "identify", "open"} => ~desc
        /\ pc = "open" => ~data.context /\ ~data.iostream /\ ~data.device
    BY DEF IInv, TypeOK, OpenShape
  <1>1. CASE app_open_ble_device
    BY <1>1 DEF app_open_ble_device
  <1>2. CASE open_ble_device_with_identification
    <2>1. pc = "idle" /\ data' = NullData /\ desc' = desc
      BY <1>2 DEF open_ble_device_with_identification
    <2>2. QED
      BY <1>0, <2>1, NullDataFacts, KindFacts
  <1>3. CASE get_device_info_from_name
    BY <1>3 DEF get_device_info_from_name
  <1>4. CASE open_ble_device_context
    <2>1. pc = "open" /\ desc' = desc
      BY <1>4 DEF open_ble_device_context
    <2>2. CASE ~devaddr /\ Return(FALSE, live) /\ UNCHANGED data
      BY <1>0, <2>1, <2>2, ReturnToIdentify
    <2>3. CASE devaddr /\ data' = [NullData EXCEPT !.context = TRUE] /\ pc' = "descriptor"
      BY <2>3
    <2>4. CASE devaddr /\ data' = NullData /\ Return(FALSE, live)
      BY <1>0, <2>1, <2>4, ReturnToIdentify, NullDataFacts, KindFacts
    <2>5. QED
      BY <1>4, <2>2, <2>3, <2>4 DEF open_ble_device_context
  <1>5. CASE open_ble_device_descriptor
    <2>1. CASE pc' = "packet"
      BY <2>1
    <2>2. CASE OpenFails(live)
      BY <1>0, <2>2, OpenFailsToIdentify
    <2>3. QED
      BY <1>5, <2>1, <2>2 DEF open_ble_device_descriptor
  <1>6. CASE open_ble_device_packet_open
    <2>1. PICK outcome \in {"ok", "no_object", "connect_fail", "no_stream"} :
            IF outcome = "ok"
              THEN pc' = "device"
              ELSE OpenFails(BlePacketOpenLive(live, outcome))
      BY <1>6 DEF open_ble_device_packet_open
    <2>2. QED
      BY <1>0, <2>1, OpenFailsToIdentify
  <1>7. CASE open_ble_device_device_open
    <2>1. CASE pc' = "events"
      BY <2>1
    <2>2. CASE OpenFails(live)
      BY <1>0, <2>2, OpenFailsToIdentify
    <2>3. QED
      BY <1>7, <2>1, <2>2 DEF open_ble_device_device_open
  <1>8. CASE open_ble_device_set_events
    <2>1. CASE \E labelled \in BOOLEAN :
                 Return(TRUE, IF labelled THEN Alloc(live, "label") ELSE live)
      BY <2>1, ReturnToIdentify
    <2>2. CASE OpenFails(live)
      BY <1>0, <2>2, OpenFailsToIdentify
    <2>3. QED
      BY <1>8, <2>1, <2>2 DEF open_ble_device_set_events
  <1>9. CASE ble_device_event_cb_devinfo \/ ble_device_event_cb_progress
             \/ app_set_lookup \/ app_close
    BY <1>9 DEF ble_device_event_cb_devinfo, ble_device_event_cb_progress,
                app_set_lookup, app_close
  <1>10. CASE Terminating \/ UNCHANGED vars
    BY <1>10 DEF Terminating, vars
  <1>11. QED
    BY <1>1, <1>2, <1>3, <1>4, <1>5, <1>6, <1>7, <1>8, <1>9, <1>10 DEF Next

(* For every MaxCalls and MaxDownloads: open_ble_device_with_identification *)
(* falls back to identification by name only on a fresh block or after    *)
(* the stored attempt failed and was unwound, never after a success, and  *)
(* the named attempt is never retried.                                     *)
THEOREM StoredFallbackCleanTheorem == Spec => StoredFallbackClean
  <1>1. IInv /\ [Next]_vars =>
          [pc' = "identify" /\ pc # "identify" =>
             /\ pc = "idle" \/ caller = "stored"
             /\ ~data'.context /\ ~data'.iostream /\ ~data'.device /\ ~desc']_vars
    BY StoredFallbackStep
  <1>2. QED
    BY <1>1, IInvInvariant, PTL DEF Spec, StoredFallbackClean

=============================================================================
